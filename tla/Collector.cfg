CONSTANTS
    Symbols <- MCSymbols
    c1 = c1
    c2 = c2
    Contracts <- MCContracts
    InRange <- MCInRange
    Days <- MCDays
    Closed <- MCWeekend
    Weekend <- MCWeekend
    TokenLife = 3
    WarnAge = 2
    FirstTokens <- MCFirstTokens
    BarDays = 2
    MaxFaults = 1
    MaxCrashes = 1
SPECIFICATION Spec
INVARIANTS
    HolesAreExplained
    SnapshotsMeanWhatTheySay
    TapeIsWhole
    OkMeansAccepted
