SPECIFICATION FairWatch
CONSTANTS
    Confirm = 2
    MinPace = 1
    Grace = 1
    Cooldown = 3
    None = None
    Jump = 2
    AlpacaPart = 2
    Around = {"under"}
    Stall = 1
    MaxPolls = 5
    MaxMishaps = 1
CHECK_DEADLOCK FALSE
INVARIANT
    BreaksFollowTheTape
PROPERTY
    StallIsTold
