SPECIFICATION Spec
CONSTANTS
    LastDay = 2
    Weekdays <- MCWeekdays
    MaxPerDay = 1
    MaxAge = 1
    SlowSteps <- MCSlowSteps
    MaxEvaluations = 2
    MaxMishaps = 1
INVARIANTS
    BudgetKept
    CallsAccounted
    OutcomesSeeTheSession
    FlattenOnTime
PROPERTIES
    LifecycleKept
CHECK_DEADLOCK FALSE
