SPECIFICATION Spec
CONSTANTS
    r1 = r1
    r2 = r2
    Runs = {r1, r2}
    ReplayDays = 2
    TicksPerDay = 2
    PriorTail = 1
    Decisions = {"Buy", "Sell"}
    Absent = Absent
    Rows = {1, 2, 3, 4, 5, 6}
    PageSize = 2
    MaxPages = 2
    MaxRetries = 2
    Idle = Idle
    Lookback = 2
    QueueCap = 2
    BatchSize = 2
    MaxHeadlines = 5
    MaxFeeds = 2
    SlotsPerDay = 2
    Tickers = {"a", "b"}
    Ttl = 1
    MaxLoads = 3
    DayLen = 8
    Open = 2
    Close = 6
    BarLen = 2
    LastDay = 2
    NewsLookback = 8
    NewsLag = 1
    NewsMax = 1
    SentimentAge = 2
    RvolBars = 2
    PmDays = 1
    NoTick = NoTick
    MaxFaults = 1
SYMMETRY Symmetry
INVARIANTS
    RerunsAgree
    DownloadsAreWhole
    HistoriesAreKept
    ContextsArePast
CHECK_DEADLOCK FALSE
