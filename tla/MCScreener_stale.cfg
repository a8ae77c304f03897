\* Two requests of both tickers, a day apart.
SPECIFICATION MCSpec
CONSTANTS
    Parts = {"days"}
    Prices = {2, 3, 4}
    FullBudget = 3
    Cap = 6
    MinShares = 1
    Cut = 2
    RRTarget = 2
    MinRR = 2
    Fee = 10
    MaxFee = 1
    Lots = {1}
    MaxPositions = 2
    LowPrice = 3
    Tickers = {"a", "b"}
    Fetchers = {"p", "q"}
    LastDay = 3
    Holes = {{}, {2}}
    MaxRequests = 2
    Symbols = {"a", "b"}
    Runners = {"p", "q"}
    Benchmark = "c"
    Threshold = 2
    MinBatch = 2
    Dates = {1, 2}
    KeepDates = 1
    MaxCount = 2
    Ids = {"s1"}
    Threads = {"t"}
    Universes = {"index", "euronext"}
    Euronext = {"euronext"}
    Instruments = {"a"}
    Benchmarks = {"SPY", "QQQ"}
    MaxMishaps = 1
    Analysts = {"p", "q"}
    Views = {"p", "q"}
    MaxEntries = 2
    MaxEdits = 3
INVARIANTS
    StaleIsServed
\* A server nobody calls is not stuck: at the bounds no request is left.
CHECK_DEADLOCK FALSE
