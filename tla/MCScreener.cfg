\* What a screener run meets on its way, each part alone.  Three prices make trades of
\* every kind, two a review.  Two requests of a ticker race for its file, and two
\* requests follow each other over three days; two runs overlap over two dates of which
\* one is kept; a thread asks for the active strategy while two strategies are edited
\* three times; a thread refreshes two universes, while handlers change one, with one
\* mishap; two requests analyse a ticker over two days, or two tickers in one day, with
\* one mishap.
SPECIFICATION MCSpec
CONSTANTS
    Parts = {"reentry", "review", "race", "days", "run", "runs", "strategies", "universe", "ticker", "day"}
    Prices = {2, 3, 4}
    FullBudget = 3
    Cap = 6
    MinShares = 1
    Cut = 2
    RRTarget = 2
    MinRR = 2
    Fee = 10
    MaxFee = 1
    Lots = {1}
    MaxPositions = 2
    LowPrice = 3
    Tickers = {"a", "b"}
    Fetchers = {"p", "q"}
    LastDay = 3
    Holes = {{}, {2}}
    MaxRequests = 2
    Symbols = {"a", "b"}
    Runners = {"p", "q"}
    Benchmark = "c"
    Threshold = 2
    MinBatch = 2
    Dates = {1, 2}
    KeepDates = 1
    MaxCount = 2
    Ids = {"s1"}
    Threads = {"t"}
    Universes = {"index", "euronext"}
    Euronext = {"euronext"}
    Instruments = {"a"}
    Benchmarks = {"SPY", "QQQ"}
    MaxMishaps = 1
    Analysts = {"p", "q"}
    Views = {"p", "q"}
    MaxEntries = 2
    MaxEdits = 3
INVARIANTS
    RecommendedFits
    AddOnFits
    ReviewAgrees
    IndexIsTrue
    HistoryIsKept
    EditsAreKept
    RegistryKept
    AnalysesKept
PROPERTIES
    ModeTrue
\* A server nobody calls is not stuck: at the bounds no request is left.
CHECK_DEADLOCK FALSE
