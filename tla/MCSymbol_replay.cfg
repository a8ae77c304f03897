\* One position of a ticker, live or simulated, over a few days of prices that
\* rise by whole risks, fall back, or are missing.
SPECIFICATION MCSpec
CONSTANTS
    Parts = {"backtest"}
    Prices = {804, 1000}
    Closes = {805, 1405, 1600}
    Ranges = {0, 250}
    Methods = {"sma20", "atr", "fixed_pct", "manual"}
    BreakevenAtR = 1
    TrailAfterR = 2
    TrailSma = 2
    SmaBuffer = 5
    AtrMultiple = 2
    TrailPct = 5
    MaxHoldingDays = 3
    ExitSignalDays = 2
    MaxBars = 3
    HistoryBars = 6
    StaleAfter = 120
    TechnicalWeight = 45
    FundamentalsWeight = 25
    CatalystWeight = 20
    ValuationWeight = 10
    Candidates <- SomeCandidates
    Reports <- SomeReports
    SharePrice = 200
    Setups <- SomeSetups
    Sheets <- SomeSheets
    First = 2
    Last = 6
    MaxRevisions = 1
    Issuers <- SomeIssuers
PROPERTY ReplayIsLive
CHECK_DEADLOCK FALSE
