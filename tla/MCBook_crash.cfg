\* One process that may die between the two writes of a fill.
SPECIFICATION MCSpec
CONSTANTS
    Processes = {p1}
    Tickers = {T1}
    Prices = {103, 120}
    Quantities = {1}
    OrderKinds = {"entry"}
    TrailMethods = {"sma20"}
    MaxOrders = 1
    MaxPositions = 1
    LowPrice = 120
    LocalPrices = {103}
    LocalQuantities = {1}
    MaxLocalOrders = 0
    MaxLocalPositions = 0
INVARIANT FillCreatesPosition
CHECK_DEADLOCK FALSE
