\* One process, as deployed.  Two orders of one ticker and two positions at low
\* prices: the second order can follow, duplicate or add to the first.  Or one order
\* and one position, prices that differ inside a cent, enough shares to be sold in
\* parts.  Or the browser's book.
SPECIFICATION MCSpec
CONSTANTS
    Processes = {p1}
    Tickers = {T1}
    Prices = {103, 104, 120}
    Quantities = {1, 2}
    OrderKinds = {"entry", "stop"}
    TrailMethods = {"sma20", "manual"}
    MaxOrders = 2
    MaxPositions = 2
    LowPrice = 104
    LocalPrices = {103, 106}
    LocalQuantities = {1, 2}
    MaxLocalOrders = 5
    MaxLocalPositions = 2
INVARIANTS
    UniqueIds
    NoDoubleFill
    FillIsRecorded
    SharesConserved
    LocalBookAgrees
PROPERTIES
    LedgerSpec
    StopsRatchet
\* A server nobody calls is not stuck: at the bounds no request is left.
CHECK_DEADLOCK FALSE
