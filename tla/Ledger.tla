------------------------------- MODULE Ledger -------------------------------
(***************************************************************************)
(* What the trading book promises: the records of orders.json and          *)
(* positions.json, and the edits that may happen to them, each in one      *)
(* step.  An order is placed, submitted, then filled or cancelled; a       *)
(* filled order opens one position; a position's stop only rises, its      *)
(* shares are sold in parts, and a closed position is history.             *)
(*                                                                         *)
(* Module Book is the program, which takes several file accesses for each  *)
(* of these edits and may die between two of them.                         *)
(*                                                                         *)
(* Prices are integers, in tenths of a cent, so that rounding to the cent  *)
(* does something.  0 stands for a price that is not there (null).         *)
(***************************************************************************)
EXTENDS Integers, Sequences, Functions

CONSTANTS
    Tickers,
    Prices,         \* the prices a request may carry, or the market may show
    Quantities,     \* the share counts a request may carry
    OrderKinds,     \* the values of order_kind; "entry" is the one with checks
    TrailMethods,   \* the values of trail_method
    MaxPositions    \* bound: position ids ever drawn

NoPrice == 0
NoOrder == 0

ASSUME PricesAssumption == Prices \subseteq Nat \ {0}
ASSUME QuantitiesAssumption == Quantities \subseteq Nat \ {0}
ASSUME KindsAssumption == "entry" \in OrderKinds /\ "sma20" \in TrailMethods
ASSUME NonEmptyAssumption == Tickers # {} /\ Quantities # {}
ASSUME MaxPositionsAssumption == MaxPositions \in Nat

VARIABLES
    orders,         \* orders.json: the list of orders
    positions       \* positions.json: the list of positions

disk == <<orders, positions>>

-----------------------------------------------------------------------------
(* Records *)

OrderStatus == {"pending", "submitted", "filled", "cancelled"}

\* An order id is ORD-<ticker>-<number>: the pair <<ticker, number>>.
Order == [ticker : Tickers, number : Nat \ {0}, status : OrderStatus,
          order_kind : OrderKinds, quantity : Quantities,
          stop_price : Prices \cup {NoPrice},
          entry_price : Prices \cup {NoPrice}]

PositionIds == 1..MaxPositions

PartialClose == [shares_closed : Quantities, price : Prices, risk : Int]

\* source_order_id is the number of the order (of the same ticker) whose fill
\* opened the position, NoOrder for a position registered by hand.
Position == [position_id : PositionIds, ticker : Tickers,
             status : {"open", "closed"}, entry_price : Prices,
             stop_price : Nat \ {0}, shares : Nat \ {0},
             initial_risk : Nat \ {0}, source_order_id : Nat,
             trail_method : TrailMethods, partial_closes : Seq(PartialClose),
             exit_price : Prices \cup {NoPrice}]

Active(o) == o.status \in {"pending", "submitted"}
SameOrder(a, b) == a.ticker = b.ticker /\ a.number = b.number
BoughtBy(pos, o) ==
    pos.ticker = o.ticker /\ pos.source_order_id = o.number

\* any(...) over a list of orders: an active entry order for the ticker.
ActiveEntry(os, t) ==
    \E i \in 1..Len(os) :
        os[i].ticker = t /\ Active(os[i]) /\ os[i].order_kind = "entry"

\* _round_price: to the cent, half up.
RoundPrice(x) == 10 * ((x + 5) \div 10)

\* The dictionary create_order appends.
NewOrder(t, n, kind, q, stop) ==
    [ticker |-> t, number |-> n, status |-> "pending", order_kind |-> kind,
     quantity |-> q, stop_price |-> stop, entry_price |-> NoPrice]

\* The updates fill_order applies to the record of the order.
FilledOrder(o, price, stop) ==
    [o EXCEPT !.status = "filled", !.entry_price = price, !.stop_price = stop]

\* The dictionary fill_order and create_position append.
NewPosition(id, t, entry, stop, n, source) ==
    [position_id |-> id, ticker |-> t, status |-> "open",
     entry_price |-> entry, stop_price |-> stop, shares |-> n,
     initial_risk |-> entry - stop, source_order_id |-> source,
     trail_method |-> "sma20", partial_closes |-> <<>>,
     exit_price |-> NoPrice]

\* The edits of one open position.  r_at_close is (price - entry) / risk, where
\* risk is entry minus the stop as it is at the partial close.
StopAt(pos, s) == [pos EXCEPT !.stop_price = s]
TrailedBy(pos, m) == [pos EXCEPT !.trail_method = m]
ClosedAt(pos, price) == [pos EXCEPT !.status = "closed", !.exit_price = price]
\* A faulty form: the event is recorded, the share count is not reduced.
PartClosedAt_KeepShares(pos, n, price) ==
    [pos EXCEPT
        !.partial_closes =
            Append(@, [shares_closed |-> n, price |-> price,
                       risk |-> pos.entry_price - pos.stop_price])]

PartClosedAt(pos, n, price) ==
    [pos EXCEPT
        !.partial_closes =
            Append(@, [shares_closed |-> n, price |-> price,
                       risk |-> pos.entry_price - pos.stop_price]),
        !.shares = @ - n]

-----------------------------------------------------------------------------
(* The edits, from one value of a list to the next *)

Placed(os, os2) ==
    \E t \in Tickers, q \in Quantities, stop \in Prices \cup {NoPrice},
       kind \in OrderKinds, n \in 1..(Len(os) + 1) :
        /\ \A i \in 1..Len(os) : os[i].ticker = t => os[i].number # n
        /\ kind = "entry" => ~ActiveEntry(os, t)
        /\ os2 = Append(os, NewOrder(t, n, kind, q, stop))

Submitted(os, os2) ==
    \E i \in 1..Len(os) :
        /\ os[i].status = "pending"
        /\ os2 = [os EXCEPT ![i] = [@ EXCEPT !.status = "submitted"]]

Cancelled(os, os2) ==
    \E i \in 1..Len(os) :
        /\ Active(os[i])
        /\ os2 = [os EXCEPT ![i] = [@ EXCEPT !.status = "cancelled"]]

Filled(os, os2) ==
    \E i \in 1..Len(os), price, stop \in Prices :
        /\ Active(os[i])
        /\ stop < price
        /\ os2 = [os EXCEPT ![i] = FilledOrder(@, price, stop)]

FreshId(ps, id) ==
    id \in PositionIds /\ \A j \in 1..Len(ps) : ps[j].position_id # id

Opened(os, ps, ps2) ==
    \E i \in 1..Len(os), id \in PositionIds :
        /\ os[i].status = "filled"
        /\ \A j \in 1..Len(ps) : ~BoughtBy(ps[j], os[i])
        /\ FreshId(ps, id)
        /\ ps2 = Append(ps, NewPosition(id, os[i].ticker, os[i].entry_price,
                             os[i].stop_price, os[i].quantity, os[i].number))

Registered(ps, ps2) ==
    \E id \in PositionIds, t \in Tickers, n \in Quantities,
       entry, stop \in Prices :
        /\ FreshId(ps, id)
        /\ stop < entry
        /\ ps2 = Append(ps, NewPosition(id, t, entry, stop, n, NoOrder))

\* One open position changes: its stop rises, its trail method is set, part of
\* it is sold, or it is closed.
ManagedTo(pos, pos2) ==
    /\ pos.status = "open"
    /\ \/ \E s \in Prices : /\ RoundPrice(s) > pos.stop_price
                            /\ pos2 = StopAt(pos, RoundPrice(s))
       \/ \E m \in TrailMethods : pos2 = TrailedBy(pos, m)
       \/ \E n \in Quantities, price \in Prices :
              n < pos.shares /\ pos2 = PartClosedAt(pos, n, price)
       \/ \E price \in Prices : pos2 = ClosedAt(pos, price)

Managed(ps, ps2) ==
    \E i \in 1..Len(ps) :
        /\ ManagedTo(ps[i], ps2[i])
        /\ ps2 = [ps EXCEPT ![i] = ps2[i]]

OrdersEdited(os, os2) ==
    Placed(os, os2) \/ Submitted(os, os2) \/ Cancelled(os, os2) \/ Filled(os, os2)

PositionsEdited(os, ps, ps2) ==
    Opened(os, ps, ps2) \/ Registered(ps, ps2) \/ Managed(ps, ps2)

LedgerInit == orders = <<>> /\ positions = <<>>

LedgerNext ==
    \/ OrdersEdited(orders, orders') /\ UNCHANGED positions
    \/ PositionsEdited(orders, positions, positions') /\ UNCHANGED orders

LedgerSpec == LedgerInit /\ [][LedgerNext]_disk

-----------------------------------------------------------------------------
(* Properties of the two files *)

LedgerTypeOK == orders \in Seq(Order) /\ positions \in Seq(Position)

\* No two records share an id, so "the first record with this id" (what every
\* handler edits) is the only one, and no two positions can be confused.
UniqueIds ==
    /\ \A i, j \in 1..Len(orders) : SameOrder(orders[i], orders[j]) => i = j
    /\ \A i, j \in 1..Len(positions) :
           positions[i].position_id = positions[j].position_id => i = j

\* At most one entry order per ticker is waiting to be filled: the 409 of
\* create_order cannot be got round by any sequence of requests and crashes.
OneActiveEntry ==
    \A i, j \in 1..Len(orders) :
        /\ Active(orders[i]) /\ orders[i].order_kind = "entry"
        /\ Active(orders[j]) /\ orders[j].order_kind = "entry"
        /\ orders[i].ticker = orders[j].ticker
        => i = j

\* An order is bought once: however often a fill is retried, and wherever the
\* earlier attempt died, no two positions come from the same order.
NoDoubleFill ==
    \A i, j \in 1..Len(positions) :
        /\ positions[i].source_order_id # NoOrder
        /\ positions[i].source_order_id = positions[j].source_order_id
        /\ positions[i].ticker = positions[j].ticker
        => i = j

\* A position that names an order was really bought by it: that order is on
\* file, filled, at the position's entry price, and no later edit undoes it.
FillIsRecorded ==
    \A i \in 1..Len(positions) :
        positions[i].source_order_id # NoOrder =>
            \E j \in 1..Len(orders) :
                /\ BoughtBy(positions[i], orders[j])
                /\ orders[j].status = "filled"
                /\ orders[j].entry_price = positions[i].entry_price

ClosedShares(pos) ==
    SumFunction([k \in DOMAIN pos.partial_closes |-> pos.partial_closes[k].shares_closed])

\* Shares are neither made nor lost: what a filled order bought is what the
\* position still holds plus what its partial closes sold.
SharesConserved ==
    \A i \in 1..Len(positions), j \in 1..Len(orders) :
        BoughtBy(positions[i], orders[j]) =>
            positions[i].shares + ClosedShares(positions[i]) = orders[j].quantity

\* Filled and cancelled orders are final, a submitted order is not taken back,
\* and no order is ever lost.
OrdersAdvanceStep ==
    \A i \in 1..Len(orders) :
        /\ i \in 1..Len(orders')
        /\ SameOrder(orders'[i], orders[i])
        /\ ~Active(orders[i]) => orders'[i] = orders[i]
        /\ orders[i].status = "submitted" => orders'[i].status # "pending"

OrdersAdvance == [][OrdersAdvanceStep]_disk

\* No handler lowers the stop of a position, reopens or edits a closed one, or
\* loses a position that was recorded.
StopsRatchetStep ==
    \A i \in 1..Len(positions) :
        /\ i \in 1..Len(positions')
        /\ positions'[i].position_id = positions[i].position_id
        /\ positions'[i].stop_price >= positions[i].stop_price
        /\ positions[i].status = "closed" => positions'[i] = positions[i]

StopsRatchet == [][StopsRatchetStep]_disk

=============================================================================
