----------------------------- MODULE LocalBook ------------------------------
(***************************************************************************)
(* The browser's own book (web-ui/src/features/persistence/                *)
(* portfolioService.ts over storage.ts), used instead of the server's when *)
(* the web UI keeps its data in localStorage.                              *)
(*                                                                         *)
(* It is a second implementation, and not the same: a fill of a ticker     *)
(* that is held merges into the position, and a position has a stop order  *)
(* of its own, which fills and stop updates keep up to date.  An operation *)
(* reads the store, changes a copy and writes it back in one go; one that  *)
(* throws writes nothing.  Several tabs may have the store open.           *)
(*                                                                         *)
(* An order or position is named by its place in the list; ids are drawn   *)
(* so that they do not collide.  Prices are as in Ledger.  The average     *)
(* entry price is the cost over the shares.  No position is given a        *)
(* current price here, so no stop is held against one.                     *)
(***************************************************************************)
EXTENDS Integers, Sequences, FiniteSetsExt

CONSTANTS
    Tickers,
    Prices,         \* the prices a request may carry
    Quantities,     \* the share counts a request may carry
    MaxOrders,      \* bound: orders ever made
    MaxPositions    \* bound: positions ever opened

VARIABLES
    orders,         \* store.orders
    positions       \* store.positions

vars == <<orders, positions>>

-----------------------------------------------------------------------------
NoPosition == 0
NoPrice == 0

Order == [ticker : Tickers, kind : {"entry", "stop"},
          status : {"pending", "filled", "cancelled"}, quantity : Nat \ {0},
          stop : Nat \ {0}, price : Prices \cup {NoPrice},
          position : 0..MaxPositions]

Position == [ticker : Tickers, status : {"open", "closed"},
             cost : Nat, shares : Nat \ {0}, stop : Nat \ {0}]

\* roundToCents
RoundPrice(x) == 10 * ((x + 5) \div 10)

\* The position a fill, or a new entry, finds of the ticker.
OpenOf(t) == {p \in 1..Len(positions) :
                 positions[p].ticker = t /\ positions[p].status = "open"}

Room(n) == Len(orders) + n <= MaxOrders

StopOrder(p, t, q, stop) ==
    [ticker |-> t, kind |-> "stop", status |-> "pending", quantity |-> q,
     stop |-> stop, price |-> NoPrice, position |-> p]

Linked(o, p) == o.position = p /\ o.kind = "stop"

Bought(o, price, stop, p) ==
    [o EXCEPT !.status = "filled", !.price = price, !.stop = stop, !.position = p]

Init == orders = <<>> /\ positions = <<>>

-----------------------------------------------------------------------------
\* createOrderLocal, as the order dialog calls it: an entry, with a stop.
CreateOrder(t) ==
    /\ Room(1)
    /\ \A i \in 1..Len(orders) :
           ~(orders[i].ticker = t /\ orders[i].status = "pending"
                                  /\ orders[i].kind = "entry")
    /\ \E mode \in {"NEW_ENTRY", "ADD_ON"}, q \in Quantities, stop \in Prices :
        /\ mode = "ADD_ON" <=> OpenOf(t) # {}
        /\ orders' = Append(orders,
               [ticker |-> t, kind |-> "entry", status |-> "pending",
                quantity |-> q, stop |-> stop, price |-> NoPrice,
                position |-> IF mode = "ADD_ON" THEN Min(OpenOf(t)) ELSE NoPosition])
    /\ UNCHANGED positions

\* A faulty form: a stop order is made, and one there is is left as it is.
Relinked_Once(i, p, price, total, stop) ==
    LET filled == [orders EXCEPT ![i] = Bought(@, price, stop, p)]
    IN  IF \E j \in 1..Len(orders) : Linked(orders[j], p) THEN filled
        ELSE Append(filled, StopOrder(p, orders[i].ticker, total, stop))

\* The orders after order i is filled into position p: every stop order of the
\* position is set to its shares, whatever its status; if there was none, one is made.
Relinked(i, p, price, total, stop) ==
    LET filled == [j \in 1..Len(orders) |->
            IF j = i THEN Bought(orders[j], price, stop, p)
            ELSE IF Linked(orders[j], p)
                 THEN [orders[j] EXCEPT !.quantity = total, !.stop = stop]
            ELSE orders[j]]
    IN  IF \E j \in 1..Len(orders) : Linked(orders[j], p) THEN filled
        ELSE Append(filled, StopOrder(p, orders[i].ticker, total, stop))

Merged(pos, q, price) == [pos EXCEPT !.shares = @ + q, !.cost = @ + price * q]

\* fillOrderLocal, of an entry whose ticker is held: the first open position keeps its
\* stop, and its average entry must stay above that.
MergeFill(i) ==
    /\ orders[i].status = "pending"
    /\ orders[i].kind = "entry"
    /\ OpenOf(orders[i].ticker) # {}
    /\ Room(1)
    /\ \E price \in Prices :
        LET p == Min(OpenOf(orders[i].ticker))
            merged == Merged(positions[p], orders[i].quantity, price)
        IN  /\ merged.cost > merged.stop * merged.shares
            /\ positions' = [positions EXCEPT ![p] = merged]
            /\ orders' = Relinked(i, p, price, merged.shares, merged.stop)

\* fillOrderLocal, of an entry whose ticker is not held: at the stop asked for, or the
\* order's; a position and its stop order.
OpenFill(i) ==
    /\ orders[i].status = "pending"
    /\ orders[i].kind = "entry"
    /\ OpenOf(orders[i].ticker) = {}
    /\ Room(1) /\ Len(positions) < MaxPositions
    /\ \E price \in Prices, stop \in Prices \cup {orders[i].stop} :
        LET p == Len(positions) + 1
            t == orders[i].ticker
            q == orders[i].quantity
        IN  /\ stop < price
            /\ positions' = Append(positions, [ticker |-> t, status |-> "open",
                                   cost |-> price * q, shares |-> q, stop |-> stop])
            /\ orders' = Append([orders EXCEPT ![i] = Bought(@, price, stop, p)],
                                StopOrder(p, t, q, stop))

\* fillOrderLocal, of any other order: the position stays as it is.
FillStop(i) ==
    /\ orders[i].status = "pending"
    /\ orders[i].kind = "stop"
    /\ \E price \in Prices :
        orders' = [orders EXCEPT ![i].status = "filled", ![i].price = price]
    /\ UNCHANGED positions

\* cancelOrderLocal
CancelOrder(i) ==
    /\ orders[i].status = "pending"
    /\ orders' = [orders EXCEPT ![i].status = "cancelled"]
    /\ UNCHANGED positions

\* updatePositionStopLocal: the pending stop orders of the position are cancelled and
\* one at the new stop is made.
UpdateStop(p) ==
    /\ positions[p].status = "open"
    /\ Room(1)
    /\ \E s \in Prices :
        LET stop == RoundPrice(s)
            cancelled == [j \in 1..Len(orders) |->
                IF Linked(orders[j], p) /\ orders[j].status = "pending"
                THEN [orders[j] EXCEPT !.status = "cancelled"] ELSE orders[j]]
        IN  /\ stop > RoundPrice(positions[p].stop)
            /\ positions' = [positions EXCEPT ![p].stop = stop]
            /\ orders' = Append(cancelled, StopOrder(p, positions[p].ticker,
                                                     positions[p].shares, stop))

\* closePositionLocal: its stop order stays.
ClosePosition(p) ==
    /\ positions[p].status = "open"
    /\ positions' = [positions EXCEPT ![p].status = "closed"]
    /\ UNCHANGED orders

Next ==
    \/ \E t \in Tickers : CreateOrder(t)
    \/ \E i \in 1..Len(orders) :
           MergeFill(i) \/ OpenFill(i) \/ FillStop(i) \/ CancelOrder(i)
    \/ \E p \in 1..Len(positions) : UpdateStop(p) \/ ClosePosition(p)

Spec == Init /\ [][Next]_vars

-----------------------------------------------------------------------------
(* Properties *)

EntriesOf(p) == {i \in 1..Len(orders) : /\ orders[i].position = p
                                        /\ orders[i].kind = "entry"
                                        /\ orders[i].status = "filled"}

\* However a position was added to, its shares and its cost are those of the filled
\* orders that name it: no fill is counted twice, lost, or booked on another position.
BoughtIsHeld ==
    \A p \in 1..Len(positions) :
        /\ positions[p].shares =
               SumFunction([i \in EntriesOf(p) |-> orders[i].quantity])
        /\ positions[p].cost =
               SumFunction([i \in EntriesOf(p) |-> orders[i].quantity * orders[i].price])

\* A waiting stop order of an open position sells all of it and no more, at the
\* position's stop: after any fills, merges, cancellations and stop updates there is
\* at most one, and it is up to date.
StopsCover ==
    \A i, j \in 1..Len(orders) :
        LET Waits(k) == /\ orders[k].kind = "stop" /\ orders[k].status = "pending"
                        /\ positions[orders[k].position].status = "open"
        IN  /\ Waits(i) => /\ orders[i].quantity = positions[orders[i].position].shares
                           /\ orders[i].stop = positions[orders[i].position].stop
            /\ Waits(i) /\ Waits(j) /\ orders[i].position = orders[j].position => i = j

=============================================================================
