----------------------------- MODULE BookProofs -----------------------------
(***************************************************************************)
(* Proofs about the trading book, for every value of the constants: first  *)
(* that the ledger's edits keep its invariants, then that the handlers     *)
(* make nothing but these edits.                                           *)
(***************************************************************************)
EXTENDS MCBook, Sums, FiniteSetTheorems, TLAPS

USE DEF NoPrice, NoOrder

-----------------------------------------------------------------------------
(* Rounding *)

\* Rounding moves a price by at most half a cent.
LEMMA RoundPriceBounds ==
    ASSUME NEW x \in Nat
    PROVE  /\ RoundPrice(x) \in Nat
           /\ x - 4 <= RoundPrice(x)
           /\ RoundPrice(x) <= x + 5
  BY DEF RoundPrice

\* What update_position_stop relies on: a request that rounds above the rounded
\* stop is above the stop itself, although the stop on file may not be rounded.
LEMMA RoundedRaise ==
    ASSUME NEW x \in Nat, NEW y \in Nat, RoundPrice(x) > RoundPrice(y)
    PROVE  RoundPrice(x) > y
  BY DEF RoundPrice

-----------------------------------------------------------------------------
(* Records *)

LEMMA NewOrderType ==
    ASSUME NEW t \in Tickers, NEW n \in Nat \ {0}, NEW kind \in OrderKinds,
           NEW q \in Quantities, NEW stop \in Prices \cup {NoPrice}
    PROVE  NewOrder(t, n, kind, q, stop) \in Order
  BY DEF NewOrder, Order, OrderStatus

LEMMA FilledOrderType ==
    ASSUME NEW o \in Order, NEW price \in Prices \cup {NoPrice},
           NEW stop \in Prices \cup {NoPrice}
    PROVE  FilledOrder(o, price, stop) \in Order
  BY DEF FilledOrder, Order, OrderStatus

LEMMA NewPositionType ==
    ASSUME NEW id \in PositionIds, NEW t \in Tickers, NEW entry \in Prices,
           NEW stop \in Prices, stop < entry, NEW n \in Quantities,
           NEW source \in Nat
    PROVE  NewPosition(id, t, entry, stop, n, source) \in Position
  <1>1. entry \in Nat /\ stop \in Nat /\ n \in Nat \ {0}
    BY PricesAssumption, QuantitiesAssumption
  <1>2. entry - stop \in Nat \ {0}
    BY <1>1
  <1>3. <<>> \in Seq(PartialClose)
    OBVIOUS
  <1> QED
    BY <1>1, <1>2, <1>3, PricesAssumption, KindsAssumption
    DEF NewPosition, Position

\* Every edit of an open position yields a position.
LEMMA EditTypes ==
    ASSUME NEW pos \in Position
    PROVE  /\ \A s \in Nat \ {0} : StopAt(pos, s) \in Position
           /\ \A m \in TrailMethods : TrailedBy(pos, m) \in Position
           /\ \A price \in Prices : ClosedAt(pos, price) \in Position
           /\ \A n \in Quantities, price \in Prices :
                  n < pos.shares => PartClosedAt(pos, n, price) \in Position
  <1>1. ASSUME NEW n \in Quantities, NEW price \in Prices, n < pos.shares
        PROVE  PartClosedAt(pos, n, price) \in Position
    <2> DEFINE e == [shares_closed |-> n, price |-> price,
                     risk |-> pos.entry_price - pos.stop_price]
    <2>0. pos.entry_price \in Prices /\ pos.stop_price \in Nat
      BY DEF Position
    <2>5. pos.entry_price \in Nat
      BY <2>0, PricesAssumption
    <2>1. pos.entry_price - pos.stop_price \in Int
      BY <2>0, <2>5
    <2>4. e \in PartialClose
      BY <2>1 DEF PartialClose
    <2>2. Append(pos.partial_closes, e) \in Seq(PartialClose)
      BY <2>4 DEF Position
    <2>3. pos.shares - n \in Nat \ {0}
      BY <1>1, QuantitiesAssumption DEF Position
    <2> QED
      BY <2>2, <2>3 DEF PartClosedAt, Position
  <1> QED
    BY <1>1 DEF StopAt, TrailedBy, ClosedAt, Position

-----------------------------------------------------------------------------
(* What an edit does to a list, whichever edit it is *)

\* One order is appended, fresh and pending; or one active order changes and
\* keeps its identity.
OrderAppended(os, os2) ==
    \E o \in Order :
        /\ os2 = Append(os, o)
        /\ o.status = "pending"
        /\ \A i \in 1..Len(os) : ~SameOrder(os[i], o)
        /\ o.order_kind = "entry" => ~ActiveEntry(os, o.ticker)

OrderChanged(os, os2) ==
    \E i \in 1..Len(os), o \in Order :
        /\ os2 = [os EXCEPT ![i] = o]
        /\ Active(os[i])
        /\ SameOrder(o, os[i])
        /\ o.order_kind = os[i].order_kind
        /\ o.status # "pending"
        /\ o.status = "filled" => /\ o.entry_price \in Prices
                                  /\ o.stop_price \in Prices
                                  /\ o.stop_price < o.entry_price

LEMMA OrdersEditedForm ==
    ASSUME NEW os \in Seq(Order), NEW os2, OrdersEdited(os, os2)
    PROVE  OrderAppended(os, os2) \/ OrderChanged(os, os2)
  <1>0. Len(os) \in Nat /\ \A i \in 1..Len(os) : os[i] \in Order
    OBVIOUS
  <1>1. CASE Placed(os, os2)
    <2> PICK t \in Tickers, q \in Quantities, stop \in Prices \cup {NoPrice},
             kind \in OrderKinds, n \in 1..(Len(os) + 1) :
          /\ \A i \in 1..Len(os) : os[i].ticker = t => os[i].number # n
          /\ kind = "entry" => ~ActiveEntry(os, t)
          /\ os2 = Append(os, NewOrder(t, n, kind, q, stop))
      BY <1>1, Zenon DEF Placed
    <2> DEFINE o == NewOrder(t, n, kind, q, stop)
    <2>0. n \in Nat \ {0}
      BY <1>0
    <2>1. o \in Order
      BY <2>0, NewOrderType
    <2>2. /\ o.ticker = t /\ o.number = n /\ o.status = "pending"
          /\ o.order_kind = kind
      BY DEF NewOrder
    <2>3. os2 = Append(os, o)
      OBVIOUS
    <2> HIDE DEF o
    <2> QED
      BY <2>1, <2>2, <2>3 DEF OrderAppended, SameOrder
  <1>2. CASE Submitted(os, os2)
    <2> PICK i \in 1..Len(os) :
          /\ os[i].status = "pending"
          /\ os2 = [os EXCEPT ![i] = [@ EXCEPT !.status = "submitted"]]
      BY <1>2 DEF Submitted
    <2> DEFINE o == [os[i] EXCEPT !.status = "submitted"]
    <2>1. /\ o \in Order /\ SameOrder(o, os[i])
          /\ o.order_kind = os[i].order_kind /\ o.status = "submitted"
      BY <1>0 DEF Order, OrderStatus, SameOrder
    <2>2. os2 = [os EXCEPT ![i] = o]
      OBVIOUS
    <2> HIDE DEF o
    <2> QED
      BY <2>1, <2>2 DEF OrderChanged, Active
  <1>3. CASE Cancelled(os, os2)
    <2> PICK i \in 1..Len(os) :
          /\ Active(os[i])
          /\ os2 = [os EXCEPT ![i] = [@ EXCEPT !.status = "cancelled"]]
      BY <1>3 DEF Cancelled
    <2> DEFINE o == [os[i] EXCEPT !.status = "cancelled"]
    <2>1. /\ o \in Order /\ SameOrder(o, os[i])
          /\ o.order_kind = os[i].order_kind /\ o.status = "cancelled"
      BY <1>0 DEF Order, OrderStatus, SameOrder
    <2>2. os2 = [os EXCEPT ![i] = o]
      OBVIOUS
    <2> HIDE DEF o
    <2> QED
      BY <2>1, <2>2 DEF OrderChanged
  <1>4. CASE Filled(os, os2)
    <2> PICK i \in 1..Len(os), price \in Prices, stop \in Prices :
          /\ Active(os[i])
          /\ stop < price
          /\ os2 = [os EXCEPT ![i] = FilledOrder(@, price, stop)]
      BY <1>4 DEF Filled
    <2> DEFINE o == FilledOrder(os[i], price, stop)
    <2>1. o \in Order
      BY <1>0, FilledOrderType
    <2>2. /\ SameOrder(o, os[i])
          /\ o.order_kind = os[i].order_kind /\ o.status = "filled"
          /\ o.entry_price = price /\ o.stop_price = stop
      BY <1>0 DEF Order, FilledOrder, SameOrder
    <2>3. os2 = [os EXCEPT ![i] = o]
      OBVIOUS
    <2> HIDE DEF o
    <2> QED
      BY <2>1, <2>2, <2>3 DEF OrderChanged
  <1> QED
    BY <1>1, <1>2, <1>3, <1>4 DEF OrdersEdited

\* One position is appended under a fresh id, by hand or for a filled order that
\* has none; or one open position changes, keeps what it is, and its stop does
\* not fall.
PositionAppended(os, ps, ps2) ==
    \E pos \in Position :
        /\ ps2 = Append(ps, pos)
        /\ FreshId(ps, pos.position_id)
        /\ \/ pos.source_order_id = NoOrder
           \/ \E i \in 1..Len(os) :
                 /\ os[i].status = "filled"
                 /\ BoughtBy(pos, os[i])
                 /\ pos.entry_price = os[i].entry_price
                 /\ \A j \in 1..Len(ps) : ~BoughtBy(ps[j], os[i])

PositionChanged(ps, ps2) ==
    \E i \in 1..Len(ps), pos \in Position :
        /\ ps2 = [ps EXCEPT ![i] = pos]
        /\ ps[i].status = "open"
        /\ pos.position_id = ps[i].position_id
        /\ pos.ticker = ps[i].ticker
        /\ pos.source_order_id = ps[i].source_order_id
        /\ pos.entry_price = ps[i].entry_price
        /\ pos.stop_price >= ps[i].stop_price

\* A filled order's prices are a fill's: what Opened copies into a position.
FilledHasPrices(os) ==
    \A i \in 1..Len(os) :
        os[i].status = "filled" =>
            /\ os[i].entry_price \in Prices
            /\ os[i].stop_price \in Prices
            /\ os[i].stop_price < os[i].entry_price

LEMMA ManagedForm ==
    ASSUME NEW pos \in Position, NEW pos2, ManagedTo(pos, pos2)
    PROVE  /\ pos2 \in Position
           /\ pos2.position_id = pos.position_id
           /\ pos2.ticker = pos.ticker
           /\ pos2.source_order_id = pos.source_order_id
           /\ pos2.entry_price = pos.entry_price
           /\ pos2.stop_price >= pos.stop_price
  <1>0. pos.stop_price \in Nat \ {0}
    BY DEF Position
  <1>1. ASSUME NEW s \in Prices, RoundPrice(s) > pos.stop_price,
               pos2 = StopAt(pos, RoundPrice(s))
        PROVE  pos2 \in Position /\ pos2.stop_price >= pos.stop_price
    <2>1. s \in Nat
      BY PricesAssumption
    <2>2. RoundPrice(s) \in Nat
      BY <2>1, RoundPriceBounds
    <2>3. RoundPrice(s) \in Nat \ {0}
      BY <1>0, <1>1, <2>2
    <2>4. pos2.stop_price = RoundPrice(s)
      BY <1>1 DEF StopAt, Position
    <2> QED
      BY <1>0, <1>1, <2>3, <2>4, EditTypes
  <1>2. pos2 \in Position
    BY <1>1, EditTypes, Zenon DEF ManagedTo
  <1>3. /\ pos2.position_id = pos.position_id
        /\ pos2.ticker = pos.ticker
        /\ pos2.source_order_id = pos.source_order_id
        /\ pos2.entry_price = pos.entry_price
    BY DEF ManagedTo, StopAt, TrailedBy, ClosedAt, PartClosedAt, Position
  <1>4. CASE \E s \in Prices : /\ RoundPrice(s) > pos.stop_price
                               /\ pos2 = StopAt(pos, RoundPrice(s))
    BY <1>1, <1>2, <1>3, <1>4
  <1>5. CASE pos2.stop_price = pos.stop_price
    BY <1>0, <1>2, <1>3, <1>5
  <1>6. \/ \E s \in Prices : /\ RoundPrice(s) > pos.stop_price
                             /\ pos2 = StopAt(pos, RoundPrice(s))
        \/ pos2.stop_price = pos.stop_price
    BY DEF ManagedTo, TrailedBy, ClosedAt, PartClosedAt, Position
  <1> QED
    BY <1>4, <1>5, <1>6

LEMMA PositionsEditedForm ==
    ASSUME NEW os \in Seq(Order), NEW ps \in Seq(Position), NEW ps2,
           FilledHasPrices(os), PositionsEdited(os, ps, ps2)
    PROVE  PositionAppended(os, ps, ps2) \/ PositionChanged(ps, ps2)
  <1>0. /\ Len(os) \in Nat /\ \A i \in 1..Len(os) : os[i] \in Order
        /\ Len(ps) \in Nat /\ \A i \in 1..Len(ps) : ps[i] \in Position
    OBVIOUS
  <1>1. CASE Opened(os, ps, ps2)
    <2> PICK i \in 1..Len(os), id \in PositionIds :
          /\ os[i].status = "filled"
          /\ \A j \in 1..Len(ps) : ~BoughtBy(ps[j], os[i])
          /\ FreshId(ps, id)
          /\ ps2 = Append(ps, NewPosition(id, os[i].ticker, os[i].entry_price,
                               os[i].stop_price, os[i].quantity, os[i].number))
      BY <1>1 DEF Opened
    <2> DEFINE pos == NewPosition(id, os[i].ticker, os[i].entry_price,
                           os[i].stop_price, os[i].quantity, os[i].number)
    <2>1. pos \in Position
      BY <1>0, NewPositionType DEF FilledHasPrices, Order
    <2>2. /\ pos.position_id = id /\ BoughtBy(pos, os[i])
          /\ pos.entry_price = os[i].entry_price
      BY DEF NewPosition, BoughtBy
    <2>3. ps2 = Append(ps, pos)
      OBVIOUS
    <2> HIDE DEF pos
    <2> QED
      BY <2>1, <2>2, <2>3 DEF PositionAppended
  <1>2. CASE Registered(ps, ps2)
    <2> PICK id \in PositionIds, t \in Tickers, n \in Quantities,
             entry \in Prices, stop \in Prices :
          /\ FreshId(ps, id)
          /\ stop < entry
          /\ ps2 = Append(ps, NewPosition(id, t, entry, stop, n, NoOrder))
      BY <1>2, Zenon DEF Registered
    <2> DEFINE pos == NewPosition(id, t, entry, stop, n, NoOrder)
    <2>1. pos \in Position
      BY NewPositionType
    <2>2. pos.position_id = id /\ pos.source_order_id = NoOrder
      BY DEF NewPosition
    <2>3. ps2 = Append(ps, pos)
      OBVIOUS
    <2> HIDE DEF pos
    <2> QED
      BY <2>1, <2>2, <2>3 DEF PositionAppended
  <1>3. CASE Managed(ps, ps2)
    <2> PICK i \in 1..Len(ps) : /\ ManagedTo(ps[i], ps2[i])
                                /\ ps2 = [ps EXCEPT ![i] = ps2[i]]
      BY <1>3 DEF Managed
    <2>1. ps[i].status = "open"
      BY DEF ManagedTo
    <2> QED
      BY <1>0, <2>1, ManagedForm DEF PositionChanged
  <1> QED
    BY <1>1, <1>2, <1>3 DEF PositionsEdited

-----------------------------------------------------------------------------
(* The invariant of the ledger *)

\* Inductive: FilledHasPrices is what lets an opened position be well formed,
\* UniqueIds what tells one order from another.
LedgerInv ==
    /\ LedgerTypeOK
    /\ FilledHasPrices(orders)
    /\ UniqueIds
    /\ OneActiveEntry
    /\ NoDoubleFill
    /\ FillIsRecorded

\* An edit of orders.json keeps the invariant and only moves orders forward.
LEMMA OrdersEditStep ==
    ASSUME LedgerInv, OrdersEdited(orders, orders'), UNCHANGED positions
    PROVE  LedgerInv' /\ OrdersAdvanceStep
  <1>0. /\ orders \in Seq(Order) /\ Len(orders) \in Nat
        /\ \A k \in 1..Len(orders) : orders[k] \in Order
    BY DEF LedgerInv, LedgerTypeOK
  <1>1. CASE OrderAppended(orders, orders')
    <2> PICK o \in Order :
          /\ orders' = Append(orders, o)
          /\ o.status = "pending"
          /\ \A k \in 1..Len(orders) : ~SameOrder(orders[k], o)
          /\ o.order_kind = "entry" => ~ActiveEntry(orders, o.ticker)
      BY <1>1 DEF OrderAppended
    <2>1. /\ orders' \in Seq(Order)
          /\ Len(orders') = Len(orders) + 1
          /\ \A k \in 1..Len(orders) : orders'[k] = orders[k]
          /\ orders'[Len(orders) + 1] = o
      BY <1>0
    <2>2. \A k \in 1..Len(orders') :
            \/ k \in 1..Len(orders) /\ orders'[k] = orders[k]
            \/ k = Len(orders) + 1 /\ orders'[k] = o
      BY <1>0, <2>1
    <2>3. FilledHasPrices(orders')
      BY <2>2 DEF LedgerInv, FilledHasPrices
    <2>4. UniqueIds'
      BY <2>2 DEF LedgerInv, UniqueIds, SameOrder
    <2>5. OneActiveEntry'
      BY <2>2 DEF LedgerInv, OneActiveEntry, ActiveEntry, Active
    <2>6. \A k \in 1..Len(orders) : k \in 1..Len(orders') /\ orders'[k] = orders[k]
      BY <1>0, <2>1
    <2>7. FillIsRecorded'
      BY <2>6 DEF LedgerInv, FillIsRecorded
    <2>8. OrdersAdvanceStep
      BY <2>6 DEF OrdersAdvanceStep, SameOrder
    <2> QED
      BY <2>1, <2>3, <2>4, <2>5, <2>7, <2>8
      DEF LedgerInv, LedgerTypeOK, NoDoubleFill
  <1>2. CASE OrderChanged(orders, orders')
    <2> PICK i \in 1..Len(orders), o \in Order :
          /\ orders' = [orders EXCEPT ![i] = o]
          /\ Active(orders[i])
          /\ SameOrder(o, orders[i])
          /\ o.order_kind = orders[i].order_kind
          /\ o.status # "pending"
          /\ o.status = "filled" => /\ o.entry_price \in Prices
                                    /\ o.stop_price \in Prices
                                    /\ o.stop_price < o.entry_price
      BY <1>2, Zenon DEF OrderChanged
    <2>1. /\ orders' \in Seq(Order)
          /\ Len(orders') = Len(orders)
          /\ \A k \in 1..Len(orders) : k # i => orders'[k] = orders[k]
          /\ orders'[i] = o
      BY <1>0
    <2>3. FilledHasPrices(orders')
      BY <2>1 DEF LedgerInv, FilledHasPrices
    <2>4. UniqueIds'
      BY <2>1 DEF LedgerInv, UniqueIds, SameOrder
    <2>5. OneActiveEntry'
      BY <2>1 DEF LedgerInv, OneActiveEntry, Active, SameOrder
    <2>6. \A k \in 1..Len(orders) :
            orders[k].status = "filled" => orders'[k] = orders[k]
      BY <2>1 DEF Active
    <2>7. FillIsRecorded'
      BY <2>1, <2>6 DEF LedgerInv, FillIsRecorded
    <2>8. OrdersAdvanceStep
      BY <2>1 DEF OrdersAdvanceStep, SameOrder
    <2> QED
      BY <2>1, <2>3, <2>4, <2>5, <2>7, <2>8
      DEF LedgerInv, LedgerTypeOK, NoDoubleFill
  <1> QED
    BY <1>0, <1>1, <1>2, OrdersEditedForm

\* An edit of positions.json keeps the invariant and only raises stops.
LEMMA PositionsEditStep ==
    ASSUME LedgerInv, PositionsEdited(orders, positions, positions'),
           UNCHANGED orders
    PROVE  LedgerInv' /\ StopsRatchetStep
  <1>0. /\ positions \in Seq(Position) /\ Len(positions) \in Nat
        /\ \A k \in 1..Len(positions) : positions[k] \in Position
        /\ orders \in Seq(Order)
        /\ \A k \in 1..Len(orders) : orders[k] \in Order
    BY DEF LedgerInv, LedgerTypeOK
  <1>1. CASE PositionAppended(orders, positions, positions')
    <2> PICK pos \in Position :
          /\ positions' = Append(positions, pos)
          /\ FreshId(positions, pos.position_id)
          /\ \/ pos.source_order_id = NoOrder
             \/ \E i \in 1..Len(orders) :
                   /\ orders[i].status = "filled"
                   /\ BoughtBy(pos, orders[i])
                   /\ pos.entry_price = orders[i].entry_price
                   /\ \A j \in 1..Len(positions) :
                          ~BoughtBy(positions[j], orders[i])
      BY <1>1 DEF PositionAppended
    <2>1. /\ positions' \in Seq(Position)
          /\ Len(positions') = Len(positions) + 1
          /\ \A k \in 1..Len(positions) : positions'[k] = positions[k]
          /\ positions'[Len(positions) + 1] = pos
      BY <1>0
    <2>2. \A k \in 1..Len(positions') :
            \/ k \in 1..Len(positions) /\ positions'[k] = positions[k]
            \/ k = Len(positions) + 1 /\ positions'[k] = pos
      BY <1>0, <2>1
    <2>3. UniqueIds'
      BY <2>2 DEF LedgerInv, UniqueIds, FreshId
    <2>4. NoDoubleFill'
      BY <2>2 DEF LedgerInv, NoDoubleFill, BoughtBy
    <2>5. FillIsRecorded'
      BY <2>2 DEF LedgerInv, FillIsRecorded
    <2>6. \A k \in 1..Len(positions) : positions[k].stop_price \in Nat
      BY <1>0 DEF Position
    <2>7. \A k \in 1..Len(positions) :
            k \in 1..Len(positions') /\ positions'[k] = positions[k]
      BY <1>0, <2>1
    <2>8. StopsRatchetStep
      BY <2>6, <2>7 DEF StopsRatchetStep
    <2> QED
      BY <2>1, <2>3, <2>4, <2>5, <2>8
      DEF LedgerInv, LedgerTypeOK, OneActiveEntry
  <1>2. CASE PositionChanged(positions, positions')
    <2> PICK i \in 1..Len(positions), pos \in Position :
          /\ positions' = [positions EXCEPT ![i] = pos]
          /\ positions[i].status = "open"
          /\ pos.position_id = positions[i].position_id
          /\ pos.ticker = positions[i].ticker
          /\ pos.source_order_id = positions[i].source_order_id
          /\ pos.entry_price = positions[i].entry_price
          /\ pos.stop_price >= positions[i].stop_price
      BY <1>2, Zenon DEF PositionChanged
    <2>1. /\ positions' \in Seq(Position)
          /\ Len(positions') = Len(positions)
          /\ \A k \in 1..Len(positions) : k # i => positions'[k] = positions[k]
          /\ positions'[i] = pos
      BY <1>0
    <2>2. \A k \in 1..Len(positions) :
            /\ positions'[k].position_id = positions[k].position_id
            /\ positions'[k].ticker = positions[k].ticker
            /\ positions'[k].source_order_id = positions[k].source_order_id
            /\ positions'[k].entry_price = positions[k].entry_price
      BY <2>1
    <2>3. UniqueIds'
      BY <2>1, <2>2 DEF LedgerInv, UniqueIds
    <2>4. NoDoubleFill'
      BY <2>1, <2>2 DEF LedgerInv, NoDoubleFill
    <2>5. FillIsRecorded'
      BY <2>1, <2>2 DEF LedgerInv, FillIsRecorded, BoughtBy
    <2>6. \A k \in 1..Len(positions) : positions[k].stop_price \in Nat
      BY <1>0 DEF Position
    <2>7. StopsRatchetStep
      BY <2>1, <2>2, <2>6 DEF StopsRatchetStep
    <2> QED
      BY <2>1, <2>3, <2>4, <2>5, <2>7
      DEF LedgerInv, LedgerTypeOK, OneActiveEntry
  <1> QED
    BY <1>0, <1>1, <1>2, PositionsEditedForm DEF LedgerInv

LEMMA LedgerInvInit == LedgerInit => LedgerInv
  BY DEF LedgerInit, LedgerInv, LedgerTypeOK, FilledHasPrices, UniqueIds,
         OneActiveEntry, NoDoubleFill, FillIsRecorded

LEMMA LedgerInvStep ==
    ASSUME LedgerInv, [LedgerNext]_disk
    PROVE  LedgerInv' /\ [OrdersAdvanceStep]_disk /\ [StopsRatchetStep]_disk
  <1>0. /\ \A k \in 1..Len(orders) : orders[k] \in Order
        /\ \A k \in 1..Len(positions) : positions[k] \in Position
    BY DEF LedgerInv, LedgerTypeOK
  <1>1. CASE OrdersEdited(orders, orders') /\ UNCHANGED positions
    <2>1. StopsRatchetStep
      BY <1>0, <1>1 DEF StopsRatchetStep, Position
    <2> QED
      BY <1>1, <2>1, OrdersEditStep
  <1>2. CASE PositionsEdited(orders, positions, positions') /\ UNCHANGED orders
    <2>1. OrdersAdvanceStep
      BY <1>0, <1>2 DEF OrdersAdvanceStep, SameOrder
    <2> QED
      BY <1>2, <2>1, PositionsEditStep
  <1>3. CASE UNCHANGED disk
    BY <1>3 DEF disk, LedgerInv, LedgerTypeOK, FilledHasPrices, UniqueIds,
                OneActiveEntry, NoDoubleFill, FillIsRecorded
  <1> QED
    BY <1>1, <1>2, <1>3 DEF LedgerNext

\* Whatever edits are made to the two files, ids stay unique, a ticker has one
\* waiting entry order, and positions and filled orders agree.
THEOREM LedgerSafe == LedgerSpec => []LedgerInv
  BY LedgerInvInit, LedgerInvStep, PTL DEF LedgerSpec

\* No edit takes an order back or loses it.
THEOREM LedgerOrdersAdvance == LedgerSpec => OrdersAdvance
  <1>1. LedgerInv /\ [LedgerNext]_disk => [OrdersAdvanceStep]_disk
    BY LedgerInvStep
  <1> QED
    BY <1>1, LedgerSafe, PTL DEF LedgerSpec, OrdersAdvance

\* No edit lowers a stop, touches a closed position or loses one.
THEOREM LedgerStopsRatchet == LedgerSpec => StopsRatchet
  <1>1. LedgerInv /\ [LedgerNext]_disk => [StopsRatchetStep]_disk
    BY LedgerInvStep
  <1> QED
    BY <1>1, LedgerSafe, PTL DEF LedgerSpec, StopsRatchet

-----------------------------------------------------------------------------
(* Shares *)

\* A partial close adds to what was sold what it takes from what is held.
LEMMA PartClosedShares ==
    ASSUME NEW pos \in Position, NEW n \in Quantities, NEW price \in Prices,
           n < pos.shares
    PROVE  /\ PartClosedAt(pos, n, price).shares
                 + ClosedShares(PartClosedAt(pos, n, price))
                   = pos.shares + ClosedShares(pos)
           /\ ClosedShares(pos) \in Nat
  <1> DEFINE e == [shares_closed |-> n, price |-> price,
                   risk |-> pos.entry_price - pos.stop_price]
             closes == pos.partial_closes
             more == Append(closes, e)
             f == [k \in DOMAIN closes |-> closes[k].shares_closed]
             g == [k \in DOMAIN more |-> more[k].shares_closed]
  <1>1. closes \in Seq(PartialClose) /\ pos.shares \in Nat /\ n \in Nat
    BY QuantitiesAssumption DEF Position
  <1>2. PICK m \in Nat : /\ m = Len(closes) /\ DOMAIN closes = 1..m
                         /\ Len(more) = m + 1 /\ DOMAIN more = 1..(m + 1)
    BY <1>1
  <1>3. /\ \A k \in 1..m : more[k] = closes[k] /\ closes[k].shares_closed \in Nat
        /\ more[m + 1] = e
    <2>1. \A k \in 1..m : closes[k] \in PartialClose
      BY <1>1, <1>2
    <2>2. \A k \in 1..m : closes[k].shares_closed \in Nat
      BY <2>1, QuantitiesAssumption DEF PartialClose
    <2> QED
      BY <1>1, <1>2, <2>2
  <1>4. /\ PartClosedAt(pos, n, price).partial_closes = more
        /\ PartClosedAt(pos, n, price).shares = pos.shares - n
    BY DEF PartClosedAt, Position
  <1>5. /\ ClosedShares(pos) = SumFunctionOnSet(f, 1..m)
        /\ ClosedShares(PartClosedAt(pos, n, price)) = SumFunctionOnSet(g, 1..(m + 1))
    BY <1>2, <1>4 DEF ClosedShares, SumFunction
  <1>6. \A k \in 1..m : g[k] = f[k] /\ f[k] \in Nat
    BY <1>2, <1>3
  <1>7. g[m + 1] = n
    BY <1>2, <1>3
  <1> HIDE DEF e, f, g, closes, more
  <1>8. IsFiniteSet(1..m) /\ IsFiniteSet(1..(m + 1))
    BY <1>2, FS_Interval
  <1>9. SumFunctionOnSet(g, 1..m) = SumFunctionOnSet(f, 1..m)
    BY <1>6, <1>8, SumSame
  <1>10. SumFunctionOnSet(f, 1..m) \in Nat
    BY <1>6, <1>8, SumType
  <1>11. SumFunctionOnSet(g, 1..(m + 1)) = n + SumFunctionOnSet(g, 1..m)
    <2>1. \A k \in 1..(m + 1) : g[k] \in Nat
      BY <1>1, <1>2, <1>6, <1>7
    <2>2. (1..(m + 1)) \ {m + 1} = 1..m /\ m + 1 \in 1..(m + 1)
      BY <1>2
    <2>3. SumFunctionOnSet(g, 1..(m + 1)) =
              g[m + 1] + SumFunctionOnSet(g, (1..(m + 1)) \ {m + 1})
      BY <1>8, <2>1, <2>2, SumRemove
    <2> QED
      BY <1>7, <2>2, <2>3
  <1> QED
    BY <1>1, <1>4, <1>5, <1>9, <1>10, <1>11

\* The edits of an open position neither make nor lose shares.
LEMMA ManagedShares ==
    ASSUME NEW pos \in Position, NEW pos2, ManagedTo(pos, pos2)
    PROVE  pos2.shares + ClosedShares(pos2) = pos.shares + ClosedShares(pos)
  <1>1. CASE \E n \in Quantities, price \in Prices :
                 n < pos.shares /\ pos2 = PartClosedAt(pos, n, price)
    BY <1>1, PartClosedShares
  <1>2. CASE pos2.shares = pos.shares /\ pos2.partial_closes = pos.partial_closes
    BY <1>2 DEF ClosedShares
  <1>3. \/ \E n \in Quantities, price \in Prices :
               n < pos.shares /\ pos2 = PartClosedAt(pos, n, price)
        \/ pos2.shares = pos.shares /\ pos2.partial_closes = pos.partial_closes
    BY DEF ManagedTo, StopAt, TrailedBy, ClosedAt, Position
  <1> QED
    BY <1>1, <1>2, <1>3

\* A new position has all its shares.
LEMMA NewPositionShares ==
    ASSUME NEW id, NEW t, NEW entry, NEW stop, NEW n \in Nat, NEW source
    PROVE  LET pos == NewPosition(id, t, entry, stop, n, source)
           IN  pos.shares + ClosedShares(pos) = n
  <1> DEFINE pos == NewPosition(id, t, entry, stop, n, source)
  <1>1. pos.shares = n /\ pos.partial_closes = <<>>
    BY DEF NewPosition
  <1>2. DOMAIN pos.partial_closes = {}
    BY <1>1
  <1>3. ClosedShares(pos) = 0
    BY <1>2, SumEmpty DEF ClosedShares, SumFunction
  <1> HIDE DEF pos
  <1>4. pos.shares + ClosedShares(pos) = n
    BY <1>1, <1>3
  <1> QED
    BY <1>4 DEF pos

LEMMA SharesStep ==
    ASSUME LedgerInv, SharesConserved, [LedgerNext]_disk
    PROVE  SharesConserved'
  <1>0. /\ positions \in Seq(Position) /\ Len(positions) \in Nat
        /\ \A k \in 1..Len(positions) : positions[k] \in Position
        /\ orders \in Seq(Order) /\ Len(orders) \in Nat
        /\ \A k \in 1..Len(orders) : orders[k] \in Order
    BY DEF LedgerInv, LedgerTypeOK
  \* A position that an order bought has it on file, filled.
  <1>1. ASSUME NEW i \in 1..Len(positions), NEW o \in Order, BoughtBy(positions[i], o)
        PROVE  \E j \in 1..Len(orders) :
                   SameOrder(orders[j], o) /\ orders[j].status = "filled"
                   /\ BoughtBy(positions[i], orders[j])
    <2>1. positions[i].source_order_id # NoOrder
      BY <1>1 DEF BoughtBy, Order
    <2> QED
      BY <1>1, <2>1 DEF LedgerInv, FillIsRecorded, BoughtBy, SameOrder
  <1>2. CASE OrdersEdited(orders, orders') /\ UNCHANGED positions
    <2>1. CASE OrderAppended(orders, orders')
      <3> PICK o \in Order : /\ orders' = Append(orders, o)
                             /\ \A k \in 1..Len(orders) : ~SameOrder(orders[k], o)
        BY <2>1 DEF OrderAppended
      <3>1. \A k \in 1..Len(orders') :
              \/ k \in 1..Len(orders) /\ orders'[k] = orders[k]
              \/ orders'[k] = o
        BY <1>0
      <3>2. \A i \in 1..Len(positions) : ~BoughtBy(positions[i], o)
        BY <1>1
      <3> QED
        BY <1>2, <3>1, <3>2 DEF SharesConserved
    <2>2. CASE OrderChanged(orders, orders')
      <3> PICK k \in 1..Len(orders), o \in Order :
            /\ orders' = [orders EXCEPT ![k] = o]
            /\ Active(orders[k])
            /\ SameOrder(o, orders[k])
        BY <2>2 DEF OrderChanged
      <3>1. \A i \in 1..Len(positions) : ~BoughtBy(positions[i], orders[k])
        <4> SUFFICES ASSUME NEW i \in 1..Len(positions), BoughtBy(positions[i], orders[k])
                     PROVE  FALSE
          OBVIOUS
        <4>1. PICK j \in 1..Len(orders) :
                SameOrder(orders[j], orders[k]) /\ orders[j].status = "filled"
          BY <1>0, <1>1
        <4>2. j = k
          BY <4>1 DEF LedgerInv, UniqueIds
        <4> QED
          BY <4>1, <4>2 DEF Active
      <3>2. \A i \in 1..Len(positions) : ~BoughtBy(positions[i], o)
        BY <3>1 DEF BoughtBy, SameOrder
      <3>3. Len(orders') = Len(orders)
            /\ \A j \in 1..Len(orders) : orders'[j] = IF j = k THEN o ELSE orders[j]
        BY <1>0
      <3> QED
        BY <1>2, <3>2, <3>3 DEF SharesConserved
    <2> QED
      BY <1>0, <1>2, <2>1, <2>2, OrdersEditedForm
  <1>3. CASE PositionsEdited(orders, positions, positions') /\ UNCHANGED orders
    <2>1. CASE Managed(positions, positions')
      <3> PICK k \in 1..Len(positions) :
            /\ ManagedTo(positions[k], positions'[k])
            /\ positions' = [positions EXCEPT ![k] = positions'[k]]
        BY <2>1 DEF Managed
      <3>1. /\ positions'[k].shares + ClosedShares(positions'[k])
                   = positions[k].shares + ClosedShares(positions[k])
            /\ positions'[k].ticker = positions[k].ticker
            /\ positions'[k].source_order_id = positions[k].source_order_id
        BY <1>0, ManagedShares, ManagedForm
      <3>2. Len(positions') = Len(positions)
            /\ \A i \in 1..Len(positions) : i # k => positions'[i] = positions[i]
        BY <1>0
      <3> QED
        BY <1>3, <3>1, <3>2 DEF SharesConserved, BoughtBy
    <2>2. ASSUME NEW pos, positions' = Append(positions, pos),
                 \A j \in 1..Len(orders) : BoughtBy(pos, orders[j]) =>
                     pos.shares + ClosedShares(pos) = orders[j].quantity
          PROVE  SharesConserved'
      <3>1. \A i \in 1..Len(positions') :
              \/ i \in 1..Len(positions) /\ positions'[i] = positions[i]
              \/ positions'[i] = pos
        BY <1>0, <2>2
      <3> QED
        BY <1>3, <2>2, <3>1 DEF SharesConserved
    <2>3. CASE Registered(positions, positions')
      <3> PICK id \in PositionIds, t \in Tickers, n \in Quantities,
               entry \in Prices, stop \in Prices :
            positions' = Append(positions, NewPosition(id, t, entry, stop, n, NoOrder))
        BY <2>3, Zenon DEF Registered
      <3> DEFINE pos == NewPosition(id, t, entry, stop, n, NoOrder)
      <3>1. \A j \in 1..Len(orders) : ~BoughtBy(pos, orders[j])
        BY <1>0 DEF NewPosition, BoughtBy, Order
      <3> QED
        BY <2>2, <3>1
    <2>4. CASE Opened(orders, positions, positions')
      <3> PICK i \in 1..Len(orders), id \in PositionIds :
            positions' = Append(positions, NewPosition(id, orders[i].ticker,
                             orders[i].entry_price, orders[i].stop_price,
                             orders[i].quantity, orders[i].number))
        BY <2>4 DEF Opened
      <3> DEFINE pos == NewPosition(id, orders[i].ticker,
                             orders[i].entry_price, orders[i].stop_price,
                             orders[i].quantity, orders[i].number)
      <3>1. pos.shares + ClosedShares(pos) = orders[i].quantity
        <4>1. orders[i].quantity \in Nat
          BY <1>0, QuantitiesAssumption DEF Order
        <4> QED
          BY <4>1, NewPositionShares
      <3>2. \A j \in 1..Len(orders) : BoughtBy(pos, orders[j]) => j = i
        BY DEF NewPosition, BoughtBy, LedgerInv, UniqueIds, SameOrder
      <3>3. positions' = Append(positions, pos)
        OBVIOUS
      <3> HIDE DEF pos
      <3> QED
        BY <2>2, <3>1, <3>2, <3>3
    <2> QED
      BY <1>3, <2>1, <2>3, <2>4 DEF PositionsEdited
  <1>4. CASE UNCHANGED disk
    BY <1>4 DEF disk, SharesConserved
  <1> QED
    BY <1>2, <1>3, <1>4 DEF LedgerNext

\* Whatever edits are made to the two files, a position and its partial closes add up
\* to the order it came from.
THEOREM LedgerSharesConserved == LedgerSpec => []SharesConserved
  <1>1. LedgerInit => SharesConserved
    BY DEF LedgerInit, SharesConserved
  <1>2. LedgerInv /\ SharesConserved /\ [LedgerNext]_disk => SharesConserved'
    BY SharesStep
  <1> QED
    BY <1>1, <1>2, LedgerSafe, PTL DEF LedgerSpec

-----------------------------------------------------------------------------
(* Types *)

\* A handler that is filling an order holds it with a stop below its price.
FillDraft ==
    \A p \in Processes :
        pc[p] \in {"fill_update", "fill_write", "fill_open"} =>
            /\ draft[p].status = "filled"
            /\ draft[p].entry_price \in Prices
            /\ draft[p].stop_price \in Prices
            /\ draft[p].stop_price < draft[p].entry_price

TypeInv == TypeOK /\ FillDraft

LEMMA NoDraftType == NoDraft \in Order
  <1>1. (CHOOSE t \in Tickers : TRUE) \in Tickers
    BY NonEmptyAssumption
  <1>2. (CHOOSE q \in Quantities : TRUE) \in Quantities
    BY NonEmptyAssumption
  <1> QED
    BY <1>1, <1>2, NewOrderType, KindsAssumption DEF NoDraft

\* After Forget the handler's memory is blank, whatever it was.
LEMMA ForgetType ==
    ASSUME TypeInv, NEW p \in Processes, Forget(p)
    PROVE  /\ pc' \in [Processes -> PCs]
           /\ mode' \in [Processes -> EntryModes]
           /\ draft' \in [Processes -> Order]
           /\ odata' \in [Processes -> Seq(Order)]
           /\ pdata' \in [Processes -> Seq(Position)]
           /\ FillDraft'
  <1>1. /\ pc' = [pc EXCEPT ![p] = "idle"]
        /\ draft' = [draft EXCEPT ![p] = NoDraft]
    BY DEF Forget
  <1>2. /\ pc' \in [Processes -> PCs]
        /\ draft' \in [Processes -> Order]
    BY <1>1, NoDraftType DEF TypeInv, TypeOK, PCs
  <1>3. mode' \in [Processes -> EntryModes]
    BY DEF TypeInv, TypeOK, Forget, EntryModes
  <1>4. odata' \in [Processes -> Seq(Order)]
    BY DEF TypeInv, TypeOK, Forget
  <1>5. pdata' \in [Processes -> Seq(Position)]
    BY DEF TypeInv, TypeOK, Forget
  <1>6. FillDraft'
    BY <1>1 DEF TypeInv, TypeOK, FillDraft
  <1> QED
    BY <1>2, <1>3, <1>4, <1>5, <1>6

\* A handler that now holds a well-typed value of orders.json.
LEMMA HoldOrdersType ==
    ASSUME TypeInv, NEW p \in Processes, NEW os \in Seq(Order), NEW at \in PCs,
           HoldOrders(p, os, at), UNCHANGED draft,
           at = "write_orders" \/ (at = "fill_write" /\ pc[p] = "fill_update")
    PROVE  TypeInv'
  <1>1. odata' \in [Processes -> Seq(Order)]
    BY DEF HoldOrders, TypeInv, TypeOK
  <1>2. pc' \in [Processes -> PCs]
    BY DEF HoldOrders, TypeInv, TypeOK
  <1>3. FillDraft'
    BY DEF HoldOrders, TypeInv, TypeOK, FillDraft
  <1> QED
    BY <1>1, <1>2, <1>3 DEF HoldOrders, TypeInv, TypeOK, LedgerTypeOK

LEMMA HoldPositionsType ==
    ASSUME TypeInv, NEW p \in Processes, NEW ps \in Seq(Position),
           HoldPositions(p, ps), issued' \in 0..MaxPositions
    PROVE  TypeInv'
  <1>1. pdata' \in [Processes -> Seq(Position)]
    BY DEF HoldPositions, TypeInv, TypeOK
  <1>2. pc' \in [Processes -> PCs]
    BY DEF HoldPositions, TypeInv, TypeOK, PCs
  <1>3. FillDraft'
    BY DEF HoldPositions, TypeInv, TypeOK, FillDraft
  <1> QED
    BY <1>1, <1>2, <1>3 DEF HoldPositions, TypeInv, TypeOK, LedgerTypeOK

LEMMA EditPositionType ==
    ASSUME TypeInv, NEW p \in Processes, NEW i \in 1..Len(positions),
           NEW pos \in Position, EditPosition(p, i, pos)
    PROVE  TypeInv'
  <1>1. [positions EXCEPT ![i] = pos] \in Seq(Position)
    BY DEF TypeInv, TypeOK, LedgerTypeOK
  <1>2. issued' \in 0..MaxPositions
    BY DEF EditPosition, TypeInv, TypeOK
  <1> QED
    BY <1>1, <1>2, HoldPositionsType DEF EditPosition

LEMMA TypeInit == Init => TypeInv
  <1> SUFFICES ASSUME Init PROVE TypeInv
    OBVIOUS
  <1>1. orders \in Seq(Order) /\ positions \in Seq(Position)
    BY DEF Init
  <1>2. /\ odata \in [Processes -> Seq(Order)]
        /\ pdata \in [Processes -> Seq(Position)]
    BY DEF Init
  <1>3. draft \in [Processes -> Order]
    BY NoDraftType DEF Init
  <1>4. /\ issued \in 0..MaxPositions
        /\ pc \in [Processes -> PCs]
        /\ mode \in [Processes -> EntryModes]
    BY MaxPositionsAssumption DEF Init, PCs, EntryModes
  <1>5. FillDraft
    BY DEF Init, FillDraft
  <1> QED
    BY <1>1, <1>2, <1>3, <1>4, <1>5 DEF TypeInv, TypeOK, LedgerTypeOK

LEMMA TypeStep == TypeInv /\ [Next]_vars => TypeInv'
  <1> SUFFICES ASSUME TypeInv, [Next]_vars PROVE TypeInv'
    OBVIOUS
  <1> USE DEF TypeInv
  <1>0. /\ orders \in Seq(Order) /\ Len(orders) \in Nat
        /\ \A i \in 1..Len(orders) : orders[i] \in Order
        /\ positions \in Seq(Position) /\ Len(positions) \in Nat
        /\ \A i \in 1..Len(positions) : positions[i] \in Position
    BY DEF TypeOK, LedgerTypeOK
  <1>1. CASE UNCHANGED vars
    BY <1>1 DEF vars, TypeOK, LedgerTypeOK, FillDraft
  <1>2. ASSUME NEW p \in Processes, CreateOrder(p)
        PROVE  TypeInv'
    <2> PICK t \in Tickers, q \in Quantities, stop \in Prices \cup {NoPrice},
             kind \in OrderKinds, m \in EntryModes, n \in 1..(Len(orders) + 1) :
          /\ kind = "entry" => ~ActiveEntry(orders, t)
          /\ FirstFreeNumber(orders, t, n)
          /\ draft' = [draft EXCEPT ![p] = NewOrder(t, n, kind, q, stop)]
          /\ mode' = [mode EXCEPT ![p] = m]
          /\ pc' = [pc EXCEPT ![p] = IF kind = "entry" THEN "check_position"
                                                       ELSE "append_order"]
      BY <1>2, Zenon DEF CreateOrder
    <2>0. PICK next \in {"check_position", "append_order"} :
            pc' = [pc EXCEPT ![p] = next]
      BY <1>2 DEF CreateOrder
    <2>1. n \in Nat \ {0}
      BY <1>0
    <2>2. NewOrder(t, n, kind, q, stop) \in Order
      BY <2>1, NewOrderType
    <2>3. draft' \in [Processes -> Order]
      BY <2>2 DEF TypeOK
    <2>4. pc' \in [Processes -> PCs] /\ mode' \in [Processes -> EntryModes]
      BY <2>0 DEF TypeOK, PCs
    <2>5. FillDraft'
      BY <2>0 DEF TypeOK, FillDraft
    <2> QED
      BY <1>2, <2>3, <2>4, <2>5 DEF CreateOrder, TypeOK, LedgerTypeOK
  <1>3. ASSUME NEW p \in Processes, CheckPosition(p)
        PROVE  TypeInv'
    <2>1. CASE Forget(p)
      BY <1>3, <2>1, ForgetType DEF CheckPosition, TypeOK, LedgerTypeOK
    <2>2. CASE /\ pc' = [pc EXCEPT ![p] = "append_order"]
               /\ UNCHANGED <<mode, draft, odata, pdata>>
      <3>1. pc' \in [Processes -> PCs]
        BY <2>2 DEF TypeOK, PCs
      <3>2. FillDraft'
        BY <2>2 DEF TypeOK, FillDraft
      <3> QED
        BY <1>3, <2>2, <3>1, <3>2 DEF CheckPosition, TypeOK, LedgerTypeOK
    <2> QED
      BY <1>3, <2>1, <2>2 DEF CheckPosition
  <1>4. ASSUME NEW p \in Processes, AppendOrder(p)
        PROVE  TypeInv'
    <2>1. Append(orders, draft[p]) \in Seq(Order)
      BY <1>0 DEF TypeOK
    <2> QED
      BY <1>4, <2>1, HoldOrdersType DEF AppendOrder, PCs
  <1>5. ASSUME NEW p \in Processes, SubmitOrder(p)
        PROVE  TypeInv'
    <2> PICK i \in 1..Len(orders) :
          HoldOrders(p, [orders EXCEPT ![i] = [@ EXCEPT !.status = "submitted"]],
                     "write_orders")
      BY <1>5 DEF SubmitOrder
    <2>1. [orders[i] EXCEPT !.status = "submitted"] \in Order
      BY <1>0 DEF Order, OrderStatus
    <2>2. [orders EXCEPT ![i] = [@ EXCEPT !.status = "submitted"]] \in Seq(Order)
      BY <1>0, <2>1
    <2> QED
      BY <1>5, <2>2, HoldOrdersType DEF SubmitOrder, PCs
  <1>6. ASSUME NEW p \in Processes, CancelOrder(p)
        PROVE  TypeInv'
    <2> PICK i \in 1..Len(orders) :
          HoldOrders(p, [orders EXCEPT ![i] = [@ EXCEPT !.status = "cancelled"]],
                     "write_orders")
      BY <1>6 DEF CancelOrder
    <2>1. [orders[i] EXCEPT !.status = "cancelled"] \in Order
      BY <1>0 DEF Order, OrderStatus
    <2>2. [orders EXCEPT ![i] = [@ EXCEPT !.status = "cancelled"]] \in Seq(Order)
      BY <1>0, <2>1
    <2> QED
      BY <1>6, <2>2, HoldOrdersType DEF CancelOrder, PCs
  <1>7. ASSUME NEW p \in Processes, FillOrder(p)
        PROVE  TypeInv'
    <2> PICK i \in 1..Len(orders), price \in Prices,
             override \in Prices \cup {NoPrice} :
          LET stop == IF override # NoPrice THEN override
                                            ELSE orders[i].stop_price
          IN  /\ stop > 0 /\ stop < price
              /\ draft' = [draft EXCEPT ![p] = FilledOrder(orders[i], price, stop)]
      BY <1>7 DEF FillOrder
    <2> DEFINE stop == IF override # NoPrice THEN override
                                             ELSE orders[i].stop_price
    <2>0. /\ stop \in Prices /\ stop < price
          /\ draft' = [draft EXCEPT ![p] = FilledOrder(orders[i], price, stop)]
      BY <1>0 DEF Order
    <2> HIDE DEF stop
    <2>1. FilledOrder(orders[i], price, stop) \in Order
      BY <1>0, <2>0, FilledOrderType
    <2>2. /\ FilledOrder(orders[i], price, stop).status = "filled"
          /\ FilledOrder(orders[i], price, stop).entry_price = price
          /\ FilledOrder(orders[i], price, stop).stop_price = stop
      BY <1>0 DEF FilledOrder, Order
    <2>3. draft' \in [Processes -> Order]
      BY <2>0, <2>1 DEF TypeOK
    <2>4. pc' \in [Processes -> PCs]
      BY <1>7 DEF FillOrder, TypeOK, PCs
    <2>5. FillDraft'
      BY <1>7, <2>0, <2>2 DEF FillOrder, TypeOK, FillDraft
    <2> QED
      BY <1>7, <2>3, <2>4, <2>5 DEF FillOrder, TypeOK, LedgerTypeOK
  <1>8. ASSUME NEW p \in Processes, FillUpdate(p)
        PROVE  TypeInv'
    <2>1. CASE \E i \in 1..Len(orders) :
                 /\ HoldOrders(p,
                      [orders EXCEPT ![i] = FilledOrder(@, draft[p].entry_price,
                                                        draft[p].stop_price)],
                      "fill_write")
                 /\ UNCHANGED draft
      <3> PICK i \in 1..Len(orders) :
                 /\ HoldOrders(p,
                      [orders EXCEPT ![i] = FilledOrder(@, draft[p].entry_price,
                                                        draft[p].stop_price)],
                      "fill_write")
                 /\ UNCHANGED draft
        BY <2>1
      <3>1. draft[p].entry_price \in Prices /\ draft[p].stop_price \in Prices
        BY <1>8 DEF FillUpdate, FillDraft
      <3>2. FilledOrder(orders[i], draft[p].entry_price, draft[p].stop_price)
              \in Order
        BY <1>0, <3>1, FilledOrderType
      <3>3. [orders EXCEPT ![i] = FilledOrder(@, draft[p].entry_price,
                                              draft[p].stop_price)] \in Seq(Order)
        BY <1>0, <3>2
      <3> QED
        BY <1>8, <3>3, HoldOrdersType DEF FillUpdate, PCs
    <2>2. CASE /\ pc' = [pc EXCEPT ![p] = "fill_open"]
               /\ UNCHANGED <<orders, positions, issued, mode, draft, odata, pdata>>
      <3>1. pc' \in [Processes -> PCs]
        BY <2>2 DEF TypeOK, PCs
      <3>2. FillDraft'
        BY <1>8, <2>2 DEF FillUpdate, TypeOK, FillDraft
      <3> QED
        BY <2>2, <3>1, <3>2 DEF TypeOK, LedgerTypeOK
    <2> QED
      BY <1>8, <2>1, <2>2 DEF FillUpdate
  <1>9. ASSUME NEW p \in Processes, FillWrite(p)
        PROVE  TypeInv'
    <2>1. orders' \in Seq(Order)
      BY <1>9 DEF FillWrite, TypeOK
    <2>2. odata' \in [Processes -> Seq(Order)]
      BY <1>9 DEF FillWrite, TypeOK
    <2>3. pc' \in [Processes -> PCs]
      BY <1>9 DEF FillWrite, TypeOK, PCs
    <2>4. FillDraft'
      BY <1>9 DEF FillWrite, TypeOK, FillDraft
    <2> QED
      BY <1>9, <2>1, <2>2, <2>3, <2>4 DEF FillWrite, TypeOK, LedgerTypeOK
  <1>10. ASSUME NEW p \in Processes, FillOpen(p)
         PROVE  TypeInv'
    <2> DEFINE pos == NewPosition(issued + 1, draft[p].ticker,
                         draft[p].entry_price, draft[p].stop_price,
                         draft[p].quantity, draft[p].number)
    <2>1. issued + 1 \in PositionIds /\ issued' = issued + 1
      BY <1>10, MaxPositionsAssumption DEF FillOpen, TypeOK, PositionIds
    <2>2. /\ draft[p].ticker \in Tickers /\ draft[p].quantity \in Quantities
          /\ draft[p].number \in Nat
      BY DEF TypeOK, Order
    <2>3. /\ draft[p].entry_price \in Prices /\ draft[p].stop_price \in Prices
          /\ draft[p].stop_price < draft[p].entry_price
      BY <1>10 DEF FillOpen, FillDraft
    <2>4. pos \in Position
      BY <2>1, <2>2, <2>3, NewPositionType
    <2>5. Append(positions, pos) \in Seq(Position)
      BY <1>0, <2>4
    <2>6. HoldPositions(p, Append(positions, pos))
      BY <1>10, <2>1 DEF FillOpen
    <2>7. issued' \in 0..MaxPositions
      BY <2>1 DEF TypeOK, PositionIds
    <2> QED
      BY <2>5, <2>6, <2>7, HoldPositionsType
  <1>11. ASSUME NEW p \in Processes, WriteOrders(p)
         PROVE  TypeInv'
    <2>1. orders' \in Seq(Order)
      BY <1>11 DEF WriteOrders, TypeOK
    <2> QED
      BY <1>11, <2>1, ForgetType DEF WriteOrders, TypeOK, LedgerTypeOK
  <1>12. ASSUME NEW p \in Processes, CreatePosition(p)
         PROVE  TypeInv'
    <2> PICK t \in Tickers, n \in Quantities, entry \in Prices, stop \in Prices :
          /\ stop < entry
          /\ HoldPositions(p, Append(positions,
                 NewPosition(issued', t, entry, stop, n, NoOrder)))
      BY <1>12 DEF CreatePosition
    <2>1. issued' \in PositionIds /\ issued' \in 0..MaxPositions
      BY <1>12, MaxPositionsAssumption DEF CreatePosition, TypeOK, PositionIds
    <2>2. NewPosition(issued', t, entry, stop, n, NoOrder) \in Position
      BY <2>1, NewPositionType
    <2>3. Append(positions, NewPosition(issued', t, entry, stop, n, NoOrder))
            \in Seq(Position)
      BY <1>0, <2>2
    <2> QED
      BY <2>1, <2>3, HoldPositionsType
  <1>13. ASSUME NEW p \in Processes, UpdatePositionStop(p)
         PROVE  TypeInv'
    <2> PICK i \in 1..Len(positions), s \in Prices :
          /\ RoundPrice(s) > RoundPrice(positions[i].stop_price)
          /\ EditPosition(p, i, StopAt(positions[i], RoundPrice(s)))
      BY <1>13 DEF UpdatePositionStop
    <2>1. s \in Nat /\ positions[i].stop_price \in Nat
      BY <1>0, PricesAssumption DEF Position
    <2>2. RoundPrice(s) \in Nat /\ RoundPrice(positions[i].stop_price) \in Nat
      BY <2>1, RoundPriceBounds
    <2>4. RoundPrice(s) \in Nat \ {0}
      BY <2>2
    <2>3. StopAt(positions[i], RoundPrice(s)) \in Position
      BY <1>0, <2>4, EditTypes
    <2> QED
      BY <2>3, EditPositionType
  <1>14. ASSUME NEW p \in Processes, ClosePosition(p)
         PROVE  TypeInv'
    BY <1>0, <1>14, EditTypes, EditPositionType DEF ClosePosition
  <1>15. ASSUME NEW p \in Processes, PartialClosePosition(p)
         PROVE  TypeInv'
    BY <1>0, <1>15, EditTypes, EditPositionType DEF PartialClosePosition
  <1>16. ASSUME NEW p \in Processes, UpdateTrailMethod(p)
         PROVE  TypeInv'
    BY <1>0, <1>16, EditTypes, EditPositionType DEF UpdateTrailMethod
  <1>17. ASSUME NEW p \in Processes, WritePositions(p)
         PROVE  TypeInv'
    <2>1. positions' \in Seq(Position)
      BY <1>17 DEF WritePositions, TypeOK
    <2> QED
      BY <1>17, <2>1, ForgetType DEF WritePositions, TypeOK, LedgerTypeOK
  <1>18. ASSUME NEW p \in Processes, Abandon(p)
         PROVE  TypeInv'
    BY <1>18, ForgetType DEF Abandon, TypeOK, LedgerTypeOK
  <1> QED
    BY <1>1, <1>2, <1>3, <1>4, <1>5, <1>6, <1>7, <1>8, <1>9, <1>10, <1>11,
       <1>12, <1>13, <1>14, <1>15, <1>16, <1>17, <1>18
    DEF Next, Request, Handler

\* Whatever the processes do, and however many there are, the files and what the
\* handlers hold stay well formed: shares and risk positive, stops positive, and
\* a filled position's stop below its entry when it is opened.
THEOREM TypeCorrect == Spec => []TypeOK
  <1>1. Init => TypeInv
    BY TypeInit
  <1>2. TypeInv /\ [Next]_vars => TypeInv'
    BY TypeStep
  <1>3. TypeInv => TypeOK
    BY DEF TypeInv
  <1> QED
    BY <1>1, <1>2, <1>3, PTL DEF Spec

-----------------------------------------------------------------------------
(* One process implements the ledger *)

\* p holds, in draft[p], the record of an order it may still fill.
Filling(p, i) ==
    /\ Active(orders[i])
    /\ draft[p] = FilledOrder(orders[i], draft[p].entry_price,
                                         draft[p].stop_price)

\* What a handler decided on an earlier read still holds when it writes.
HandlerOK(p) ==
    /\ pc[p] \in {"check_position", "append_order"} =>
           Placed(orders, Append(orders, draft[p]))
    /\ pc[p] = "write_orders" => OrdersEdited(orders, odata[p])
    /\ pc[p] = "fill_update" => \E i \in 1..Len(orders) : Filling(p, i)
    /\ pc[p] = "fill_write" =>
           \E i \in 1..Len(orders) :
               Filling(p, i) /\ odata[p] = [orders EXCEPT ![i] = draft[p]]
    /\ pc[p] = "fill_open" =>
           \E i \in 1..Len(orders) :
               /\ orders[i] = draft[p]
               /\ \A j \in 1..Len(positions) : ~BoughtBy(positions[j], orders[i])
    /\ pc[p] = "write_positions" =>
           /\ PositionsEdited(orders, positions, pdata[p])
           /\ \A j \in 1..Len(pdata[p]) : pdata[p][j].position_id <= issued

\* No position carries an id that is still to be drawn.
IdsIssued == \A j \in 1..Len(positions) : positions[j].position_id <= issued

BookInv ==
    /\ TypeInv
    /\ LedgerInv
    /\ IdsIssued
    /\ \A p \in Processes : HandlerOK(p)

LEMMA PositionIdNat ==
    ASSUME NEW pos \in Position
    PROVE  pos.position_id \in Nat
  <1>1. pos.position_id \in PositionIds
    BY DEF Position
  <1> QED
    BY <1>1, MaxPositionsAssumption DEF PositionIds

LEMMA LedgerInvUnchanged ==
    ASSUME LedgerInv, UNCHANGED disk
    PROVE  LedgerInv'
  BY LedgerInvStep

\* Process p has read, and will write os.
LEMMA HoldOrdersHandler ==
    ASSUME BookInv, NEW p \in Processes, NEW os,
           HoldOrders(p, os, "write_orders"), OrdersEdited(orders, os)
    PROVE  HandlerOK(p)' /\ IdsIssued' /\ UNCHANGED disk
  <1>1. /\ pc'[p] = "write_orders" /\ odata'[p] = os
        /\ UNCHANGED <<orders, positions, issued>>
    BY DEF HoldOrders, BookInv, TypeInv, TypeOK
  <1> QED
    BY <1>1 DEF HandlerOK, IdsIssued, BookInv, disk

\* The id drawn for an appended position is the last one issued.
LEMMA AppendedIdIssued ==
    ASSUME NEW n \in Nat, NEW len \in Nat, NEW ids, NEW ids2,
           \A j \in 1..len : ids[j].position_id \in Nat /\ ids[j].position_id <= n,
           \A j \in 1..len : ids2[j] = ids[j],
           Len(ids2) = len + 1,
           ids2[len + 1].position_id = n + 1
    PROVE  \A j \in 1..Len(ids2) : ids2[j].position_id <= n + 1
<1> SUFFICES ASSUME NEW j \in 1..Len(ids2) PROVE ids2[j].position_id <= n + 1
  OBVIOUS
<1>1. CASE j = len + 1
  BY <1>1
<1>2. CASE j \in 1..len
  BY <1>2
<1> QED
  BY <1>1, <1>2

\* Process p has read, and will write ps.
LEMMA HoldPositionsHandler ==
    ASSUME BookInv, NEW p \in Processes, NEW ps,
           HoldPositions(p, ps), PositionsEdited(orders, positions, ps),
           \A j \in 1..Len(ps) : ps[j].position_id <= issued',
           issued' = issued \/ issued' = issued + 1
    PROVE  HandlerOK(p)' /\ IdsIssued' /\ UNCHANGED disk
  <1>1. /\ pc'[p] = "write_positions" /\ pdata'[p] = ps
        /\ UNCHANGED <<orders, positions>>
    BY DEF HoldPositions, BookInv, TypeInv, TypeOK
  <1>2. HandlerOK(p)'
    BY <1>1 DEF HandlerOK
  <1>3. /\ issued \in Int
        /\ \A j \in 1..Len(positions) : positions[j].position_id \in Int
    BY PositionIdNat, MaxPositionsAssumption
    DEF BookInv, TypeInv, TypeOK, LedgerTypeOK
  <1>4. IdsIssued'
    BY <1>1, <1>3 DEF BookInv, IdsIssued
  <1> QED
    BY <1>1, <1>2, <1>4 DEF disk

\* Process p has read one open position, and will write it changed.
LEMMA EditPositionHandler ==
    ASSUME BookInv, NEW p \in Processes, NEW i \in 1..Len(positions), NEW pos,
           EditPosition(p, i, pos), ManagedTo(positions[i], pos)
    PROVE  HandlerOK(p)' /\ IdsIssued' /\ UNCHANGED disk
  <1> DEFINE ps == [positions EXCEPT ![i] = pos]
  <1>0. /\ positions \in Seq(Position) /\ positions[i] \in Position
        /\ Len(positions) \in Nat
    BY DEF BookInv, TypeInv, TypeOK, LedgerTypeOK
  <1>1. /\ Len(ps) = Len(positions)
        /\ ps[i] = pos
        /\ \A j \in 1..Len(positions) : j # i => ps[j] = positions[j]
    BY <1>0
  <1>2. Managed(positions, ps)
    BY <1>1 DEF Managed
  <1>3. PositionsEdited(orders, positions, ps)
    BY <1>2 DEF PositionsEdited
  <1>4. pos.position_id = positions[i].position_id
    BY <1>0, ManagedForm
  <1>5. issued' = issued /\ HoldPositions(p, ps)
    BY DEF EditPosition
  <1>6. \A j \in 1..Len(ps) : ps[j].position_id <= issued'
    BY <1>1, <1>4, <1>5 DEF BookInv, IdsIssued
  <1> HIDE DEF ps
  <1> QED
    BY <1>3, <1>5, <1>6, HoldPositionsHandler

LEMMA ForgetHandler ==
    ASSUME BookInv, NEW p \in Processes, Forget(p)
    PROVE  HandlerOK(p)'
  <1>1. pc'[p] = "idle"
    BY DEF Forget, BookInv, TypeInv, TypeOK
  <1> QED
    BY <1>1 DEF HandlerOK

\* The order a handler is filling has no position yet.
LEMMA FillingUnbought ==
    ASSUME BookInv, NEW i \in 1..Len(orders), Active(orders[i])
    PROVE  \A j \in 1..Len(positions) : ~BoughtBy(positions[j], orders[i])
  <1> SUFFICES ASSUME NEW j \in 1..Len(positions),
                      BoughtBy(positions[j], orders[i])
               PROVE  FALSE
    OBVIOUS
  <1>0. orders[i] \in Order
    BY DEF BookInv, TypeInv, TypeOK, LedgerTypeOK
  <1>1. positions[j].source_order_id # NoOrder
    BY <1>0 DEF BoughtBy, Order
  <1>2. PICK k \in 1..Len(orders) : /\ BoughtBy(positions[j], orders[k])
                                    /\ orders[k].status = "filled"
    BY <1>1 DEF BookInv, LedgerInv, FillIsRecorded
  <1>3. k = i
    BY <1>2 DEF BookInv, LedgerInv, UniqueIds, BoughtBy, SameOrder
  <1> QED
    BY <1>2, <1>3 DEF Active

LEMMA BookInit == Init => BookInv
  <1> SUFFICES ASSUME Init PROVE BookInv
    OBVIOUS
  <1>1. LedgerInv
    BY LedgerInvInit DEF Init, LedgerInit
  <1>2. IdsIssued
    BY DEF Init, IdsIssued
  <1>3. \A p \in Processes : HandlerOK(p)
    BY DEF Init, HandlerOK
  <1> QED
    BY <1>1, <1>2, <1>3, TypeInit DEF BookInv

\* Each step of the only handler is an edit of one file, or changes neither.
LEMMA HandlerStep ==
    ASSUME BookInv, NEW p \in Processes,
           Request(p) \/ Handler(p) \/ Abandon(p)
    PROVE  HandlerOK(p)' /\ IdsIssued' /\ [LedgerNext]_disk
  <1>0. /\ orders \in Seq(Order) /\ Len(orders) \in Nat
        /\ \A i \in 1..Len(orders) : orders[i] \in Order
        /\ positions \in Seq(Position) /\ Len(positions) \in Nat
        /\ \A i \in 1..Len(positions) : positions[i] \in Position
        /\ draft[p] \in Order
    BY DEF BookInv, TypeInv, TypeOK, LedgerTypeOK
  <1>1. HandlerOK(p) /\ IdsIssued
    BY DEF BookInv
  <1>2. CASE CreateOrder(p)
    <2> PICK t \in Tickers, q \in Quantities, stop \in Prices \cup {NoPrice},
             kind \in OrderKinds, m \in EntryModes, n \in 1..(Len(orders) + 1) :
          /\ kind = "entry" => ~ActiveEntry(orders, t)
          /\ FirstFreeNumber(orders, t, n)
          /\ draft' = [draft EXCEPT ![p] = NewOrder(t, n, kind, q, stop)]
          /\ mode' = [mode EXCEPT ![p] = m]
          /\ pc' = [pc EXCEPT ![p] = IF kind = "entry" THEN "check_position"
                                                       ELSE "append_order"]
      BY <1>2, Zenon DEF CreateOrder
    <2>1. draft'[p] = NewOrder(t, n, kind, q, stop)
      BY DEF BookInv, TypeInv, TypeOK
    <2>2. \A i \in 1..Len(orders) : orders[i].ticker = t => orders[i].number # n
      BY DEF FirstFreeNumber
    <2>3. Placed(orders, Append(orders, NewOrder(t, n, kind, q, stop)))
      BY <2>2, Zenon DEF Placed
    <2>4. Placed(orders, Append(orders, draft'[p]))
      BY <2>1, <2>3
    <2>5. pc'[p] \in {"check_position", "append_order"}
      BY DEF BookInv, TypeInv, TypeOK
    <2>6. UNCHANGED <<orders, positions, issued>>
      BY <1>2 DEF CreateOrder
    <2>7. HandlerOK(p)'
      BY <2>4, <2>5, <2>6 DEF HandlerOK
    <2> QED
      BY <1>1, <2>6, <2>7 DEF IdsIssued, disk
  <1>3. CASE CheckPosition(p)
    <2>1. UNCHANGED <<orders, positions, issued>>
      BY <1>3 DEF CheckPosition
    <2>2. CASE Forget(p)
      BY <1>1, <2>1, <2>2, ForgetHandler DEF IdsIssued, disk
    <2>3. CASE pc' = [pc EXCEPT ![p] = "append_order"] /\ UNCHANGED draft
      <3>1. pc[p] = "check_position" /\ pc'[p] = "append_order"
        BY <1>3, <2>3 DEF CheckPosition, BookInv, TypeInv, TypeOK
      <3>2. HandlerOK(p)'
        BY <1>1, <2>1, <2>3, <3>1 DEF HandlerOK
      <3> QED
        BY <1>1, <2>1, <3>2 DEF IdsIssued, disk
    <2> QED
      BY <1>3, <2>2, <2>3 DEF CheckPosition
  <1>4. CASE AppendOrder(p)
    <2>1. OrdersEdited(orders, Append(orders, draft[p]))
      BY <1>1, <1>4 DEF AppendOrder, HandlerOK, OrdersEdited
    <2> QED
      BY <1>4, <2>1, HoldOrdersHandler DEF AppendOrder
  <1>5. CASE SubmitOrder(p)
    <2> PICK i \in 1..Len(orders) :
          /\ orders[i].status = "pending"
          /\ HoldOrders(p, [orders EXCEPT ![i] = [@ EXCEPT !.status = "submitted"]],
                        "write_orders")
      BY <1>5 DEF SubmitOrder
    <2>1. OrdersEdited(orders,
              [orders EXCEPT ![i] = [@ EXCEPT !.status = "submitted"]])
      BY DEF OrdersEdited, Submitted
    <2> QED
      BY <2>1, HoldOrdersHandler
  <1>6. CASE CancelOrder(p)
    <2> PICK i \in 1..Len(orders) :
          /\ Active(orders[i])
          /\ HoldOrders(p, [orders EXCEPT ![i] = [@ EXCEPT !.status = "cancelled"]],
                        "write_orders")
      BY <1>6 DEF CancelOrder
    <2>1. OrdersEdited(orders,
              [orders EXCEPT ![i] = [@ EXCEPT !.status = "cancelled"]])
      BY DEF OrdersEdited, Cancelled
    <2> QED
      BY <2>1, HoldOrdersHandler
  <1>7. CASE FillOrder(p)
    <2> PICK i \in 1..Len(orders), price \in Prices,
             override \in Prices \cup {NoPrice} :
          LET stop == IF override # NoPrice THEN override
                                            ELSE orders[i].stop_price
          IN  /\ Active(orders[i])
              /\ draft' = [draft EXCEPT ![p] = FilledOrder(orders[i], price, stop)]
      BY <1>7 DEF FillOrder
    <2> DEFINE stop == IF override # NoPrice THEN override
                                             ELSE orders[i].stop_price
    <2>0. draft'[p] = FilledOrder(orders[i], price, stop)
      BY DEF BookInv, TypeInv, TypeOK
    <2> HIDE DEF stop
    <2>1. /\ FilledOrder(orders[i], price, stop).entry_price = price
          /\ FilledOrder(orders[i], price, stop).stop_price = stop
      BY <1>0 DEF FilledOrder, Order
    <2>2. draft'[p] = FilledOrder(orders[i], draft'[p].entry_price,
                                             draft'[p].stop_price)
      BY <2>0, <2>1
    <2>3. /\ pc'[p] = "fill_update"
          /\ UNCHANGED <<orders, positions, issued>>
      BY <1>7 DEF FillOrder, BookInv, TypeInv, TypeOK
    <2>4. HandlerOK(p)'
      BY <2>2, <2>3 DEF HandlerOK, Filling
    <2> QED
      BY <1>1, <2>3, <2>4 DEF IdsIssued, disk
  <1>8. CASE FillUpdate(p)
    <2>0. pc[p] = "fill_update"
      BY <1>8 DEF FillUpdate
    <2>1. PICK i \in 1..Len(orders) : Filling(p, i)
      BY <1>1, <2>0 DEF HandlerOK
    <2>2. SameOrder(orders[i], draft[p])
      BY <1>0, <2>1 DEF Filling, FilledOrder, SameOrder, Order
    <2>3. PICK k \in 1..Len(orders) :
            /\ SameOrder(orders[k], draft[p])
            /\ HoldOrders(p, [orders EXCEPT ![k] =
                                 FilledOrder(@, draft[p].entry_price,
                                                draft[p].stop_price)],
                          "fill_write")
            /\ UNCHANGED draft
      BY <1>8, <2>2 DEF FillUpdate
    <2>4. k = i
      BY <2>2, <2>3 DEF BookInv, LedgerInv, UniqueIds, SameOrder
    <2>5. HoldOrders(p, [orders EXCEPT ![i] = draft[p]], "fill_write")
      BY <2>1, <2>3, <2>4 DEF Filling
    <2>6. /\ pc'[p] = "fill_write"
          /\ odata'[p] = [orders EXCEPT ![i] = draft[p]]
          /\ UNCHANGED <<orders, positions, issued>>
      BY <2>5 DEF HoldOrders, BookInv, TypeInv, TypeOK
    <2>7. HandlerOK(p)'
      BY <2>1, <2>3, <2>6 DEF HandlerOK, Filling
    <2> QED
      BY <1>1, <2>6, <2>7 DEF IdsIssued, disk
  <1>9. CASE FillWrite(p)
    <2>0. pc[p] = "fill_write"
      BY <1>9 DEF FillWrite
    <2>1. PICK i \in 1..Len(orders) :
            Filling(p, i) /\ odata[p] = [orders EXCEPT ![i] = draft[p]]
      BY <1>1, <2>0 DEF HandlerOK
    <2>2. /\ pc'[p] = "fill_open"
          /\ orders' = [orders EXCEPT ![i] = draft[p]]
          /\ UNCHANGED <<positions, issued, draft>>
      BY <1>9, <2>1 DEF FillWrite, BookInv, TypeInv, TypeOK
    <2>3. /\ draft[p].entry_price \in Prices
          /\ draft[p].stop_price \in Prices
          /\ draft[p].stop_price < draft[p].entry_price
      BY <2>0 DEF BookInv, TypeInv, FillDraft
    <2>4. orders' = [orders EXCEPT ![i] = FilledOrder(@, draft[p].entry_price,
                                                         draft[p].stop_price)]
      BY <2>1, <2>2 DEF Filling
    <2>5. Filled(orders, orders')
      BY <2>1, <2>3, <2>4 DEF Filled, Filling
    <2>6. SameOrder(orders[i], draft[p])
      BY <1>0, <2>1 DEF Filling, FilledOrder, SameOrder, Order
    <2>7. \A j \in 1..Len(positions) : ~BoughtBy(positions[j], draft[p])
      BY <2>1, <2>6, FillingUnbought DEF Filling, BoughtBy, SameOrder
    <2>8. i \in 1..Len(orders') /\ orders'[i] = draft[p]
      BY <1>0, <2>2
    <2>9. HandlerOK(p)'
      BY <2>2, <2>7, <2>8 DEF HandlerOK
    <2> QED
      BY <1>1, <2>2, <2>5, <2>9 DEF IdsIssued, LedgerNext, OrdersEdited
  <1>10. CASE FillOpen(p)
    <2> DEFINE pos == NewPosition(issued + 1, draft[p].ticker,
                         draft[p].entry_price, draft[p].stop_price,
                         draft[p].quantity, draft[p].number)
               ps == Append(positions, pos)
    <2>0. pc[p] = "fill_open" /\ issued < MaxPositions /\ issued' = issued + 1
      BY <1>10 DEF FillOpen
    <2>1. PICK i \in 1..Len(orders) :
            /\ orders[i] = draft[p]
            /\ \A j \in 1..Len(positions) : ~BoughtBy(positions[j], orders[i])
      BY <1>1, <2>0 DEF HandlerOK
    <2>2. issued \in Nat /\ issued + 1 \in PositionIds
      BY <2>0, MaxPositionsAssumption
      DEF BookInv, TypeInv, TypeOK, PositionIds
    <2>3. \A j \in 1..Len(positions) : positions[j].position_id \in Nat
      BY <1>0, PositionIdNat
    <2>4. FreshId(positions, issued + 1)
      BY <1>1, <2>2, <2>3 DEF FreshId, IdsIssued
    <2>5. draft[p].status = "filled"
      BY <2>0 DEF BookInv, TypeInv, FillDraft
    <2>6. Opened(orders, positions, ps)
      BY <2>1, <2>2, <2>4, <2>5 DEF Opened
    <2>7. pos.position_id = issued + 1
      BY DEF NewPosition
    <2> HIDE DEF pos
    <2>8. /\ Len(ps) = Len(positions) + 1
          /\ ps[Len(positions) + 1] = pos
          /\ \A j \in 1..Len(positions) : ps[j] = positions[j]
      BY <1>0
    <2> HIDE DEF ps
    <2>9. \A j \in 1..Len(ps) : ps[j].position_id <= issued'
      <3>1. \A j \in 1..Len(positions) :
              positions[j].position_id \in Nat /\ positions[j].position_id <= issued
        BY <1>1, <2>3 DEF IdsIssued
      <3>2. ps[Len(positions) + 1].position_id = issued + 1
        BY <2>0, <2>7, <2>8
      <3>3. issued \in Nat /\ Len(positions) \in Nat
        BY <1>0, <2>2
      <3> QED
        BY <2>0, <2>8, <3>1, <3>2, <3>3, AppendedIdIssued
    <2>10. HoldPositions(p, ps)
      BY <1>10, <2>0 DEF FillOpen, ps, pos
    <2>11. PositionsEdited(orders, positions, ps)
      BY <2>6 DEF PositionsEdited
    <2> QED
      BY <2>0, <2>9, <2>10, <2>11, HoldPositionsHandler
  <1>11. CASE WriteOrders(p)
    <2>1. OrdersEdited(orders, orders')
      BY <1>1, <1>11 DEF WriteOrders, HandlerOK
    <2>2. Forget(p) /\ UNCHANGED <<positions, issued>>
      BY <1>11 DEF WriteOrders
    <2> QED
      BY <1>1, <2>1, <2>2, ForgetHandler DEF IdsIssued, LedgerNext
  <1>12. CASE CreatePosition(p)
    <2> PICK t \in Tickers, n \in Quantities, entry \in Prices, stop \in Prices :
          /\ stop < entry
          /\ HoldPositions(p, Append(positions,
                 NewPosition(issued', t, entry, stop, n, NoOrder)))
      BY <1>12 DEF CreatePosition
    <2> DEFINE pos == NewPosition(issued', t, entry, stop, n, NoOrder)
               ps == Append(positions, pos)
    <2>0. issued < MaxPositions /\ issued' = issued + 1
      BY <1>12 DEF CreatePosition
    <2>1. issued \in Nat /\ issued' \in PositionIds
      BY <2>0, MaxPositionsAssumption
      DEF BookInv, TypeInv, TypeOK, PositionIds
    <2>2. \A j \in 1..Len(positions) : positions[j].position_id \in Nat
      BY <1>0, PositionIdNat
    <2>3. FreshId(positions, issued')
      BY <1>1, <2>0, <2>1, <2>2 DEF FreshId, IdsIssued
    <2>4. Registered(positions, ps)
      BY <2>1, <2>3, Zenon DEF Registered, FreshId
    <2>5. pos.position_id = issued'
      BY DEF NewPosition
    <2>6. HoldPositions(p, ps)
      OBVIOUS
    <2> HIDE DEF pos
    <2>7. /\ Len(ps) = Len(positions) + 1
          /\ ps[Len(positions) + 1] = pos
          /\ \A j \in 1..Len(positions) : ps[j] = positions[j]
      BY <1>0
    <2> HIDE DEF ps
    <2>8. \A j \in 1..Len(ps) : ps[j].position_id <= issued'
      <3>1. \A j \in 1..Len(positions) :
              positions[j].position_id \in Nat /\ positions[j].position_id <= issued
        BY <1>1, <2>2 DEF IdsIssued
      <3>2. ps[Len(positions) + 1].position_id = issued + 1
        BY <2>0, <2>5, <2>7
      <3>3. issued \in Nat /\ Len(positions) \in Nat
        BY <1>0, <2>1
      <3> QED
        BY <2>0, <2>7, <3>1, <3>2, <3>3, AppendedIdIssued
    <2>9. PositionsEdited(orders, positions, ps)
      BY <2>4 DEF PositionsEdited
    <2> QED
      BY <2>0, <2>8, <2>6, <2>9, HoldPositionsHandler
  <1>13. CASE UpdatePositionStop(p)
    <2> PICK i \in 1..Len(positions), s \in Prices :
          /\ RoundPrice(s) > RoundPrice(positions[i].stop_price)
          /\ EditPosition(p, i, StopAt(positions[i], RoundPrice(s)))
      BY <1>13 DEF UpdatePositionStop
    <2>1. s \in Nat /\ positions[i].stop_price \in Nat
      BY <1>0, PricesAssumption DEF Position
    <2>2. RoundPrice(s) > positions[i].stop_price
      BY <2>1, RoundedRaise
    <2>3. positions[i].status = "open"
      BY DEF EditPosition
    <2>4. ManagedTo(positions[i], StopAt(positions[i], RoundPrice(s)))
      BY <2>2, <2>3 DEF ManagedTo
    <2> QED
      BY <2>4, EditPositionHandler
  <1>14. CASE ClosePosition(p)
    <2> PICK i \in 1..Len(positions), price \in Prices :
          EditPosition(p, i, ClosedAt(positions[i], price))
      BY <1>14 DEF ClosePosition
    <2>1. ManagedTo(positions[i], ClosedAt(positions[i], price))
      BY DEF ManagedTo, EditPosition
    <2> QED
      BY <2>1, EditPositionHandler
  <1>15. CASE PartialClosePosition(p)
    <2> PICK i \in 1..Len(positions), n \in Quantities, price \in Prices :
          /\ n < positions[i].shares
          /\ EditPosition(p, i, PartClosedAt(positions[i], n, price))
      BY <1>15 DEF PartialClosePosition
    <2>1. ManagedTo(positions[i], PartClosedAt(positions[i], n, price))
      BY DEF ManagedTo, EditPosition
    <2> QED
      BY <2>1, EditPositionHandler
  <1>16. CASE UpdateTrailMethod(p)
    <2> PICK i \in 1..Len(positions), m \in TrailMethods :
          EditPosition(p, i, TrailedBy(positions[i], m))
      BY <1>16 DEF UpdateTrailMethod
    <2>1. ManagedTo(positions[i], TrailedBy(positions[i], m))
      BY DEF ManagedTo, EditPosition
    <2> QED
      BY <2>1, EditPositionHandler
  <1>17. CASE WritePositions(p)
    <2>1. /\ PositionsEdited(orders, positions, positions')
          /\ \A j \in 1..Len(positions') : positions'[j].position_id <= issued
      BY <1>1, <1>17 DEF WritePositions, HandlerOK
    <2>2. Forget(p) /\ UNCHANGED <<orders, issued>>
      BY <1>17 DEF WritePositions
    <2> QED
      BY <2>1, <2>2, ForgetHandler DEF IdsIssued, LedgerNext
  <1>18. CASE Abandon(p)
    BY <1>1, <1>18, ForgetHandler DEF Abandon, IdsIssued, disk
  <1> QED
    BY <1>2, <1>3, <1>4, <1>5, <1>6, <1>7, <1>8, <1>9, <1>10, <1>11,
       <1>12, <1>13, <1>14, <1>15, <1>16, <1>17, <1>18
    DEF Request, Handler

LEMMA BookStep ==
    ASSUME SingleProcess, BookInv, [Next]_vars
    PROVE  BookInv' /\ [LedgerNext]_disk
  <1>1. TypeInv'
    BY TypeStep DEF BookInv
  <1>2. CASE UNCHANGED vars
    <2>1. UNCHANGED disk
      BY <1>2 DEF vars, disk
    <2>2. LedgerInv'
      BY <2>1, LedgerInvUnchanged DEF BookInv
    <2>3. IdsIssued' /\ \A p \in Processes : HandlerOK(p)'
      BY <1>2 DEF vars, BookInv, IdsIssued, HandlerOK, Filling
    <2> QED
      BY <1>1, <2>1, <2>2, <2>3 DEF BookInv
  <1>3. ASSUME NEW p \in Processes,
               Request(p) \/ Handler(p) \/ Abandon(p)
        PROVE  BookInv' /\ [LedgerNext]_disk
    <2>1. HandlerOK(p)' /\ IdsIssued' /\ [LedgerNext]_disk
      BY <1>3, HandlerStep
    <2>2. LedgerInv'
      BY <2>1, LedgerInvStep DEF BookInv
    <2>3. \A q \in Processes : q = p
      BY DEF SingleProcess
    <2>4. \A q \in Processes : HandlerOK(q)'
      BY <2>1, <2>3
    <2> QED
      BY <1>1, <2>1, <2>2, <2>4 DEF BookInv
  <1> QED
    BY <1>2, <1>3 DEF Next

\* A single server process, whose handlers may die between any two accesses to
\* the files, makes exactly the edits the ledger allows, one at a time.
THEOREM Implements ==
    ASSUME SingleProcess
    PROVE  Spec => LedgerSpec
  <1>1. Init => BookInv /\ LedgerInit
    BY BookInit DEF Init, LedgerInit
  <1>2. BookInv /\ [Next]_vars => BookInv' /\ [LedgerNext]_disk
    BY BookStep
  <1> QED
    BY <1>1, <1>2, PTL DEF Spec, LedgerSpec

\* In one process no sequence of requests and crashes buys an order twice.
THEOREM BuysOnce ==
    ASSUME SingleProcess
    PROVE  Spec => []NoDoubleFill
  <1>1. LedgerInv => NoDoubleFill
    BY DEF LedgerInv
  <1> QED
    BY <1>1, Implements, LedgerSafe, PTL

\* A position's order is on file and filled at the position's price, although
\* the two files are written apart and the handler may die between the writes.
THEOREM FillsRecorded ==
    ASSUME SingleProcess
    PROVE  Spec => []FillIsRecorded
  <1>1. LedgerInv => FillIsRecorded
    BY DEF LedgerInv
  <1> QED
    BY <1>1, Implements, LedgerSafe, PTL

\* The duplicate check of create_order is enough in one process: a ticker never
\* has two entry orders waiting.
THEOREM EntriesAlone ==
    ASSUME SingleProcess
    PROVE  Spec => []OneActiveEntry
  <1>1. LedgerInv => OneActiveEntry
    BY DEF LedgerInv
  <1> QED
    BY <1>1, Implements, LedgerSafe, PTL

\* Generated ids never collide, so the loops that take the first match take the
\* only one.
THEOREM IdsUnique ==
    ASSUME SingleProcess
    PROVE  Spec => []UniqueIds
  <1>1. LedgerInv => UniqueIds
    BY DEF LedgerInv
  <1> QED
    BY <1>1, Implements, LedgerSafe, PTL

\* Whatever is requested, sold in parts and retried, and wherever handlers die, the
\* shares of a position that a fill opened and those of its partial_closes are what the
\* order bought.
THEOREM SharesKept ==
    ASSUME SingleProcess
    PROVE  Spec => []SharesConserved
  BY Implements, LedgerSharesConserved, PTL

\* No request, retry or crash lowers a stop or edits a closed position.
THEOREM StopsOnlyRise ==
    ASSUME SingleProcess
    PROVE  Spec => StopsRatchet
  BY Implements, LedgerStopsRatchet

\* No request, retry or crash takes an order back or loses it.
THEOREM OrdersOnlyAdvance ==
    ASSUME SingleProcess
    PROVE  Spec => OrdersAdvance
  BY Implements, LedgerOrdersAdvance

-----------------------------------------------------------------------------
(* The browser's book                                                        *)

LocalOrder == [ticker : Tickers, kind : {"entry", "stop"},
               status : {"pending", "filled", "cancelled"}, quantity : Nat \ {0},
               stop : Nat, price : Nat, position : Nat]

LocalPosition == [ticker : Tickers, status : {"open", "closed"},
                  cost : Nat, shares : Nat \ {0}, stop : Nat]

LocalType == lOrders \in Seq(LocalOrder) /\ lPositions \in Seq(LocalPosition)

\* An order names a position there is, or, being no stop order, none yet.
Named ==
    \A i \in 1..Len(lOrders) :
        /\ lOrders[i].position \in 0..Len(lPositions)
        /\ lOrders[i].kind = "stop" => lOrders[i].position # 0

\* The sums that BoughtIsHeld speaks of.
SharesOf(os, E) == SumFunction([i \in E |-> os[i].quantity])
CostOf(os, E) == SumFunction([i \in E |-> os[i].quantity * os[i].price])

Buys(o, p) == o.position = p /\ o.kind = "entry" /\ o.status = "filled"

Entries(os, p) == {i \in 1..Len(os) : Buys(os[i], p)}

Held(os, ps, p) ==
    ps[p].shares = SharesOf(os, Entries(os, p)) /\ ps[p].cost = CostOf(os, Entries(os, p))

\* StopsCover, in two parts.
Waits(os, ps, i) ==
    os[i].kind = "stop" /\ os[i].status = "pending" /\ ps[os[i].position].status = "open"

Covers(os, ps) ==
    \A i \in 1..Len(os) : Waits(os, ps, i) =>
        os[i].quantity = ps[os[i].position].shares /\ os[i].stop = ps[os[i].position].stop

Alone(os, ps) ==
    \A i, j \in 1..Len(os) :
        Waits(os, ps, i) /\ Waits(os, ps, j) /\ os[i].position = os[j].position => i = j

LocalInv ==
    /\ LocalType /\ Named
    /\ \A p \in 1..Len(lPositions) : Held(lOrders, lPositions, p)
    /\ Covers(lOrders, lPositions) /\ Alone(lOrders, lPositions)

LEMMA LocalInvAgrees == LocalInv <=> LocalType /\ Named /\ LocalBookAgrees
  <1>1. (\A p \in 1..Len(lPositions) : Held(lOrders, lPositions, p))
            <=> Local!BoughtIsHeld
    BY DEF Held, SharesOf, CostOf, Entries, Buys, Local!BoughtIsHeld, Local!EntriesOf,
           Local!SumFunction, Local!SumFunctionOnSet, Local!FoldFunctionOnSet,
           Local!MapThenFoldSet, SumFunction, SumFunctionOnSet, FoldFunctionOnSet,
           MapThenFoldSet
  <1>2. Covers(lOrders, lPositions) /\ Alone(lOrders, lPositions) <=> Local!StopsCover
    BY DEF Covers, Alone, Waits, Local!StopsCover
  <1> QED
    BY <1>1, <1>2 DEF LocalInv, LocalBookAgrees

\* Orders that agree on the entries have the same sums.
LEMMA SumsKept ==
    ASSUME NEW os, NEW os2, NEW p, Entries(os2, p) = Entries(os, p),
           \A i \in Entries(os, p) :
               os2[i].quantity = os[i].quantity /\ os2[i].price = os[i].price
    PROVE  /\ SharesOf(os2, Entries(os2, p)) = SharesOf(os, Entries(os, p))
           /\ CostOf(os2, Entries(os2, p)) = CostOf(os, Entries(os, p))
  <1> DEFINE E == Entries(os, p)
  <1>1. [i \in E |-> os2[i].quantity] = [i \in E |-> os[i].quantity]
    OBVIOUS
  <1>2. [i \in E |-> os2[i].quantity * os2[i].price] =
        [i \in E |-> os[i].quantity * os[i].price]
    OBVIOUS
  <1> QED
    BY <1>1, <1>2 DEF SharesOf, CostOf

\* One more entry.
LEMMA EntryAdded ==
    ASSUME NEW os \in Seq(LocalOrder), NEW os2 \in Seq(LocalOrder), NEW p,
           NEW x \in 1..Len(os2), x \notin Entries(os, p),
           Entries(os2, p) = Entries(os, p) \cup {x},
           \A i \in Entries(os, p) : os2[i] = os[i]
    PROVE  /\ SharesOf(os2, Entries(os2, p)) =
                  os2[x].quantity + SharesOf(os, Entries(os, p))
           /\ CostOf(os2, Entries(os2, p)) =
                  os2[x].quantity * os2[x].price + CostOf(os, Entries(os, p))
  <1> DEFINE E == Entries(os, p)
             fs == [i \in E \cup {x} |-> os2[i].quantity]
             gs == [i \in E |-> os[i].quantity]
             fc == [i \in E \cup {x} |-> os2[i].quantity * os2[i].price]
             gc == [i \in E |-> os[i].quantity * os[i].price]
  <1>1. E \subseteq 1..Len(os) /\ Len(os) \in Nat
    BY DEF Entries
  <1>2. IsFiniteSet(E)
    <2>1. IsFiniteSet(1..Len(os))
      BY <1>1, FS_Interval
    <2> QED
      BY <1>1, <2>1, FS_Subset
  <1>3. \A i \in E : os[i] \in LocalOrder
    BY <1>1
  <1>4. \A i \in E \cup {x} : os2[i] \in LocalOrder
    BY <1>3
  <1>5. \A a, b \in Nat : a * b \in Nat
    OBVIOUS
  <1>6. fs \in Counts(E \cup {x}) /\ gs \in Counts(E)
    BY <1>3, <1>4 DEF LocalOrder, Counts
  <1>7. fc \in Counts(E \cup {x}) /\ gc \in Counts(E)
    BY <1>3, <1>4, <1>5 DEF LocalOrder, Counts
  <1>8. \A i \in E : fs[i] = gs[i] /\ fc[i] = gc[i]
    OBVIOUS
  <1>9. fs[x] = os2[x].quantity /\ fc[x] = os2[x].quantity * os2[x].price
    OBVIOUS
  <1>10. /\ SharesOf(os2, Entries(os2, p)) = SumFunction(fs)
         /\ CostOf(os2, Entries(os2, p)) = SumFunction(fc)
         /\ SharesOf(os, E) = SumFunction(gs) /\ CostOf(os, E) = SumFunction(gc)
    BY DEF SharesOf, CostOf
  <1>11. x \notin E
    OBVIOUS
  <1> HIDE DEF E, fs, gs, fc, gc
  <1>13. SumFunction(fs) = fs[x] + SumFunction(gs)
    BY <1>2, <1>6, <1>8, <1>11, SumAdded
  <1>14. SumFunction(fc) = fc[x] + SumFunction(gc)
    BY <1>2, <1>7, <1>8, <1>11, SumAdded
  <1> QED
    BY <1>9, <1>10, <1>13, <1>14 DEF E

\* Orders that are as they were in what an entry of the position is.
SameBuys(os, os2, p) ==
    /\ Len(os) <= Len(os2)
    /\ \A i \in 1..Len(os) :
           /\ Buys(os2[i], p) <=> Buys(os[i], p)
           /\ Buys(os[i], p) => os2[i].quantity = os[i].quantity
                                /\ os2[i].price = os[i].price
    /\ \A i \in 1..Len(os2) : i > Len(os) => ~Buys(os2[i], p)

\* They buy what they bought.
LEMMA HeldKept ==
    ASSUME NEW os \in Seq(LocalOrder), NEW os2 \in Seq(LocalOrder), NEW ps, NEW ps2, NEW p,
           Held(os, ps, p), SameBuys(os, os2, p),
           ps2[p].shares = ps[p].shares, ps2[p].cost = ps[p].cost
    PROVE  Held(os2, ps2, p)
  <1> USE DEF SameBuys
  <1>1. Len(os) \in Nat /\ Len(os2) \in Nat
    OBVIOUS
  <1>2. Entries(os2, p) = Entries(os, p)
    BY <1>1 DEF Entries
  <1>3. \A i \in Entries(os, p) :
            os2[i].quantity = os[i].quantity /\ os2[i].price = os[i].price
    BY DEF Entries
  <1> QED
    BY <1>2, <1>3, SumsKept DEF Held

\* One order more buys: the position has as much more.
LEMMA HeldAdded ==
    ASSUME NEW os \in Seq(LocalOrder), NEW os2 \in Seq(LocalOrder), NEW ps, NEW ps2, NEW p,
           NEW x \in 1..Len(os), Held(os, ps, p), Len(os) <= Len(os2),
           ~Buys(os[x], p), Buys(os2[x], p),
           ps2[p].shares = os2[x].quantity + ps[p].shares,
           ps2[p].cost = os2[x].quantity * os2[x].price + ps[p].cost,
           \A i \in 1..Len(os) \ {x} :
               /\ Buys(os2[i], p) <=> Buys(os[i], p)
               /\ Buys(os[i], p) => os2[i] = os[i],
           \A i \in 1..Len(os2) : i > Len(os) => ~Buys(os2[i], p)
    PROVE  Held(os2, ps2, p)
  <1>1. Len(os) \in Nat /\ Len(os2) \in Nat
    OBVIOUS
  <1>2. x \in 1..Len(os2)
    BY <1>1
  <1>3. Entries(os2, p) = Entries(os, p) \cup {x}
    BY <1>1 DEF Entries
  <1>4. x \notin Entries(os, p)
    BY DEF Entries
  <1>5. \A i \in Entries(os, p) : os2[i] = os[i]
    BY <1>4 DEF Entries
  <1>6. /\ SharesOf(os2, Entries(os2, p)) = os2[x].quantity + SharesOf(os, Entries(os, p))
        /\ CostOf(os2, Entries(os2, p)) =
               os2[x].quantity * os2[x].price + CostOf(os, Entries(os, p))
    BY <1>2, <1>3, <1>4, <1>5, EntryAdded
  <1> QED
    BY <1>6 DEF Held

\* The first entry of a position.
LEMMA NothingHeld ==
    ASSUME NEW os, NEW p, \A i \in 1..Len(os) : ~Buys(os[i], p)
    PROVE  SharesOf(os, Entries(os, p)) = 0 /\ CostOf(os, Entries(os, p)) = 0
  <1>1. Entries(os, p) = {}
    BY DEF Entries
  <1>2. \A f : DOMAIN f = {} => SumFunction(f) = 0
    BY SumEmpty DEF SumFunction
  <1>3. /\ DOMAIN [i \in {} |-> os[i].quantity] = {}
        /\ DOMAIN [i \in {} |-> os[i].quantity * os[i].price] = {}
    OBVIOUS
  <1>4. /\ SumFunction([i \in {} |-> os[i].quantity]) = 0
        /\ SumFunction([i \in {} |-> os[i].quantity * os[i].price]) = 0
    BY <1>2, <1>3
  <1> QED
    BY <1>1, <1>4 DEF SharesOf, CostOf

\* The position a fill finds.
LEMMA OpenFound ==
    ASSUME LocalType, NEW t, Local!OpenOf(t) # {}
    PROVE  /\ Local!Min(Local!OpenOf(t)) \in 1..Len(lPositions)
           /\ lPositions[Local!Min(Local!OpenOf(t))].ticker = t
           /\ lPositions[Local!Min(Local!OpenOf(t))].status = "open"
  <1> DEFINE S == Local!OpenOf(t)
  <1>1. Len(lPositions) \in Nat
    BY DEF LocalType
  <1>2. S \subseteq 1..Len(lPositions)
    BY DEF Local!OpenOf
  <1>3. IsFiniteSet(S)
    <2>1. IsFiniteSet(1..Len(lPositions))
      BY <1>1, FS_Interval
    <2> HIDE DEF S
    <2> QED
      BY <1>2, <2>1, FS_Subset
  <1>4. \E x \in S : \A y \in S : x <= y
    <2>1. S \subseteq Nat
      BY <1>1, <1>2
    <2> HIDE DEF S
    <2> QED
      BY <1>3, <2>1, LeastNatural DEF S
  <1>5. Local!Min(S) \in S
    <2> HIDE DEF S
    <2> QED
      BY <1>4 DEF Local!Min
  <1> QED
    BY <1>2, <1>5 DEF Local!OpenOf

LEMMA LocalInit == Local!Init => LocalInv
  BY DEF Local!Init, LocalInv, LocalType, Named, Covers, Alone, Waits

\* What the steps below use of the lists.
LEMMA LocalTyped ==
    ASSUME LocalInv
    PROVE  /\ lOrders \in Seq(LocalOrder) /\ lPositions \in Seq(LocalPosition)
           /\ Len(lOrders) \in Nat /\ Len(lPositions) \in Nat
           /\ \A i \in 1..Len(lOrders) : lOrders[i] \in LocalOrder
           /\ \A p \in 1..Len(lPositions) : lPositions[p] \in LocalPosition
           /\ LocalPrices \subseteq Nat \ {0} /\ LocalQuantities \subseteq Nat \ {0}
  BY LocalAssumption DEF LocalInv, LocalType

\* One element of a list is set.
LEMMA SetInList ==
    ASSUME NEW S, NEW s \in Seq(S), NEW k \in 1..Len(s), NEW o \in S
    PROVE  /\ [s EXCEPT ![k] = o] \in Seq(S)
           /\ Len([s EXCEPT ![k] = o]) = Len(s)
           /\ [s EXCEPT ![k] = o][k] = o
           /\ \A j \in 1..Len(s) \ {k} : [s EXCEPT ![k] = o][j] = s[j]
  OBVIOUS

\* createOrderLocal: a pending entry buys nothing and is no stop order.
LEMMA CreateOrderKeeps ==
    ASSUME LocalInv, NEW t \in Tickers, Local!CreateOrder(t)
    PROVE  LocalInv'
  <1> USE LocalTyped DEF LocalInv
  <1>1. PICK o : /\ lOrders' = Append(lOrders, o) /\ lPositions' = lPositions
                 /\ o \in LocalOrder /\ o.kind = "entry" /\ o.status = "pending"
                 /\ o.position \in 0..Len(lPositions)
    <2>1. PICK m \in {"NEW_ENTRY", "ADD_ON"}, q \in LocalQuantities, stop \in LocalPrices :
              /\ m = "ADD_ON" <=> Local!OpenOf(t) # {}
              /\ lOrders' = Append(lOrders,
                     [ticker |-> t, kind |-> "entry", status |-> "pending",
                      quantity |-> q, stop |-> stop, price |-> Local!NoPrice,
                      position |-> IF m = "ADD_ON" THEN Local!Min(Local!OpenOf(t))
                                   ELSE Local!NoPosition])
      BY DEF Local!CreateOrder
    <2>2. m = "ADD_ON" => Local!Min(Local!OpenOf(t)) \in 1..Len(lPositions)
      BY <2>1, OpenFound
    <2> DEFINE w == IF m = "ADD_ON" THEN Local!Min(Local!OpenOf(t)) ELSE Local!NoPosition
    <2>3. w \in 0..Len(lPositions) /\ w \in Nat
      BY <2>2 DEF Local!NoPosition
    <2>4. lPositions' = lPositions
      BY DEF Local!CreateOrder
    <2>5. q \in Nat \ {0} /\ stop \in Nat /\ Local!NoPrice \in Nat
      BY DEF Local!NoPrice
    <2> HIDE DEF w
    <2> DEFINE o == [ticker |-> t, kind |-> "entry", status |-> "pending",
                     quantity |-> q, stop |-> stop, price |-> Local!NoPrice, position |-> w]
    <2>6. o \in LocalOrder
      BY <2>3, <2>5 DEF LocalOrder
    <2>7. lOrders' = Append(lOrders, o)
      BY <2>1 DEF w
    <2> QED
      BY <2>3, <2>4, <2>6, <2>7
  <1>2. LocalType'
    BY <1>1 DEF LocalType
  <1>3. /\ Len(lOrders') = Len(lOrders) + 1 /\ lOrders'[Len(lOrders) + 1] = o
        /\ \A i \in 1..Len(lOrders) : lOrders'[i] = lOrders[i]
    BY <1>1
  <1>4. Named'
    BY <1>1, <1>3 DEF Named
  <1>5. ASSUME NEW p \in 1..Len(lPositions)
        PROVE  Held(lOrders', lPositions', p)
    <2>1. lOrders' \in Seq(LocalOrder) /\ Held(lOrders, lPositions, p)
      BY <1>1
    <2>2. \A i \in 1..Len(lOrders') : i > Len(lOrders) => ~Buys(lOrders'[i], p)
      BY <1>1, <1>3 DEF Buys
    <2>3. \A i \in 1..Len(lOrders) :
              /\ Buys(lOrders'[i], p) <=> Buys(lOrders[i], p)
              /\ Buys(lOrders[i], p) => lOrders'[i].quantity = lOrders[i].quantity
                                       /\ lOrders'[i].price = lOrders[i].price
      BY <1>3
    <2>4. Len(lOrders) <= Len(lOrders')
      BY <1>3
    <2>10. SameBuys(lOrders, lOrders', p)
      BY <1>1, <2>1, <2>2, <2>3, <2>4 DEF SameBuys
    <2> QED
      BY <1>1, <2>1, <2>10, HeldKept
  <1>6. \A i \in 1..Len(lOrders') :
            Waits(lOrders', lPositions', i) =>
                i \in 1..Len(lOrders) /\ Waits(lOrders, lPositions, i)
    BY <1>1, <1>3 DEF Waits
  <1>7. Covers(lOrders', lPositions')
    BY <1>1, <1>3, <1>6 DEF Covers
  <1>8. Alone(lOrders', lPositions')
    BY <1>1, <1>3, <1>6, SMTT(40) DEF Alone
  <1> QED
    BY <1>1, <1>2, <1>4, <1>5, <1>7, <1>8

\* fillOrderLocal of a stop order, and cancelOrderLocal: the order waits no longer,
\* and buys nothing.
LEMMA OrderDoneKeeps ==
    ASSUME LocalInv, NEW i \in 1..Len(lOrders), NEW status \in {"filled", "cancelled"},
           NEW price \in Nat, lOrders[i].status = "pending",
           lOrders[i].kind = "stop" \/ status = "cancelled",
           lOrders' = [lOrders EXCEPT ![i].status = status, ![i].price = price],
           lPositions' = lPositions
    PROVE  LocalInv'
  <1> USE LocalTyped DEF LocalInv
  <1> DEFINE o == [lOrders[i] EXCEPT !.status = status, !.price = price]
  <1>1. /\ o \in LocalOrder /\ o.status = status /\ o.kind = lOrders[i].kind
        /\ o.position = lOrders[i].position
    BY DEF LocalOrder
  <1>2. /\ Len(lOrders') = Len(lOrders) /\ lOrders'[i] = o
        /\ \A j \in 1..Len(lOrders) \ {i} : lOrders'[j] = lOrders[j]
        /\ lOrders' \in Seq(LocalOrder)
    <2> HIDE DEF o
    <2>1. lOrders' = [lOrders EXCEPT ![i] = o]
      BY DEF o
    <2>2. o \in LocalOrder
      BY <1>1
    <2>3. /\ [lOrders EXCEPT ![i] = o] \in Seq(LocalOrder)
          /\ Len([lOrders EXCEPT ![i] = o]) = Len(lOrders)
          /\ [lOrders EXCEPT ![i] = o][i] = o
          /\ \A j \in 1..Len(lOrders) \ {i} : [lOrders EXCEPT ![i] = o][j] = lOrders[j]
      BY <2>2, SetInList
    <2> QED
      BY <2>1, <2>3
  <1> HIDE DEF o
  <1>3. LocalType'
    BY <1>2 DEF LocalType
  <1>4. Named'
    BY <1>1, <1>2 DEF Named
  <1>5. ASSUME NEW p \in 1..Len(lPositions)
        PROVE  Held(lOrders', lPositions', p)
    <2>1. Held(lOrders, lPositions, p)
      OBVIOUS
    <2>2. ~Buys(lOrders[i], p) /\ ~Buys(lOrders'[i], p)
      BY <1>1, <1>2 DEF Buys
    <2>3. \A j \in 1..Len(lOrders) :
              /\ Buys(lOrders'[j], p) <=> Buys(lOrders[j], p)
              /\ Buys(lOrders[j], p) => lOrders'[j].quantity = lOrders[j].quantity
                                       /\ lOrders'[j].price = lOrders[j].price
      BY <1>2, <2>2
    <2>4. \A j \in 1..Len(lOrders') : j > Len(lOrders) => ~Buys(lOrders'[j], p)
      BY <1>2
    <2>5. Len(lOrders) <= Len(lOrders') /\ lOrders' \in Seq(LocalOrder)
      BY <1>2
    <2>6. lPositions'[p].shares = lPositions[p].shares
          /\ lPositions'[p].cost = lPositions[p].cost
      OBVIOUS
    <2>10. SameBuys(lOrders, lOrders', p)
      BY <2>1, <2>3, <2>4, <2>5, <2>6 DEF SameBuys
    <2> QED
      BY <2>1, <2>5, <2>6, <2>10, HeldKept
  <1>6. \A j \in 1..Len(lOrders) :
            Waits(lOrders', lPositions', j) =>
                Waits(lOrders, lPositions, j) /\ lOrders'[j] = lOrders[j]
    BY <1>1, <1>2 DEF Waits
  <1>7. Covers(lOrders', lPositions')
    BY <1>2, <1>6 DEF Covers
  <1>8. Alone(lOrders', lPositions')
    BY <1>2, <1>6 DEF Alone
  <1> QED
    BY <1>2, <1>3, <1>4, <1>5, <1>7, <1>8

\* closePositionLocal: nothing that was bought changes, and its stop order waits no
\* longer for an open position.
LEMMA ClosePositionKeeps ==
    ASSUME LocalInv, NEW p \in 1..Len(lPositions), Local!ClosePosition(p)
    PROVE  LocalInv'
  <1> USE LocalTyped DEF LocalInv
  <1> DEFINE c == [lPositions[p] EXCEPT !.status = "closed"]
  <1>1. /\ c \in LocalPosition /\ c.status = "closed"
        /\ c.shares = lPositions[p].shares /\ c.cost = lPositions[p].cost
    BY DEF LocalPosition
  <1>2. /\ lOrders' = lOrders /\ lPositions' = [lPositions EXCEPT ![p] = c]
    BY DEF Local!ClosePosition
  <1>3. /\ Len(lPositions') = Len(lPositions) /\ lPositions'[p] = c
        /\ \A r \in 1..Len(lPositions) \ {p} : lPositions'[r] = lPositions[r]
        /\ lPositions' \in Seq(LocalPosition)
    BY <1>1, <1>2
  <1> HIDE DEF c
  <1>4. LocalType'
    BY <1>2, <1>3 DEF LocalType
  <1>5. Named'
    BY <1>2, <1>3 DEF Named
  <1>6. ASSUME NEW r \in 1..Len(lPositions)
        PROVE  Held(lOrders', lPositions', r)
    BY <1>1, <1>2, <1>3 DEF Held
  <1>7. \A j \in 1..Len(lOrders) :
            Waits(lOrders', lPositions', j) =>
                /\ Waits(lOrders, lPositions, j)
                /\ lPositions'[lOrders[j].position] = lPositions[lOrders[j].position]
    <2>1. \A j \in 1..Len(lOrders) : lOrders[j].kind = "stop" =>
              lOrders[j].position \in 1..Len(lPositions)
      BY DEF Named
    <2> QED
      BY <1>1, <1>2, <1>3, <2>1 DEF Waits
  <1>8. Covers(lOrders', lPositions')
    BY <1>2, <1>7 DEF Covers
  <1>9. Alone(lOrders', lPositions')
    BY <1>2, <1>7 DEF Alone
  <1> QED
    BY <1>2, <1>3, <1>4, <1>5, <1>6, <1>8, <1>9

LEMMA FillStopKeeps ==
    ASSUME LocalInv, NEW i \in 1..Len(lOrders), Local!FillStop(i)
    PROVE  LocalInv'
  <1>1. PICK price \in LocalPrices :
            lOrders' = [lOrders EXCEPT ![i].status = "filled", ![i].price = price]
    BY DEF Local!FillStop
  <1>2. price \in Nat /\ lPositions' = lPositions /\ lOrders[i].status = "pending"
        /\ lOrders[i].kind = "stop"
    BY LocalTyped DEF Local!FillStop
  <1> QED
    BY <1>1, <1>2, OrderDoneKeeps

LEMMA CancelOrderKeeps ==
    ASSUME LocalInv, NEW i \in 1..Len(lOrders), Local!CancelOrder(i)
    PROVE  LocalInv'
  <1> USE LocalTyped
  <1>1. lOrders[i].price \in Nat /\ lOrders[i].status = "pending"
    BY DEF Local!CancelOrder, LocalOrder
  <1>2. lOrders' = [lOrders EXCEPT ![i].status = "cancelled", ![i].price = lOrders[i].price]
    <2>1. [lOrders[i] EXCEPT !.status = "cancelled", !.price = lOrders[i].price] =
          [lOrders[i] EXCEPT !.status = "cancelled"]
      BY DEF LocalOrder
    <2>2. lOrders' = [lOrders EXCEPT ![i].status = "cancelled"]
      BY DEF Local!CancelOrder
    <2> QED
      BY <2>1, <2>2
  <1>3. lPositions' = lPositions
    BY DEF Local!CancelOrder
  <1> QED
    BY <1>1, <1>2, <1>3, OrderDoneKeeps

\* updatePositionStopLocal: the position's stop orders are cancelled, whatever there
\* was, and the one that is made is for its shares and at its new stop.
LEMMA UpdateStopKeeps ==
    ASSUME LocalInv, NEW p \in 1..Len(lPositions), Local!UpdateStop(p)
    PROVE  LocalInv'
  <1> USE LocalTyped DEF LocalInv
  <1>1. PICK s \in LocalPrices :
            LET stop == Local!RoundPrice(s)
                cancelled == [j \in 1..Len(lOrders) |->
                    IF Local!Linked(lOrders[j], p) /\ lOrders[j].status = "pending"
                    THEN [lOrders[j] EXCEPT !.status = "cancelled"] ELSE lOrders[j]]
            IN  /\ lPositions' = [lPositions EXCEPT ![p].stop = stop]
                /\ lOrders' = Append(cancelled, Local!StopOrder(p, lPositions[p].ticker,
                                                         lPositions[p].shares, stop))
    BY DEF Local!UpdateStop
  <1> DEFINE stop == Local!RoundPrice(s)
             n == Len(lOrders)
             new == Local!StopOrder(p, lPositions[p].ticker, lPositions[p].shares, stop)
             c == [lPositions[p] EXCEPT !.stop = stop]
  <1>2. stop \in Nat
    BY DEF Local!RoundPrice
  <1> HIDE DEF stop
  <1>3. /\ c \in LocalPosition /\ c.status = lPositions[p].status /\ c.stop = stop
        /\ c.shares = lPositions[p].shares /\ c.cost = lPositions[p].cost
    BY <1>2 DEF LocalPosition
  <1>4. /\ new \in LocalOrder /\ new.kind = "stop" /\ new.position = p
        /\ new.quantity = lPositions[p].shares /\ new.stop = stop
    BY <1>2, SMTT(40) DEF LocalOrder, LocalPosition, Local!StopOrder, Local!NoPrice
  <1> DEFINE done(j) == IF Local!Linked(lOrders[j], p) /\ lOrders[j].status = "pending"
                        THEN [lOrders[j] EXCEPT !.status = "cancelled"] ELSE lOrders[j]
  <1>5. ASSUME NEW j \in 1..n
        PROVE  /\ done(j) \in LocalOrder
               /\ done(j).position = lOrders[j].position /\ done(j).kind = lOrders[j].kind
               /\ done(j).quantity = lOrders[j].quantity /\ done(j).price = lOrders[j].price
               /\ done(j).stop = lOrders[j].stop
               /\ \/ done(j) = lOrders[j] /\ ~(/\ lOrders[j].position = p
                                               /\ lOrders[j].kind = "stop"
                                               /\ lOrders[j].status = "pending")
                  \/ done(j).status = "cancelled" /\ lOrders[j].kind = "stop"
    BY DEF LocalOrder, Local!Linked
  <1>6. lPositions' = [lPositions EXCEPT ![p] = c]
    BY <1>1 DEF stop
  <1>7. lOrders' = Append([j \in 1..n |-> done(j)], new)
    BY <1>1 DEF stop
  <1> HIDE DEF c, new, done
  <1>8. /\ Len(lPositions') = Len(lPositions) /\ lPositions'[p] = c
        /\ \A r \in 1..Len(lPositions) \ {p} : lPositions'[r] = lPositions[r]
        /\ lPositions' \in Seq(LocalPosition)
    BY <1>3, <1>6
  <1>9. /\ lOrders' \in Seq(LocalOrder) /\ Len(lOrders') = n + 1 /\ lOrders'[n + 1] = new
        /\ \A j \in 1..n : lOrders'[j] = done(j)
    <2>1. [j \in 1..n |-> done(j)] \in Seq(LocalOrder)
      BY <1>5
    <2>2. Len([j \in 1..n |-> done(j)]) = n
      OBVIOUS
    <2> QED
      BY <1>4, <1>7, <2>1, <2>2
  <1>10. LocalType'
    BY <1>8, <1>9 DEF LocalType
  <1>11. Named'
    BY <1>4, <1>5, <1>8, <1>9 DEF Named
  <1>12. ASSUME NEW r \in 1..Len(lPositions)
         PROVE  Held(lOrders', lPositions', r)
    <2>1. Held(lOrders, lPositions, r)
      OBVIOUS
    <2>2. \A j \in 1..Len(lOrders) :
              /\ Buys(lOrders'[j], r) <=> Buys(lOrders[j], r)
              /\ Buys(lOrders[j], r) => lOrders'[j].quantity = lOrders[j].quantity
                                       /\ lOrders'[j].price = lOrders[j].price
      BY <1>5, <1>9 DEF Buys
    <2>3. \A j \in 1..Len(lOrders') : j > Len(lOrders) => ~Buys(lOrders'[j], r)
      BY <1>4, <1>9 DEF Buys
    <2>4. Len(lOrders) <= Len(lOrders') /\ lOrders' \in Seq(LocalOrder)
      BY <1>9
    <2>5. lPositions'[r].shares = lPositions[r].shares
          /\ lPositions'[r].cost = lPositions[r].cost
      BY <1>3, <1>8
    <2>10. SameBuys(lOrders, lOrders', r)
      BY <2>1, <2>2, <2>3, <2>4, <2>5 DEF SameBuys
    <2> QED
      BY <2>1, <2>4, <2>5, <2>10, HeldKept
  <1>13. \A j \in 1..n : Waits(lOrders', lPositions', j) =>
             /\ Waits(lOrders, lPositions, j) /\ lOrders'[j] = lOrders[j]
             /\ lOrders[j].position \in 1..Len(lPositions) \ {p}
    <2>1. \A j \in 1..n : lOrders[j].kind = "stop" =>
              lOrders[j].position \in 1..Len(lPositions)
      BY DEF Named
    <2> QED
      BY <1>3, <1>5, <1>8, <1>9, <2>1, SMTT(40) DEF Waits
  <1>14. Covers(lOrders', lPositions')
    <2>1. \A j \in 1..n : Waits(lOrders', lPositions', j) =>
              lOrders'[j].quantity = lPositions'[lOrders'[j].position].shares
              /\ lOrders'[j].stop = lPositions'[lOrders'[j].position].stop
      BY <1>8, <1>13, SMTT(40) DEF Covers
    <2>2. lOrders'[n + 1].quantity = lPositions'[lOrders'[n + 1].position].shares
          /\ lOrders'[n + 1].stop = lPositions'[lOrders'[n + 1].position].stop
      BY <1>3, <1>4, <1>8, <1>9
    <2> QED
      BY <1>9, <2>1, <2>2 DEF Covers
  <1>15. Alone(lOrders', lPositions')
    BY <1>4, <1>9, <1>13 DEF Alone
  <1> QED
    BY <1>8, <1>10, <1>11, <1>12, <1>14, <1>15

\* fillOrderLocal of a ticker that is not held: what the new position holds is the
\* filled order, for no order named it before; its stop order is the only one.
LEMMA OpenFillKeeps ==
    ASSUME LocalInv, NEW i \in 1..Len(lOrders), Local!OpenFill(i)
    PROVE  LocalInv'
  <1> USE LocalTyped DEF LocalInv
  <1> DEFINE n == Len(lOrders)
             p == Len(lPositions) + 1
             q == lOrders[i].quantity
  <1>1. PICK price \in LocalPrices, stop \in LocalPrices \cup {lOrders[i].stop} :
            /\ lPositions' = Append(lPositions,
                   [ticker |-> lOrders[i].ticker, status |-> "open",
                    cost |-> price * q, shares |-> q, stop |-> stop])
            /\ lOrders' = Append([lOrders EXCEPT ![i] = Local!Bought(@, price, stop, p)],
                                 Local!StopOrder(p, lOrders[i].ticker, q, stop))
    BY DEF Local!OpenFill
  <1>2. /\ price \in Nat /\ stop \in Nat /\ q \in Nat \ {0} /\ price * q \in Nat
        /\ price * q = q * price /\ p \in Nat \ {0} /\ lOrders[i].ticker \in Tickers
        /\ lOrders[i].status = "pending" /\ lOrders[i].kind = "entry"
    <2>1. price \in Nat /\ stop \in Nat /\ q \in Nat \ {0} /\ lOrders[i].ticker \in Tickers
      BY DEF LocalOrder
    <2>2. \A a, b \in Nat : a * b \in Nat /\ a * b = b * a
      OBVIOUS
    <2> HIDE DEF q
    <2> QED
      BY <2>1, <2>2 DEF Local!OpenFill
  <1> DEFINE new == Local!StopOrder(p, lOrders[i].ticker, q, stop)
             o == Local!Bought(lOrders[i], price, stop, p)
             cost == price * q
             c == [ticker |-> lOrders[i].ticker, status |-> "open",
                   cost |-> cost, shares |-> q, stop |-> stop]
  <1> HIDE DEF cost, p
  <1>3. cost \in Nat /\ cost = q * price /\ p \in Nat \ {0}
    BY <1>2 DEF cost
  <1>4. /\ c \in LocalPosition /\ c.status = "open" /\ c.stop = stop
        /\ c.shares = q /\ c.cost = cost
    BY <1>2, <1>3 DEF LocalPosition
  <1>5. /\ new \in LocalOrder /\ new.kind = "stop" /\ new.position = p
        /\ new.quantity = q /\ new.stop = stop
    BY <1>2, <1>3 DEF LocalOrder, Local!StopOrder, Local!NoPrice
  <1>6. /\ o \in LocalOrder /\ o.kind = "entry" /\ o.position = p /\ o.status = "filled"
        /\ o.quantity = q /\ o.price = price
    BY <1>2, <1>3 DEF LocalOrder, Local!Bought
  <1>7. lPositions' = Append(lPositions, c) /\ lOrders' = Append([lOrders EXCEPT ![i] = o], new)
    BY <1>1 DEF cost, p
  <1> HIDE DEF c, new, o, q
  <1>8. /\ Len(lPositions') = p /\ lPositions'[p] = c
        /\ \A r \in 1..Len(lPositions) : lPositions'[r] = lPositions[r]
        /\ lPositions' \in Seq(LocalPosition)
    BY <1>4, <1>7 DEF p
  <1>9. /\ lOrders' \in Seq(LocalOrder) /\ Len(lOrders') = n + 1 /\ lOrders'[n + 1] = new
        /\ \A j \in 1..n \ {i} : lOrders'[j] = lOrders[j]
        /\ lOrders'[i] = o
    <2>1. /\ [lOrders EXCEPT ![i] = o] \in Seq(LocalOrder)
          /\ Len([lOrders EXCEPT ![i] = o]) = Len(lOrders)
          /\ [lOrders EXCEPT ![i] = o][i] = o
          /\ \A j \in 1..Len(lOrders) \ {i} : [lOrders EXCEPT ![i] = o][j] = lOrders[j]
      BY <1>6, SetInList
    <2> QED
      BY <1>5, <1>7, <2>1
  <1>10. LocalType'
    BY <1>8, <1>9 DEF LocalType
  <1>20. \A j \in 1..Len(lOrders') : j \in 1..n \ {i} \/ j = i \/ j = n + 1
    BY <1>9
  <1>21. \A j \in 1..Len(lOrders') : j > n => lOrders'[j] = new
    BY <1>9, <1>20
  <1>11. \A j \in 1..n : lOrders[j].position \in 0..Len(lPositions) /\ lOrders[j].position # p
    BY DEF Named, p
  <1>12. Named'
    <2>1. \A j \in 1..n \ {i} : lOrders'[j].position \in 0..p
              /\ (lOrders'[j].kind = "stop" => lOrders'[j].position # 0)
      BY <1>9, <1>11 DEF Named, p
    <2> QED
      BY <1>3, <1>5, <1>6, <1>8, <1>9, <1>20, <2>1, SMTT(40) DEF Named
  <1>13. \A j \in 1..n, r \in 1..Len(lPositions) :
             /\ Buys(lOrders'[j], r) <=> Buys(lOrders[j], r)
             /\ Buys(lOrders[j], r) => lOrders'[j] = lOrders[j]
    BY <1>2, <1>6, <1>9 DEF Buys, p
  <1>14. ASSUME NEW r \in 1..Len(lPositions)
         PROVE  Held(lOrders', lPositions', r)
    <2>1. Held(lOrders, lPositions, r)
      OBVIOUS
    <2>2. \A j \in 1..Len(lOrders) :
              /\ Buys(lOrders'[j], r) <=> Buys(lOrders[j], r)
              /\ Buys(lOrders[j], r) => lOrders'[j].quantity = lOrders[j].quantity
                                       /\ lOrders'[j].price = lOrders[j].price
      BY <1>13
    <2>3. \A j \in 1..Len(lOrders') : j > Len(lOrders) => ~Buys(lOrders'[j], r)
      BY <1>5, <1>21 DEF Buys
    <2>4. Len(lOrders) <= Len(lOrders') /\ lOrders' \in Seq(LocalOrder)
      BY <1>9
    <2>5. lPositions'[r].shares = lPositions[r].shares
          /\ lPositions'[r].cost = lPositions[r].cost
      BY <1>8
    <2>10. SameBuys(lOrders, lOrders', r)
      BY <2>1, <2>2, <2>3, <2>4, <2>5 DEF SameBuys
    <2> QED
      BY <2>1, <2>4, <2>5, <2>10, HeldKept
  <1>15. Held(lOrders', lPositions', p)
    <2> DEFINE none == [r \in {p} |-> [shares |-> 0, cost |-> 0]]
    <2>1. \A j \in 1..Len(lOrders) : ~Buys(lOrders[j], p)
      BY <1>11 DEF Buys
    <2>2. none[p].shares = 0 /\ none[p].cost = 0
      OBVIOUS
    <2> HIDE DEF none
    <2>3. Held(lOrders, none, p)
      BY <2>1, <2>2, NothingHeld DEF Held
    <2>4. ~Buys(lOrders[i], p) /\ Buys(lOrders'[i], p)
      BY <1>6, <1>9, <2>1 DEF Buys
    <2>5. lPositions'[p].shares = lOrders'[i].quantity + none[p].shares
      BY <1>2, <1>4, <1>6, <1>8, <1>9, <2>2
    <2>6. lPositions'[p].cost = lOrders'[i].quantity * lOrders'[i].price + none[p].cost
      BY <1>3, <1>4, <1>6, <1>8, <1>9, <2>2
    <2>7. \A j \in 1..Len(lOrders) \ {i} :
              /\ Buys(lOrders'[j], p) <=> Buys(lOrders[j], p)
              /\ Buys(lOrders[j], p) => lOrders'[j] = lOrders[j]
      BY <1>9
    <2>8. \A j \in 1..Len(lOrders') : j > Len(lOrders) => ~Buys(lOrders'[j], p)
      BY <1>5, <1>21 DEF Buys
    <2>9. Len(lOrders) <= Len(lOrders') /\ lOrders' \in Seq(LocalOrder)
      BY <1>9
    <2> QED
      BY <2>3, <2>4, <2>5, <2>6, <2>7, <2>8, <2>9, HeldAdded
  <1>16. \A j \in 1..n : Waits(lOrders', lPositions', j) =>
             /\ Waits(lOrders, lPositions, j) /\ lOrders'[j] = lOrders[j]
             /\ lOrders[j].position \in 1..Len(lPositions)
    <2>1. \A j \in 1..n : lOrders[j].kind = "stop" =>
              lOrders[j].position \in 1..Len(lPositions)
      BY DEF Named
    <2> QED
      BY <1>6, <1>8, <1>9, <2>1 DEF Waits
  <1>17. Covers(lOrders', lPositions')
    <2>1. \A j \in 1..n : Waits(lOrders', lPositions', j) =>
              lOrders'[j].quantity = lPositions'[lOrders'[j].position].shares
              /\ lOrders'[j].stop = lPositions'[lOrders'[j].position].stop
      BY <1>8, <1>16, SMTT(40) DEF Covers
    <2>2. lOrders'[n + 1].quantity = lPositions'[lOrders'[n + 1].position].shares
          /\ lOrders'[n + 1].stop = lPositions'[lOrders'[n + 1].position].stop
      BY <1>4, <1>5, <1>8, <1>9
    <2> QED
      BY <1>9, <2>1, <2>2, SMTT(40) DEF Covers
  <1>18. Alone(lOrders', lPositions')
    <2>1. \A j \in 1..n : Waits(lOrders', lPositions', j) =>
              lOrders'[j].position # lOrders'[n + 1].position
      BY <1>5, <1>9, <1>11, <1>16
    <2>2. \A j, k \in 1..n : Waits(lOrders', lPositions', j) /\ Waits(lOrders', lPositions', k)
              /\ lOrders'[j].position = lOrders'[k].position => j = k
      BY <1>16 DEF Alone
    <2>3. \A j \in 1..Len(lOrders') : j \in 1..n \/ j = n + 1
      BY <1>20
    <2> QED
      BY <2>1, <2>2, <2>3 DEF Alone
  <1>19. \A r \in 1..Len(lPositions') : r = p \/ r \in 1..Len(lPositions)
    BY <1>8 DEF p
  <1> QED
    BY <1>10, <1>12, <1>14, <1>15, <1>17, <1>18, <1>19

\* fillOrderLocal of a ticker that is held: the position has the filled order more, and
\* every stop order of it is set to what it has now, or one is made.
LEMMA MergeFillKeeps ==
    ASSUME LocalInv, NEW i \in 1..Len(lOrders), Local!MergeFill(i)
    PROVE  LocalInv'
  <1> USE LocalTyped DEF LocalInv
  <1> DEFINE n == Len(lOrders)
             p == Local!Min(Local!OpenOf(lOrders[i].ticker))
             q == lOrders[i].quantity
  <1>1. PICK price \in LocalPrices :
            LET merged == Local!Merged(lPositions[p], q, price)
            IN  /\ lPositions' = [lPositions EXCEPT ![p] = merged]
                /\ lOrders' = Local!Relinked(i, p, price, merged.shares, merged.stop)
    BY DEF Local!MergeFill
  <1>2. /\ p \in 1..Len(lPositions) /\ lPositions[p].status = "open"
        /\ lOrders[i].status = "pending" /\ lOrders[i].kind = "entry"
    BY OpenFound DEF Local!MergeFill
  <1> HIDE DEF p
  <1> DEFINE c == Local!Merged(lPositions[p], q, price)
             cost == price * q
             o == Local!Bought(lOrders[i], price, c.stop, p)
             new == Local!StopOrder(p, lOrders[i].ticker, c.shares, c.stop)
             done(j) == IF j = i THEN Local!Bought(lOrders[j], price, c.stop, p)
                        ELSE IF Local!Linked(lOrders[j], p)
                             THEN [lOrders[j] EXCEPT !.quantity = c.shares, !.stop = c.stop]
                        ELSE lOrders[j]
             list == [j \in 1..n |-> done(j)]
             linked == \E j \in 1..n : Local!Linked(lOrders[j], p)
  <1>3. /\ price \in Nat /\ q \in Nat \ {0} /\ cost \in Nat /\ cost = q * price
        /\ lOrders[i].ticker \in Tickers
    <2>1. price \in Nat /\ q \in Nat \ {0} /\ lOrders[i].ticker \in Tickers
      BY DEF LocalOrder
    <2>2. \A a, b \in Nat : a * b \in Nat /\ a * b = b * a
      OBVIOUS
    <2> HIDE DEF q
    <2> QED
      BY <2>1, <2>2
  <1>4. /\ c \in LocalPosition /\ c.status = lPositions[p].status
        /\ c.shares = q + lPositions[p].shares /\ c.cost = cost + lPositions[p].cost
    <2>1. c = [lPositions[p] EXCEPT !.shares = @ + q, !.cost = @ + cost]
      BY DEF Local!Merged
    <2>2. lPositions[p] \in LocalPosition
      BY <1>2
    <2>3. q \in Nat \ {0} /\ cost \in Nat
      BY <1>3
    <2> HIDE DEF c, cost, q
    <2>4. /\ c.status = lPositions[p].status /\ c.ticker = lPositions[p].ticker
          /\ c.stop = lPositions[p].stop
          /\ c.shares = lPositions[p].shares + q /\ c.cost = lPositions[p].cost + cost
          /\ c \in [ticker : {c.ticker}, status : {c.status}, cost : {c.cost},
                     shares : {c.shares}, stop : {c.stop}]
      BY <2>1, <2>2 DEF LocalPosition
    <2>5. /\ lPositions[p].shares \in Nat \ {0} /\ lPositions[p].cost \in Nat
          /\ lPositions[p].stop \in Nat /\ lPositions[p].ticker \in Tickers
          /\ lPositions[p].status \in {"open", "closed"}
      BY <2>2 DEF LocalPosition
    <2>6. /\ c.shares \in Nat \ {0} /\ c.cost \in Nat
          /\ c.shares = q + lPositions[p].shares /\ c.cost = cost + lPositions[p].cost
      <3> DEFINE a == lPositions[p].shares
                 b == lPositions[p].cost
                 d == c.shares
                 e == c.cost
      <3>1. a \in Nat \ {0} /\ b \in Nat /\ d = a + q /\ e = b + cost
        BY <2>4, <2>5
      <3> HIDE DEF a, b, d, e
      <3>2. d \in Nat \ {0} /\ e \in Nat /\ d = q + a /\ e = cost + b
        BY <2>3, <3>1
      <3> QED
        BY <3>2 DEF a, b, d, e
    <2> QED
      BY <2>4, <2>5, <2>6 DEF LocalPosition
  <1>5. /\ c.shares \in Nat \ {0} /\ c.stop \in Nat /\ p \in Nat
    BY <1>2, <1>4 DEF LocalPosition
  <1> HIDE DEF c, cost
  <1>6. /\ new \in LocalOrder /\ new.kind = "stop" /\ new.position = p
        /\ new.quantity = c.shares /\ new.stop = c.stop
    BY <1>3, <1>5 DEF LocalOrder, Local!StopOrder, Local!NoPrice
  <1>7. /\ done(i) \in LocalOrder /\ done(i).kind = "entry" /\ done(i).position = p
        /\ done(i).status = "filled" /\ done(i).quantity = q /\ done(i).price = price
    BY <1>2, <1>3, <1>5 DEF LocalOrder, Local!Bought
  <1>8. ASSUME NEW j \in 1..n, j # i
        PROVE  /\ done(j) \in LocalOrder /\ done(j).kind = lOrders[j].kind
               /\ done(j).position = lOrders[j].position
               /\ done(j).status = lOrders[j].status
               /\ \/ /\ done(j) = lOrders[j]
                     /\ ~(lOrders[j].kind = "stop" /\ lOrders[j].position = p)
                  \/ /\ lOrders[j].kind = "stop" /\ lOrders[j].position = p
                     /\ done(j).quantity = c.shares /\ done(j).stop = c.stop
    BY <1>5, <1>8 DEF LocalOrder, Local!Linked
  <1>9. /\ lPositions' = [lPositions EXCEPT ![p] = c]
        /\ lOrders' = IF linked THEN list ELSE Append(list, new)
    BY <1>1 DEF c, Local!Relinked
  <1>10. ~linked => \A j \in 1..n : ~(lOrders[j].kind = "stop" /\ lOrders[j].position = p)
    BY DEF Local!Linked
  <1> HIDE DEF new, done, linked, q
  <1>11. /\ list \in Seq(LocalOrder) /\ Len(list) = n
         /\ \A j \in 1..n : list[j] = done(j)
    <2>1. \A j \in 1..n : done(j) \in LocalOrder
      BY <1>7, <1>8
    <2>2. list \in Seq(LocalOrder)
      BY <2>1
    <2> QED
      BY <2>2
  <1> HIDE DEF list
  <1>12. /\ lOrders' \in Seq(LocalOrder) /\ Len(lOrders') \in n..(n + 1)
         /\ \A j \in 1..n : lOrders'[j] = done(j)
         /\ Len(lOrders') = n + 1 => lOrders'[n + 1] = new /\ ~linked
    <2>1. CASE linked
      BY <1>9, <1>11, <2>1
    <2>2. CASE ~linked
      BY <1>6, <1>9, <1>11, <2>2
    <2> QED
      BY <2>1, <2>2
  <1>13. /\ Len(lPositions') = Len(lPositions) /\ lPositions'[p] = c
         /\ \A r \in 1..Len(lPositions) \ {p} : lPositions'[r] = lPositions[r]
         /\ lPositions' \in Seq(LocalPosition)
    BY <1>2, <1>4, <1>9, SetInList
  <1>14. LocalType'
    BY <1>12, <1>13 DEF LocalType
  <1>15. Named'
    <2>1. \A j \in 1..n : lOrders'[j].position \in 0..Len(lPositions)
              /\ (lOrders'[j].kind = "stop" => lOrders'[j].position # 0)
      <3>1. \A j \in 1..n : lOrders[j].position \in 0..Len(lPositions)
                /\ (lOrders[j].kind = "stop" => lOrders[j].position # 0)
        BY DEF Named
      <3>2. \A j \in 1..n \ {i} : lOrders'[j].position = lOrders[j].position
                                /\ lOrders'[j].kind = lOrders[j].kind
        BY <1>8, <1>12
      <3>3. lOrders'[i].position = p /\ p \in 1..Len(lPositions)
        BY <1>2, <1>7, <1>12
      <3> HIDE DEF LocalInv, n
      <3> QED
        BY <3>1, <3>2, <3>3 DEF n
    <2> QED
      BY <1>2, <1>6, <1>12, <1>13, <2>1 DEF Named
  <1>16. \A j \in 1..Len(lOrders') : j > n => j = n + 1 /\ Len(lOrders') = n + 1
    BY <1>12
  <1>17. ASSUME NEW r \in 1..Len(lPositions)
         PROVE  Held(lOrders', lPositions', r)
    <2>1. Held(lOrders, lPositions, r)
      OBVIOUS
    <2>2. \A j \in 1..Len(lOrders) \ {i} :
              /\ Buys(lOrders'[j], r) <=> Buys(lOrders[j], r)
              /\ Buys(lOrders[j], r) => lOrders'[j] = lOrders[j]
      BY <1>8, <1>12 DEF Buys
    <2>3. \A j \in 1..Len(lOrders') : j > Len(lOrders) => ~Buys(lOrders'[j], r)
      BY <1>6, <1>12, <1>16 DEF Buys
    <2>4. Len(lOrders) <= Len(lOrders') /\ lOrders' \in Seq(LocalOrder)
      BY <1>12
    <2>5. ~Buys(lOrders[i], r) /\ lOrders'[i] = done(i)
      BY <1>2, <1>12 DEF Buys
    <2>6. CASE r = p
      <3>1. Buys(lOrders'[i], r)
        BY <1>7, <2>5, <2>6 DEF Buys
      <3>2. lPositions'[r].shares = lOrders'[i].quantity + lPositions[r].shares
        BY <1>4, <1>7, <1>13, <2>5, <2>6
      <3>3. lPositions'[r].cost = lOrders'[i].quantity * lOrders'[i].price + lPositions[r].cost
        BY <1>3, <1>4, <1>7, <1>13, <2>5, <2>6
      <3> QED
        BY <2>1, <2>2, <2>3, <2>4, <2>5, <3>1, <3>2, <3>3, HeldAdded
    <2>7. CASE r # p
      <3>1. ~Buys(lOrders'[i], r)
        BY <1>7, <2>5, <2>7 DEF Buys
      <3>2. \A j \in 1..Len(lOrders) :
              /\ Buys(lOrders'[j], r) <=> Buys(lOrders[j], r)
              /\ Buys(lOrders[j], r) => lOrders'[j].quantity = lOrders[j].quantity
                                       /\ lOrders'[j].price = lOrders[j].price
        BY <2>2, <2>5, <3>1
      <3>3. lPositions'[r].shares = lPositions[r].shares
            /\ lPositions'[r].cost = lPositions[r].cost
        BY <1>13, <2>7
      <3>10. SameBuys(lOrders, lOrders', r)
        BY <2>1, <2>3, <2>4, <3>2, <3>3 DEF SameBuys
      <3> QED
        BY <2>1, <2>4, <3>3, <3>10, HeldKept
    <2> QED
      BY <2>6, <2>7
  <1>18. \A r \in 1..Len(lPositions) : lPositions'[r].status = lPositions[r].status
    BY <1>4, <1>13
  <1>19. \A j \in 1..n : Waits(lOrders', lPositions', j) =>
             /\ Waits(lOrders, lPositions, j) /\ lOrders'[j].position = lOrders[j].position
             /\ lOrders[j].position \in 1..Len(lPositions)
             /\ \/ lOrders'[j] = lOrders[j] /\ lOrders[j].position # p
                \/ /\ lOrders[j].position = p
                   /\ lOrders'[j].quantity = c.shares /\ lOrders'[j].stop = c.stop
    <2>1. \A j \in 1..n : lOrders[j].kind = "stop" =>
              lOrders[j].position \in 1..Len(lPositions)
      BY DEF Named
    <2> QED
      BY <1>7, <1>8, <1>12, <1>18, <2>1, SMTT(40) DEF Waits
  <1>20. Covers(lOrders', lPositions')
    <2>1. \A j \in 1..n : Waits(lOrders', lPositions', j) =>
              lOrders'[j].quantity = lPositions'[lOrders'[j].position].shares
              /\ lOrders'[j].stop = lPositions'[lOrders'[j].position].stop
      BY <1>13, <1>19 DEF Covers
    <2>2. Len(lOrders') = n + 1 =>
              lOrders'[n + 1].quantity = lPositions'[lOrders'[n + 1].position].shares
              /\ lOrders'[n + 1].stop = lPositions'[lOrders'[n + 1].position].stop
      BY <1>6, <1>12, <1>13
    <2> QED
      BY <1>12, <1>16, <2>1, <2>2, SMTT(40) DEF Covers
  <1>21. Alone(lOrders', lPositions')
    <2>1. Len(lOrders') = n + 1 => \A j \in 1..n : Waits(lOrders', lPositions', j) =>
              lOrders'[j].position # lOrders'[n + 1].position
      BY <1>6, <1>10, <1>12, <1>19 DEF Waits
    <2>2. \A j, k \in 1..n : Waits(lOrders', lPositions', j) /\ Waits(lOrders', lPositions', k)
              /\ lOrders'[j].position = lOrders'[k].position => j = k
      BY <1>19 DEF Alone
    <2> QED
      BY <1>12, <1>16, <2>1, <2>2 DEF Alone
  <1> QED
    BY <1>13, <1>14, <1>15, <1>17, <1>20, <1>21

LEMMA LocalStep == LocalInv /\ [Local!Next]_(Local!vars) => LocalInv'
  <1> SUFFICES ASSUME LocalInv, [Local!Next]_(Local!vars) PROVE LocalInv'
    OBVIOUS
  <1>1. CASE UNCHANGED Local!vars
    BY <1>1 DEF Local!vars, LocalInv, LocalType, Named
  <1>2. CASE Local!Next
    BY <1>2, CreateOrderKeeps, MergeFillKeeps, OpenFillKeeps, FillStopKeeps, CancelOrderKeeps,
       UpdateStopKeeps, ClosePositionKeeps DEF Local!Next
  <1> QED
    BY <1>1, <1>2

\* The browser's book, of any size: what a position has is the sum of the entries that
\* were filled into it, and a stop order that waits sells all of it, once
\* (fillOrderLocal, updatePositionStopLocal).
THEOREM LocalBookHolds == Local!Spec => []LocalBookAgrees
  <1>1. LocalInv => LocalBookAgrees
    BY LocalInvAgrees
  <1> QED
    BY <1>1, LocalInit, LocalStep, PTL DEF Local!Spec

=============================================================================
