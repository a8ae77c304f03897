-------------------------------- MODULE Book --------------------------------
(***************************************************************************)
(* The trading book: orders.json and positions.json, and the HTTP handlers *)
(* that change them (api/services/orders_service.py and                    *)
(* api/services/portfolio/write.py over the two repositories).             *)
(*                                                                         *)
(* A handler runs inside an `async def` endpoint and never awaits, so one  *)
(* server process runs one handler at a time.  Within the handler every    *)
(* access to a file is a step of its own: each takes the file's lock for   *)
(* that access only, and the process may die, or the lock may time out,    *)
(* between any two of them.  Several processes interleave at that grain.   *)
(*                                                                         *)
(* The records, and what the handlers together promise, are in Ledger.     *)
(***************************************************************************)
EXTENDS Ledger

CONSTANTS
    Processes,      \* server processes (one as deployed)
    MaxOrders       \* bound: orders ever created

VARIABLES
    issued,         \* how many position ids (uuid4) have been drawn
    pc,             \* pc[p]: the next file access of p's handler
    mode,           \* mode[p]: entry_mode of the create request p serves
    draft,          \* draft[p]: the order p's handler holds in memory
    odata,          \* odata[p]: the orders p's handler is about to write
    pdata           \* pdata[p]: the positions p's handler is about to write

vars == <<orders, positions, issued, pc, mode, draft, odata, pdata>>

-----------------------------------------------------------------------------
EntryModes == {"NEW_ENTRY", "ADD_ON"}

\* pc: the file access that comes next.
PCs == {"idle",
        "check_position",   \* create_order: list_positions
        "append_order",     \* create_order: the read of append_order
        "write_orders",     \* create, submit, cancel: the write
        "fill_update",      \* fill_order: the read of update_order
        "fill_write",       \* fill_order: the write of update_order
        "fill_open",        \* fill_order: the read of positions.json
        "write_positions"}  \* every handler that changes positions.json

\* The loops over the file stop at the first record with the requested id.
FirstOrder(os, i) ==
    /\ i \in 1..Len(os)
    /\ \A j \in 1..(i - 1) : ~SameOrder(os[j], os[i])

FirstPosition(ps, i) ==
    /\ i \in 1..Len(ps)
    /\ \A j \in 1..(i - 1) : ps[j].position_id # ps[i].position_id

HeldOpen(ps, t) ==
    \E i \in 1..Len(ps) : ps[i].ticker = t /\ ps[i].status = "open"

\* A faulty form: the number is not looked up in the file.
FirstFreeNumber_Fixed(os, t, n) == n = 1

\* n is the first number with ORD-<t>-<n> not in the list.
FirstFreeNumber(os, t, n) ==
    /\ n \in 1..(Len(os) + 1)
    /\ \A i \in 1..Len(os) : os[i].ticker = t => os[i].number # n
    /\ \A m \in 1..(n - 1) :
           \E i \in 1..Len(os) : os[i].ticker = t /\ os[i].number = m

\* Stands for "nothing in memory".
NoDraft == NewOrder(CHOOSE t \in Tickers : TRUE, 1, "entry",
                    CHOOSE q \in Quantities : TRUE, NoPrice)

-----------------------------------------------------------------------------
Init ==
    /\ orders = <<>>
    /\ positions = <<>>
    /\ issued = 0
    /\ pc = [p \in Processes |-> "idle"]
    /\ mode = [p \in Processes |-> "NEW_ENTRY"]
    /\ draft = [p \in Processes |-> NoDraft]
    /\ odata = [p \in Processes |-> <<>>]
    /\ pdata = [p \in Processes |-> <<>>]

\* The handler's memory is dropped: it returned, raised or died.
Forget(p) ==
    /\ pc' = [pc EXCEPT ![p] = "idle"]
    /\ mode' = [mode EXCEPT ![p] = "NEW_ENTRY"]
    /\ draft' = [draft EXCEPT ![p] = NoDraft]
    /\ odata' = [odata EXCEPT ![p] = <<>>]
    /\ pdata' = [pdata EXCEPT ![p] = <<>>]

\* The handler holds a new value for orders.json and writes it next, at `at`.
HoldOrders(p, os, at) ==
    /\ odata' = [odata EXCEPT ![p] = os]
    /\ pc' = [pc EXCEPT ![p] = at]
    /\ UNCHANGED <<orders, positions, issued, mode, pdata>>

HoldPositions(p, ps) ==
    /\ pdata' = [pdata EXCEPT ![p] = ps]
    /\ pc' = [pc EXCEPT ![p] = "write_positions"]
    /\ UNCHANGED <<orders, positions, mode, draft, odata>>

-----------------------------------------------------------------------------
(* OrdersService *)

\* create_order up to its first file access, list_orders().  The duplicate
\* check and the order id are decided on this snapshot.  A refused request
\* (409) changes nothing and is not a step.
CreateOrder(p) ==
    /\ pc[p] = "idle"
    /\ Len(orders) < MaxOrders
    /\ \E t \in Tickers, q \in Quantities, stop \in Prices \cup {NoPrice},
          kind \in OrderKinds, m \in EntryModes, n \in 1..(Len(orders) + 1) :
        /\ kind = "entry" => ~ActiveEntry(orders, t)
        /\ FirstFreeNumber(orders, t, n)
        /\ draft' = [draft EXCEPT ![p] =
                        NewOrder(t, n, kind, q, stop)]
        /\ mode' = [mode EXCEPT ![p] = m]
        /\ pc' = [pc EXCEPT ![p] = IF kind = "entry" THEN "check_position"
                                                     ELSE "append_order"]
    /\ UNCHANGED <<orders, positions, issued, odata, pdata>>

\* create_order: list_positions(status="open").  An add-on needs an open
\* position of the ticker, a new entry needs none.
CheckPosition(p) ==
    /\ pc[p] = "check_position"
    /\ IF mode[p] = "ADD_ON" <=> HeldOpen(positions, draft[p].ticker)
       THEN /\ pc' = [pc EXCEPT ![p] = "append_order"]
            /\ UNCHANGED <<mode, draft, odata, pdata>>
       ELSE Forget(p)
    /\ UNCHANGED <<orders, positions, issued>>

\* OrdersRepository.append_order re-reads the file and appends.
AppendOrder(p) ==
    /\ pc[p] = "append_order"
    /\ HoldOrders(p, Append(orders, draft[p]), "write_orders")
    /\ UNCHANGED draft

\* OrdersRepository.submit_order / cancel_order: the read.
SubmitOrder(p) ==
    /\ pc[p] = "idle"
    /\ \E i \in 1..Len(orders) :
        /\ FirstOrder(orders, i)
        /\ orders[i].status = "pending"
        /\ HoldOrders(p, [orders EXCEPT ![i] = [@ EXCEPT !.status = "submitted"]],
                      "write_orders")
    /\ UNCHANGED draft

\* A faulty form: a filled order can be cancelled.
CancelOrder_AnyStatus(p) ==
    /\ pc[p] = "idle"
    /\ \E i \in 1..Len(orders) :
        /\ FirstOrder(orders, i)
        /\ HoldOrders(p, [orders EXCEPT ![i] = [@ EXCEPT !.status = "cancelled"]],
                      "write_orders")
    /\ UNCHANGED draft

CancelOrder(p) ==
    /\ pc[p] = "idle"
    /\ \E i \in 1..Len(orders) :
        /\ FirstOrder(orders, i)
        /\ Active(orders[i])
        /\ HoldOrders(p, [orders EXCEPT ![i] = [@ EXCEPT !.status = "cancelled"]],
                      "write_orders")
    /\ UNCHANGED draft

\* A faulty form: the status of the order is not checked.
FillOrder_AnyStatus(p) ==
    /\ pc[p] = "idle"
    /\ issued < MaxPositions
    /\ \E i \in 1..Len(orders), price \in Prices,
          override \in Prices \cup {NoPrice} :
        LET stop == IF override # NoPrice THEN override
                                          ELSE orders[i].stop_price
        IN  /\ FirstOrder(orders, i)
            /\ stop > 0 /\ stop < price
            /\ draft' = [draft EXCEPT ![p] =
                            FilledOrder(orders[i], price, stop)]
    /\ pc' = [pc EXCEPT ![p] = "fill_update"]
    /\ UNCHANGED <<orders, positions, issued, mode, odata, pdata>>

\* A faulty form: the stop is not compared with the fill price.
FillOrder_AnyStop(p) ==
    /\ pc[p] = "idle"
    /\ issued < MaxPositions
    /\ \E i \in 1..Len(orders), price \in Prices,
          override \in Prices \cup {NoPrice} :
        LET stop == IF override # NoPrice THEN override
                                          ELSE orders[i].stop_price
        IN  /\ FirstOrder(orders, i)
            /\ Active(orders[i])
            /\ stop > 0
            /\ draft' = [draft EXCEPT ![p] =
                            FilledOrder(orders[i], price, stop)]
    /\ pc' = [pc EXCEPT ![p] = "fill_update"]
    /\ UNCHANGED <<orders, positions, issued, mode, odata, pdata>>

\* fill_order up to get_order and the checks on what it returned: the status,
\* and a positive stop (the request's, else the order's) below the fill price.
\* Neither order_kind nor the position the order was an add-on to is looked at.
FillOrder(p) ==
    /\ pc[p] = "idle"
    /\ issued < MaxPositions
    /\ \E i \in 1..Len(orders), price \in Prices,
          override \in Prices \cup {NoPrice} :
        LET stop == IF override # NoPrice THEN override
                                          ELSE orders[i].stop_price
        IN  /\ FirstOrder(orders, i)
            /\ Active(orders[i])
            /\ stop > 0 /\ stop < price
            /\ draft' = [draft EXCEPT ![p] =
                            FilledOrder(orders[i], price, stop)]
    /\ pc' = [pc EXCEPT ![p] = "fill_update"]
    /\ UNCHANGED <<orders, positions, issued, mode, odata, pdata>>

\* update_order: a fresh read, the updates applied to the record with that id
\* whatever its status is now.  An id that is gone is ignored (None).
FillUpdate(p) ==
    /\ pc[p] = "fill_update"
    /\ \/ \E i \in 1..Len(orders) :
            /\ FirstOrder(orders, i)
            /\ SameOrder(orders[i], draft[p])
            /\ HoldOrders(p,
                 [orders EXCEPT ![i] = FilledOrder(@, draft[p].entry_price,
                                                      draft[p].stop_price)],
                 "fill_write")
            /\ UNCHANGED draft
       \/ /\ \A i \in 1..Len(orders) : ~SameOrder(orders[i], draft[p])
          /\ pc' = [pc EXCEPT ![p] = "fill_open"]
          /\ UNCHANGED <<orders, positions, issued, mode, draft, odata, pdata>>

\* update_order: the write.  The order is filled, its position does not exist.
FillWrite(p) ==
    /\ pc[p] = "fill_write"
    /\ orders' = odata[p]
    /\ odata' = [odata EXCEPT ![p] = <<>>]
    /\ pc' = [pc EXCEPT ![p] = "fill_open"]
    /\ UNCHANGED <<positions, issued, mode, draft, pdata>>

\* fill_order: the read of positions.json and the append, in memory.
FillOpen(p) ==
    /\ pc[p] = "fill_open"
    /\ issued < MaxPositions
    /\ issued' = issued + 1
    /\ HoldPositions(p, Append(positions,
           NewPosition(issued', draft[p].ticker, draft[p].entry_price,
                       draft[p].stop_price, draft[p].quantity,
                       draft[p].number)))

\* The write that ends create_order, submit_order and cancel_order.
WriteOrders(p) ==
    /\ pc[p] = "write_orders"
    /\ orders' = odata[p]
    /\ Forget(p)
    /\ UNCHANGED <<positions, issued>>

-----------------------------------------------------------------------------
(* PortfolioWriteService: each reads positions.json, works in memory on what *)
(* it read, and writes the whole list back (WritePositions).                 *)

\* create_position: no check against what is already held.
CreatePosition(p) ==
    /\ pc[p] = "idle"
    /\ issued < MaxPositions
    /\ issued' = issued + 1
    /\ \E t \in Tickers, n \in Quantities, entry, stop \in Prices :
        /\ stop < entry
        /\ HoldPositions(p, Append(positions,
               NewPosition(issued', t, entry, stop, n, NoOrder)))

\* A handler that edits one open position, the first with the requested id.
EditPosition(p, i, pos) ==
    /\ pc[p] = "idle"
    /\ FirstPosition(positions, i)
    /\ positions[i].status = "open"
    /\ HoldPositions(p, [positions EXCEPT ![i] = pos])
    /\ UNCHANGED issued

\* A faulty form: the requested stop is compared before it is rounded.
UpdatePositionStop_RoundLate(p) ==
    \E i \in 1..Len(positions), s \in Prices, current \in Prices \cup {NoPrice} :
        /\ s > positions[i].stop_price
        /\ current # NoPrice => RoundPrice(s) <= current
        /\ EditPosition(p, i, StopAt(positions[i], RoundPrice(s)))

\* update_position_stop: up only, on rounded prices, and not above the current
\* price; a price that cannot be fetched (NoPrice) skips that last check.
UpdatePositionStop(p) ==
    \E i \in 1..Len(positions), s \in Prices, current \in Prices \cup {NoPrice} :
        LET new_stop == RoundPrice(s)
            old_stop == RoundPrice(positions[i].stop_price)
        IN  /\ new_stop > old_stop
            /\ current # NoPrice => new_stop <= current
            /\ EditPosition(p, i, StopAt(positions[i], new_stop))

ClosePosition(p) ==
    \E i \in 1..Len(positions), price \in Prices :
        EditPosition(p, i, ClosedAt(positions[i], price))

\* partial_close_position: fewer shares than are held.
PartialClosePosition(p) ==
    \E i \in 1..Len(positions), n \in Quantities, price \in Prices :
        /\ n < positions[i].shares
        /\ EditPosition(p, i, PartClosedAt(positions[i], n, price))

UpdateTrailMethod(p) ==
    \E i \in 1..Len(positions), m \in TrailMethods :
        EditPosition(p, i, TrailedBy(positions[i], m))

\* The write that ends fill_order and every handler above.
WritePositions(p) ==
    /\ pc[p] = "write_positions"
    /\ positions' = pdata[p]
    /\ Forget(p)
    /\ UNCHANGED <<orders, issued>>

-----------------------------------------------------------------------------
\* The handler does not reach its next access: the lock times out (503), the
\* write raises, or the process is killed and restarted.  What it wrote stays.
Abandon(p) ==
    /\ pc[p] # "idle"
    /\ Forget(p)
    /\ UNCHANGED <<orders, positions, issued>>

Handler(p) ==
    \/ CheckPosition(p) \/ AppendOrder(p) \/ WriteOrders(p)
    \/ FillUpdate(p) \/ FillWrite(p) \/ FillOpen(p)
    \/ WritePositions(p)

Request(p) ==
    \/ CreateOrder(p) \/ SubmitOrder(p) \/ CancelOrder(p) \/ FillOrder(p)
    \/ CreatePosition(p) \/ UpdatePositionStop(p) \/ ClosePosition(p)
    \/ PartialClosePosition(p) \/ UpdateTrailMethod(p)

Next == \E p \in Processes : Request(p) \/ Handler(p) \/ Abandon(p)

Spec == Init /\ [][Next]_vars

-----------------------------------------------------------------------------
(* Properties *)

\* The deployment: one server process (WEB_CONCURRENCY=1, one uvicorn worker).
SingleProcess == \E p \in Processes : Processes = {p}

TypeOK ==
    /\ LedgerTypeOK
    /\ issued \in 0..MaxPositions
    /\ pc \in [Processes -> PCs]
    /\ mode \in [Processes -> EntryModes]
    /\ draft \in [Processes -> Order]
    /\ odata \in [Processes -> Seq(Order)]
    /\ pdata \in [Processes -> Seq(Position)]

=============================================================================
