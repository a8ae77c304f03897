------------------------------- MODULE MCBook -------------------------------
(* The books on small instances: the server's, with two orders and positions *)
(* of a ticker or with one of each, sold in parts at prices inside a cent;   *)
(* and the browser's.  And a statement of the documentation that TLC refutes. *)
EXTENDS Book, TLC

CONSTANTS
    LowPrice,                           \* bound of prices in a book of several orders
    LocalPrices, LocalQuantities,       \* of the browser's book
    MaxLocalOrders, MaxLocalPositions

ASSUME LocalAssumption == LocalPrices \cup LocalQuantities \subseteq Nat \ {0}

VARIABLES part, lOrders, lPositions

local == <<lOrders, lPositions>>

Local == INSTANCE LocalBook WITH
    Prices <- LocalPrices, Quantities <- LocalQuantities,
    MaxOrders <- MaxLocalOrders, MaxPositions <- MaxLocalPositions,
    orders <- lOrders, positions <- lPositions

-----------------------------------------------------------------------------
(* What the handlers hold in memory decides the size of the books.           *)

\* Several orders and positions: of one share, at low prices.
PlainOrder(o) == o.quantity = 1 /\ {o.stop_price, o.entry_price} \subseteq 0..LowPrice

PlainPosition(pos) ==
    /\ pos.shares = 1 /\ pos.trail_method = "sma20"
    /\ {pos.entry_price, pos.stop_price, pos.exit_price} \subseteq 0..LowPrice

Several == \A p \in Processes :
    /\ PlainOrder(draft[p])
    /\ \A i \in 1..Len(pdata[p]) : PlainPosition(pdata[p][i])

\* One order and one position, of any size and price.
Single == \A p \in Processes :
    /\ draft[p].order_kind = "entry"
    /\ Len(odata[p]) <= 1 /\ issued <= 1

MCInit == Init /\ Local!Init /\ part \in {"several", "single", "local"}

MCNext ==
    \/ part = "several" /\ Next /\ Several' /\ UNCHANGED <<part, local>>
    \/ part = "single" /\ Next /\ Single' /\ UNCHANGED <<part, local>>
    \/ part = "local" /\ Local!Next /\ UNCHANGED <<part, vars>>

MCSpec == MCInit /\ [][MCNext]_<<part, vars, local>>

-----------------------------------------------------------------------------
\* LocalBook's properties: what was bought is held, and the stop orders cover it.
LocalBookAgrees == Local!BoughtIsHeld /\ Local!StopsCover

-----------------------------------------------------------------------------
(* What the documentation says and the code does not do.                     *)

\* The fill endpoint: "Mark a pending order as filled and create an open
\* position."  Whatever goes wrong half way, a filled order has its position,
\* or the handler that fills it is still at work.
FillCreatesPosition ==
    \A i \in 1..Len(orders) :
        orders[i].status = "filled" =>
            \/ \E j \in 1..Len(positions) :
                   /\ positions[j].ticker = orders[i].ticker
                   /\ positions[j].source_order_id = orders[i].number
            \/ \E p \in Processes :
                   /\ pc[p] \in {"fill_open", "write_positions"}
                   /\ SameOrder(draft[p], orders[i])

=============================================================================
