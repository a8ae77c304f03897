------------------------------ MODULE Reentry ------------------------------
(***************************************************************************)
(* A ticker in the screener and in the portfolio                           *)
(* (api/services/same_symbol_reentry.py, and _apply_same_symbol_filter and *)
(* _enrich_and_rank of screener_service.py).                                *)
(*                                                                         *)
(* A run computes a candidate, then looks in the portfolio: it reads the   *)
(* open positions, the closed ones and the orders one after the other,     *)
(* each with network calls in between, asks the stop rules about the       *)
(* position it found, and shows the candidate as a new entry, as a         *)
(* re-entry, as an add-on sized by what the position leaves of the budget, *)
(* or as a position to manage.  Meanwhile the user orders, fills, raises   *)
(* stops, sells and closes.                                                *)
(*                                                                         *)
(* Orders and positions are those of the ticker, as orders_service.py and  *)
(* portfolio/write.py leave them; Book has their steps.                    *)
(***************************************************************************)
EXTENDS Sizing, Sequences, FiniteSetsExt

CONSTANTS
    Lots,           \* sizes of purchases made elsewhere
    MaxPositions    \* bound: positions ever opened

ASSUME LotsAssumption == Lots \subseteq Nat \ {0}
ASSUME MaxPositionsAssumption == MaxPositions \in Nat

VARIABLES
    positions,      \* positions.json, in the order they were opened; of a closed one
                    \* what matters is whether it closed lately
    purchase,       \* a position was opened since the run looked for one
    order,          \* the active entry order, of which there is at most one
    run,            \* the run, at its next step
    shown,          \* the candidate that was last shown, while it may be ordered
    moments         \* what was true of the ticker at some moment since the run
                    \* began to look in the portfolio

vars == <<positions, purchase, order, run, shown, moments>>

-----------------------------------------------------------------------------
NoOrder == [entry |-> None, stop |-> None, shares |-> 0]
Nobody == [shares |-> 0]
Nothing == [mode |-> "none"]
Idle == [at |-> "idle"]
Sold(recent) == [status |-> "closed", recent |-> recent]

\* None, or the place of the first open position: its stop is the live one.
OpenPlaces == {i \in 1..Len(positions) : positions[i].status = "open"}
FirstOpen == IF OpenPlaces = {} THEN None ELSE Min(OpenPlaces)
RecentlyClosed ==
    \E i \in 1..Len(positions) : positions[i] = Sold(TRUE)

\* What is true of the ticker now.
Situation ==
    (IF OpenPlaces # {} THEN {"held"} ELSE {}) \cup
    (IF RecentlyClosed THEN {"left"} ELSE {}) \cup
    (IF OpenPlaces = {} /\ ~RecentlyClosed THEN {"fresh"} ELSE {})

\* _current_position_risk
RiskOf(p) == Max({0, p.entry - p.stop}) * p.shares

Init ==
    /\ positions = <<>>
    /\ purchase = FALSE
    /\ order = NoOrder
    /\ run = Idle
    /\ shown = Nothing
    /\ moments = {}

-----------------------------------------------------------------------------
(* The run. *)

\* What a run can make of the ticker before it looks in the portfolio: the regime of
\* the benchmark, the signal board, the plan and the pattern (_build_candidates), and
\* what the action, by fundamentals and indicators, makes of a candidate without a
\* signal.
Screened ==
    LET Setup(budget, active, entry, stop, level, act) ==
            LET rec == Candidate(active, entry, stop, level, budget)
            IN  [budget |-> budget, rec |-> rec,
                 rebuilt |-> Rebuilt(active, rec, act, budget)]
        budgets == {Budget(weak, wild) : weak, wild \in BOOLEAN}
        pairs == {p \in Prices \X (Prices \cup {None}) : p[2] < p[1]}
        acts == {DecisionAction(technical, fundamentals, expensive, "new") :
                    technical, fundamentals \in Labels, expensive \in BOOLEAN}
    IN  \* A signal and no ATR do not go together: there is no stop to plan with.
        {Setup(budget, signal /\ pair[2] # None, pair[1], pair[2], level, act) :
            budget \in budgets, signal \in BOOLEAN, pair \in pairs,
            level \in Prices, act \in acts}

\* What is on the page gives way to the run (bound: it is not ordered while the run
\* goes on).
Screen ==
    /\ run = Idle
    /\ \E s \in Screened :
        run' = [at |-> "open", budget |-> s.budget, rec |-> s.rec, rebuilt |-> s.rebuilt]
    /\ shown' = Nothing
    /\ UNCHANGED <<positions, purchase, order, moments>>

\* list_positions(status="open").
ReadOpen ==
    /\ run.at = "open"
    /\ run' = [at |-> "closed", budget |-> run.budget, rec |-> run.rec,
                rebuilt |-> run.rebuilt, held |-> FirstOpen,
                as |-> IF FirstOpen = None THEN Nobody ELSE positions[FirstOpen],
                several |-> Cardinality(OpenPlaces) > 1,
                left |-> FALSE, pending |-> FALSE]
    /\ moments' = Situation
    /\ purchase' = FALSE
    /\ UNCHANGED <<positions, order, shown>>

\* list_positions(status="closed"), later: what has closed meanwhile is in neither
\* list or in both.
ReadClosed ==
    /\ run.at = "closed"
    /\ run' = [run EXCEPT !.at = "orders", !.left = RecentlyClosed]
    /\ UNCHANGED <<positions, purchase, order, shown, moments>>

\* list_local_orders; when it fails the run goes on as if there were no orders.
ReadOrders ==
    /\ run.at = "orders"
    /\ \E failed \in BOOLEAN :
        run' = [run EXCEPT !.at = "evaluate", !.pending = ~failed /\ order # NoOrder]
    /\ UNCHANGED <<positions, purchase, order, shown, moments>>

Finish(candidate) ==
    /\ shown' = candidate
    /\ run' = Idle
    /\ moments' = {}
    /\ UNCHANGED <<positions, purchase, order>>

\* What is not recommended is not followed: who orders it does so on his own account.
Show(mode, rec) ==
    Finish(IF rec.verdict THEN [mode |-> mode, rec |-> rec, budget |-> run.budget,
                                several |-> run.several]
           ELSE Nothing)

\* A faulty form: the closed positions are not looked at.
ShowFresh_New ==
    /\ run.at = "evaluate"
    /\ run.held = None
    /\ Show("NEW_ENTRY", run.rebuilt)

\* No open position: the candidate as it was computed, or as the decision rebuilds it.
ShowFresh ==
    /\ run.at = "evaluate"
    /\ run.held = None
    /\ Show(IF run.left THEN "RE_ENTRY" ELSE "NEW_ENTRY", run.rebuilt)

\* An open position and no add-on: the candidate keeps its own prices (MANAGE_ONLY
\* rebuilds nothing), or is left out when it is not recommended.  It is not, its stop
\* is not below the entry, an entry order is waiting, nothing is left of the budget,
\* or the position's stop action is to close, or cannot be had; the last may always be.
ManageOnly ==
    /\ run.at = "evaluate"
    /\ run.held # None
    /\ Show("MANAGE_ONLY", run.rec)

\* A faulty form: the fresh setup's risk per share is used, not the live stop's.
AddOnShares_FreshStop(price) ==
    LET left == run.budget - RiskOf(run.as)
    IN  Min({run.rec.shares, left \div (run.rec.entry - run.rec.stop),
             (Cap - price * run.as.shares) \div run.rec.entry})

\* What the position leaves of the budget, at its live stop, and of the cap, at the
\* price the list came with.
AddOnShares(price) ==
    LET left == run.budget - RiskOf(run.as)
    IN  Min({run.rec.shares, left \div (run.rec.entry - run.as.stop),
             (Cap - price * run.as.shares) \div run.rec.entry})

\* suggest_position_stop reads the position again, and refuses a closed one.
ShowAddOn ==
    /\ run.at = "evaluate"
    /\ run.held # None
    /\ run.rec.verdict
    /\ run.as.stop < run.rec.entry
    /\ ~run.pending
    /\ positions[run.held].status = "open"
    /\ \E price \in Prices :
        /\ AddOnShares(price) >= MinShares
        /\ Show(IF run.as.trimmed THEN "SCALE_BACK" ELSE "ADD_ON",
                [run.rec EXCEPT !.stop = run.as.stop, !.shares = AddOnShares(price)])

Look == ReadOpen \/ ReadClosed \/ ReadOrders
Evaluate == ShowFresh \/ ManageOnly \/ ShowAddOn

-----------------------------------------------------------------------------
(* The user. *)

AddOns == {"ADD_ON", "SCALE_BACK"}
Modes == AddOns \cup {"NEW_ENTRY", "RE_ENTRY", "MANAGE_ONLY"}

\* Beside an open position the dialog makes an add-on of a candidate of any mode
\* (resolveSameSymbolContext), and else asks for what it was shown as.  create_order
\* wants an open position for an add-on, and none for an entry.
Orderable ==
    /\ shown # Nothing
    /\ shown.mode \in AddOns => OpenPlaces # {}

\* What becomes of the portfolio, under the eyes of a run or not.
Portfolio(change) ==
    /\ positions' = change
    /\ purchase' = (purchase \/ Len(change) > Len(positions))
    /\ moments' = IF run.at \in {"closed", "orders", "evaluate"}
                  THEN moments \cup Situation' ELSE moments
    /\ UNCHANGED <<run, shown>>

\* The order dialog's defaults at the price that the run suggests: the breakout level
\* or a pullback from the last price, or, with no suggestion, the entry.  The size and
\* the stop are the candidate's own, less where that price does not bear them.
Dialog(limit) ==
    [entry |-> limit,
     stop |-> Max({1, Min({shown.rec.stop, limit - 1})}),
     shares |-> Max({1, Min({shown.rec.shares, Cap \div limit})})]

Enter(entryOrder) ==
    /\ order = NoOrder
    /\ entryOrder.stop < entryOrder.entry
    /\ order' = entryOrder
    /\ UNCHANGED <<positions, purchase, run, shown, moments>>

CreateOrder ==
    /\ Orderable
    /\ \E limit \in Prices : Enter(Dialog(limit))

\* The fields of the dialog are edited, or what was not recommended is ordered.
OrderByHand ==
    \E entry, stop \in Prices, shares \in Lots :
        Enter([entry |-> entry, stop |-> stop, shares |-> shares])

CancelOrder ==
    /\ order # NoOrder
    /\ order' = NoOrder
    /\ UNCHANGED <<positions, purchase, run, shown, moments>>

Opened(entry, stop, shares) ==
    Append(positions, [entry |-> entry, stop |-> stop, shares |-> shares,
                       trimmed |-> FALSE, status |-> "open"])

\* fill_order: above the stop, at the limit or, of a breakout, past it; a new position.
FillOrder ==
    /\ order # NoOrder
    /\ Len(positions) < MaxPositions
    /\ \E price \in Prices :
        /\ order.stop < price
        /\ Portfolio(Opened(price, order.stop, order.shares))
    /\ order' = NoOrder

\* create_position: a purchase made elsewhere.
CreatePosition ==
    /\ Len(positions) < MaxPositions
    /\ \E entry, stop \in Prices, shares \in Lots :
        /\ stop < entry
        /\ Portfolio(Opened(entry, stop, shares))
    /\ UNCHANGED order

\* A faulty form: the stop is set to any price.
RaiseStop_Any(i) ==
    /\ \E stop \in Prices : Portfolio([positions EXCEPT ![i].stop = stop])
    /\ UNCHANGED order

\* update_position_stop only raises a stop; it may pass the entry.
RaiseStop(i) ==
    /\ \E stop \in Prices :
        /\ stop > positions[i].stop
        /\ Portfolio([positions EXCEPT ![i].stop = stop])
    /\ UNCHANGED order

PartialClose(i) ==
    /\ \E sold \in 1..(positions[i].shares - 1) :
        Portfolio([positions EXCEPT ![i].shares = @ - sold, ![i].trimmed = TRUE])
    /\ UNCHANGED order

Close(i) ==
    /\ Portfolio([positions EXCEPT ![i] = Sold(TRUE)])
    /\ UNCHANGED order

\* Days pass, between runs, until no exit is in the last reentry_lookback_days.
Forget ==
    /\ run = Idle
    /\ RecentlyClosed
    /\ Portfolio([i \in 1..Len(positions) |->
                    IF positions[i] = Sold(TRUE) THEN Sold(FALSE) ELSE positions[i]])
    /\ UNCHANGED order

User ==
    \/ CreateOrder \/ OrderByHand \/ CancelOrder \/ FillOrder \/ CreatePosition
    \/ \E i \in OpenPlaces : RaiseStop(i) \/ PartialClose(i) \/ Close(i)
    \/ Forget

Next == Screen \/ Look \/ Evaluate \/ User

Spec == Init /\ [][Next]_vars

-----------------------------------------------------------------------------
(* Properties *)

RiskShown == (shown.rec.entry - shown.rec.stop) * shown.rec.shares

\* "Risk within target budget": whatever way a candidate came to be recommended (a
\* plan, a pattern's stop, the decision, an add-on at the live stop), a trade at its
\* prices can be had, loses no more than the budget of the run and costs no more
\* than the cap.
RecommendedFits ==
    shown # Nothing =>
        /\ shown.rec.shares >= MinShares
        /\ RiskShown \in 1..shown.budget
        /\ shown.rec.entry * shown.rec.shares <= Cap

\* "Portfolio-aware": whenever the dialog may be opened on a candidate and no other
\* purchase came between, what the order it offers would lose and what the open position
\* would, together, are within the budget of the run, whatever stops were raised and
\* shares sold since the run looked: but for what the suggested price exceeds the entry
\* the candidate was sized at, on each share.  (When the run found one open position or
\* none: an add-on beside several is sized by the first of them alone.  And not when the
\* dialog makes an add-on of a candidate that was to be managed only: it has the size of
\* a new entry.)
OpenRisk == MapThenSumSet(LAMBDA i : RiskOf(positions[i]), OpenPlaces)

Loss(entryOrder) == (entryOrder.entry - entryOrder.stop) * entryOrder.shares

Excess(limit) == Max({0, limit - shown.rec.entry}) * Dialog(limit).shares

AddOnFits ==
    /\ Orderable /\ ~purchase /\ ~shown.several
    /\ shown.mode = "MANAGE_ONLY" => OpenPlaces = {}
    => \A limit \in Prices :
           OpenRisk + Loss(Dialog(limit)) <= shown.budget + Excess(limit)

\* The three reads are of different moments, but what the candidate is shown as was
\* true of the ticker at one of them or between: a position that closes or opens
\* meanwhile does not make a new entry of what never was one.
ModeTrue ==
    [][ /\ shown'.mode = "NEW_ENTRY" => "fresh" \in moments
        /\ shown'.mode = "RE_ENTRY" => "left" \in moments
        /\ shown'.mode \in AddOns => "held" \in moments ]_shown

=============================================================================
