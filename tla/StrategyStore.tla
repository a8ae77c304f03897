---------------------------- MODULE StrategyStore ----------------------------
(* strategies.yaml: the strategies and which one is active, in one document   *)
(* that every operation reads, normalises and writes as a whole, without a    *)
(* lock.  The strategy endpoints run on the event loop, one at a time; runs   *)
(* ask for the active strategy from threads of their own.                     *)
EXTENDS Integers, FiniteSets

CONSTANTS
    Ids,                \* of strategies besides the default one
    Threads, MaxEdits

VARIABLES
    doc,                \* the document
    pc, op,             \* each process's step, and what the endpoint was asked
    list, active,       \* what it read: the strategies and the active id
    base,               \* the document its next write starts from
    edits,              \* edits made so far
    first,              \* the document as it was found
    told,               \* the document as the endpoints' answers tell it
    crossed,            \* a thread wrote over an edit made since its read
    overruled           \* a thread made the default strategy active

Handler == "handler"
Processes == {Handler} \cup Threads
Default == "default"
AllIds == Ids \cup {Default}

locals == <<pc, op, list, active, base>>
vars == <<doc, locals, edits, first, told, crossed, overruled>>

NoOp == [kind |-> "none", id |-> Default]

\* Strategies map ids to versions.  A document of an earlier release lacks
\* settings that were added since, or the default strategy.
NoStrategies == [i \in {} |-> 0]

IdsOf(d) == DOMAIN d.strategies

\* _normalize_document: fills in what is missing, and an active id that is not
\* among the strategies becomes the default's.
Normalized(d) ==
    LET ids == IdsOf(d) \cup {Default}
    IN  [strategies |-> [i \in ids |-> IF i \in IdsOf(d) THEN d.strategies[i] ELSE 0],
         active |-> IF d.active \in ids THEN d.active ELSE Default,
         old |-> FALSE]

\* What a load that always writes back would take for changed.
Dirty_Always(d) == TRUE

Dirty(d) == d # Normalized(d)

Init ==
    /\ \E old \in BOOLEAN, ids \in {{}, {Default}} :
           doc = [strategies |-> [i \in ids |-> 0], active |-> Default, old |-> old]
    /\ pc = [p \in Processes |-> "idle"]
    /\ op = NoOp
    /\ list = [p \in Processes |-> NoStrategies]
    /\ active = [p \in Processes |-> Default]
    /\ base = [p \in Processes |-> doc]
    /\ edits = 0
    /\ first = doc
    /\ told = Normalized(doc)
    /\ crossed = FALSE /\ overruled = FALSE

-----------------------------------------------------------------------------
(* Steps on the document.                                                    *)

Goto(p, step) == pc' = [pc EXCEPT ![p] = step]

Read(p) == base' = [base EXCEPT ![p] = doc]

\* A write replaces whatever was written since the read.
Write(d) == doc' = d

\* load_strategies: a document that normalisation changes is written back.
LoadStrategies(p, at, back, next) ==
    /\ pc[p] = at
    /\ Read(p)
    /\ list' = [list EXCEPT ![p] = Normalized(doc).strategies]
    /\ Goto(p, IF Dirty(doc) THEN back ELSE next)
    /\ UNCHANGED <<doc, op, active, edits, first, told, crossed, overruled>>

\* load_active_strategy_id.
LoadActive(p, at, back, next) ==
    /\ pc[p] = at
    /\ Read(p)
    /\ active' = [active EXCEPT ![p] = Normalized(doc).active]
    /\ Goto(p, IF Dirty(doc) THEN back ELSE next)
    /\ UNCHANGED <<doc, op, list, edits, first, told, crossed, overruled>>

WriteBack(p, at, next) ==
    /\ pc[p] = at
    /\ Write(Normalized(base[p]))
    /\ crossed' = (crossed \/ (p # Handler /\ base[p] = first /\ base[p] # doc))
    /\ Goto(p, next)
    /\ UNCHANGED <<op, list, active, base, edits, first, told, overruled>>

\* save_strategies and set_active_strategy_id read the document for the half that
\* they keep.
ReadForWrite(p, at, next) ==
    /\ pc[p] = at
    /\ Read(p)
    /\ Goto(p, next)
    /\ UNCHANGED <<doc, op, list, active, edits, first, told, crossed, overruled>>

WithStrategies(d, ss) == Normalized([d EXCEPT !.strategies = ss])

WithActive(d, i) == Normalized([d EXCEPT !.active = i])

-----------------------------------------------------------------------------
(* The endpoints.                                                            *)

Request ==
    /\ pc[Handler] = "idle" /\ edits < MaxEdits
    /\ \E kind \in {"create", "update", "delete", "activate"}, i \in AllIds :
           /\ kind \in {"create", "delete"} => i # Default
           /\ op' = [kind |-> kind, id |-> i]
    /\ edits' = edits + 1
    /\ Goto(Handler, "list")
    /\ UNCHANGED <<doc, list, active, base, first, told, crossed, overruled>>

\* Not found, or there already.
Refused ==
    LET found == op.id \in DOMAIN list[Handler]
    IN  IF op.kind = "create" THEN found ELSE ~found

Refuse ==
    /\ pc[Handler] = "check" /\ Refused
    /\ Goto(Handler, "idle")
    /\ op' = NoOp
    /\ UNCHANGED <<doc, list, active, base, edits, first, told, crossed, overruled>>

\* A deletion first asks which strategy is active.
Check ==
    /\ pc[Handler] = "check" /\ ~Refused
    /\ Goto(Handler, CASE op.kind = "delete" -> "ask"
                       [] op.kind = "activate" -> "activate"
                       [] OTHER -> "save")
    /\ UNCHANGED <<doc, op, list, active, base, edits, first, told, crossed, overruled>>

\* The strategies after a creation, an update or a deletion.
Edited(ss) ==
    IF op.kind = "delete" THEN [i \in DOMAIN ss \ {op.id} |-> ss[i]]
    ELSE [i \in DOMAIN ss \cup {op.id} |-> IF i = op.id THEN edits ELSE ss[i]]

WriteStrategies ==
    /\ pc[Handler] = "write"
    /\ Write(WithStrategies(base[Handler], Edited(list[Handler])))
    /\ told' = WithStrategies(told, Edited(told.strategies))
    /\ IF op.kind = "delete" /\ active[Handler] = op.id
       THEN Goto(Handler, "reset") /\ UNCHANGED op
       ELSE Goto(Handler, "idle") /\ op' = NoOp
    /\ UNCHANGED <<list, active, base, edits, first, crossed, overruled>>

\* The active strategy is set, or the default one after a deletion.
Activate ==
    /\ pc[Handler] = "set"
    /\ LET i == IF op.kind = "delete" THEN Default ELSE op.id
       IN  /\ Write(WithActive(base[Handler], i))
           /\ told' = WithActive(told, i)
    /\ Goto(Handler, "idle")
    /\ op' = NoOp
    /\ overruled' = FALSE
    /\ UNCHANGED <<list, active, base, edits, first, crossed>>

Endpoint ==
    \/ Request
    \/ LoadStrategies(Handler, "list", "mend list", "check")
    \/ WriteBack(Handler, "mend list", "check")
    \/ Refuse \/ Check
    \/ LoadActive(Handler, "ask", "mend", "save") \/ WriteBack(Handler, "mend", "save")
    \/ ReadForWrite(Handler, "save", "write")
    \/ WriteStrategies
    \/ ReadForWrite(Handler, "activate", "set") \/ ReadForWrite(Handler, "reset", "set")
    \/ Activate

-----------------------------------------------------------------------------
(* get_active_strategy, on a thread: the strategies are read, then the active *)
(* id; an id that is not among the strategies makes the default one active.   *)

Start(t) ==
    /\ pc[t] = "idle"
    /\ Goto(t, "list")
    /\ UNCHANGED <<doc, op, list, active, base, edits, first, told, crossed, overruled>>

Choose(t) ==
    /\ pc[t] = "choose"
    /\ Goto(t, IF active[t] \in DOMAIN list[t] THEN "idle" ELSE "reset")
    /\ UNCHANGED <<doc, op, list, active, base, edits, first, told, crossed, overruled>>

ResetActive(t) ==
    /\ pc[t] = "set"
    /\ Write(WithActive(base[t], Default))
    /\ crossed' = (crossed \/ base[t] # doc)
    /\ overruled' = TRUE
    /\ Goto(t, "idle")
    /\ UNCHANGED <<op, list, active, base, edits, first, told>>

GetActiveStrategy(t) ==
    \/ Start(t)
    \/ LoadStrategies(t, "list", "mend list", "active")
    \/ WriteBack(t, "mend list", "active")
    \/ LoadActive(t, "active", "mend", "choose") \/ WriteBack(t, "mend", "choose")
    \/ Choose(t)
    \/ ReadForWrite(t, "reset", "set")
    \/ ResetActive(t)

Next ==
    \/ Endpoint
    \/ \E t \in Threads : GetActiveStrategy(t)

Spec == Init /\ [][Next]_vars

-----------------------------------------------------------------------------
\* Between two requests the document holds the strategies as the endpoints answered
\* them, and the active one, unless a thread put the default one in its place.
\* Asking for the active strategy loses nothing else, but when a thread that read
\* the document as it was found, or that resets the active strategy, wrote over a
\* later edit.
EditsAreKept ==
    pc[Handler] = "idle" /\ ~crossed =>
        /\ Normalized(doc).strategies = told.strategies
        /\ \/ Normalized(doc).active = told.active
           \/ overruled /\ Normalized(doc).active = Default
=============================================================================
