------------------------------- MODULE Screen -------------------------------
(* Screener runs, side by side on the server's threads: a run takes its       *)
(* symbols from the pool and the review queue, fetches their bars, records    *)
(* which could not be fetched, evaluates them through the evaluation cache    *)
(* and, once it succeeded, adds its candidates to the history of its date.    *)
EXTENDS Integers, FiniteSets

CONSTANTS
    Symbols, Runners,
    Benchmark,          \* fetched with every run; it may be a symbol of the pool
    Threshold,          \* failures in a row that put a symbol in the review queue
    MinBatch,           \* smallest run that can look like an outage
    Dates, KeepDates,   \* trading dates, and of how many the history is kept
    MaxCount            \* bound of the counters

VARIABLES
    count,              \* review_queue.json: failures in a row of the tracked symbols
    history,            \* screener_history.json: the tickers seen at each date
    evals,              \* the evaluation cache: what is evaluated, of which bars
    pc, asof, forced, requested,    \* each run's step and request
    bars,               \* what it fetched
    found,              \* its candidates
    read,               \* what it last read of a file it will write
    noted,              \* the dates and tickers that successful runs recorded
    clobbered,          \* dates recorded by runs that overlapped
    missed              \* symbols of which the last run that asked fetched no bars

files == <<count, history, evals>>
ghosts == <<noted, clobbered, missed>>
vars == <<files, pc, asof, forced, requested, bars, found, read, ghosts>>

Empty == [x \in {} |-> 0]

Tracked == DOMAIN count

Queued == {s \in Tracked : count[s] >= Threshold}

\* The counters may be those that an earlier server left.
Init ==
    /\ count \in UNION {[some -> 0..MaxCount] : some \in SUBSET Symbols}
    /\ history = Empty /\ evals = {}
    /\ pc = [r \in Runners |-> "idle"]
    /\ asof = [r \in Runners |-> 0]
    /\ forced = [r \in Runners |-> FALSE]
    /\ requested = [r \in Runners |-> {}]
    /\ bars = [r \in Runners |-> Empty]
    /\ found = [r \in Runners |-> {}]
    /\ read = [r \in Runners |-> Empty]
    /\ noted = {} /\ clobbered = {} /\ missed = {}

-----------------------------------------------------------------------------
\* The symbols that are asked for by name, or those of the pool that the filters
\* let through and that are not in the review queue.  The benchmark is fetched too.
ResolveUniverse(r) ==
    /\ pc[r] = "idle"
    /\ \E d \in Dates, named \in BOOLEAN, force \in BOOLEAN, some \in SUBSET Symbols :
           LET tickers == IF named THEN some ELSE some \ Queued
           IN  /\ tickers \ {Benchmark} # {}
               /\ asof' = [asof EXCEPT ![r] = d]
               /\ forced' = [forced EXCEPT ![r] = force]
               /\ requested' = [requested EXCEPT ![r] = tickers \ {Benchmark}]
    /\ pc' = [pc EXCEPT ![r] = "fetch"]
    /\ UNCHANGED <<files, bars, found, read, ghosts>>

\* The provider answers with a column for every ticker it is asked for, empty if
\* it has no bars of it; without any bar at all it raises and the run fails.
Frames(tickers) ==
    {f \in [tickers -> {"bars", "none"}] : \E t \in tickers : f[t] = "bars"}

FetchOhlcv(r) ==
    LET tickers == requested[r] \cup {Benchmark}
    IN  /\ pc[r] = "fetch"
        /\ \/ /\ bars' \in {[bars EXCEPT ![r] = f] : f \in Frames(tickers)}
              /\ pc' = [pc EXCEPT ![r] = "health"]
           \/ pc' = [pc EXCEPT ![r] = "failed"] /\ UNCHANGED bars
        /\ UNCHANGED <<files, asof, forced, requested, found, read, ghosts>>

-----------------------------------------------------------------------------
(* Recording which symbols were fetched.                                     *)

Fetched(r) == requested[r] \cap DOMAIN bars[r]

IsOutage(r, failed) ==
    /\ Cardinality(requested[r]) >= MinBatch
    /\ 2 * Cardinality(failed) >= Cardinality(requested[r])

Failed(r) ==
    LET failed == requested[r] \ DOMAIN bars[r]
    IN  IF IsOutage(r, failed) THEN {} ELSE failed

CountOf(s) == IF s \in Tracked THEN count[s] ELSE 0

\* The symbols without bars, but for an outage.
NoBars(r) ==
    LET none == {s \in requested[r] : bars[r][s] = "none"}
    IN  IF IsOutage(r, none) THEN {} ELSE none

\* Without a failure the file is only looked at, and left alone if no symbol of
\* the run is tracked; else it is updated under its lock.
ApplyFetchResults(r) ==
    /\ pc[r] = "health"
    /\ \A s \in Failed(r) : CountOf(s) < MaxCount
    /\ IF Failed(r) = {} /\ Fetched(r) \cap Tracked = {}
       THEN UNCHANGED count
       ELSE count' = [s \in Tracked \cup Failed(r) |->
                          IF s \in Failed(r) THEN CountOf(s) + 1
                          ELSE IF s \in Fetched(r) THEN 0 ELSE count[s]]
    /\ missed' = {s \in missed : s \notin requested[r] \/ bars[r][s] = "none"}
                     \cup NoBars(r)
    /\ pc' = [pc EXCEPT ![r] = "report"]
    /\ UNCHANGED <<history, evals, asof, forced, requested, bars, found, read,
                   noted, clobbered>>

\* A symbol of the queue is removed, or restored: both drop its entry.
Drop(s) ==
    /\ count' = [t \in Tracked \ {s} |-> count[t]]
    /\ missed' = missed \ {s}
    /\ UNCHANGED <<history, evals, pc, asof, forced, requested, bars, found, read,
                   noted, clobbered>>

-----------------------------------------------------------------------------
(* The report and the history.                                               *)

\* Evaluations of the date are taken from the cache, the others are computed from
\* the bars and cached; the candidates are among the evaluated.
DailyReport(r) ==
    LET hits == IF forced[r] THEN {}
                ELSE {s \in requested[r] : <<s, asof[r]>> \in evals}
        computed == {s \in requested[r] \ hits : bars[r][s] = "bars"}
    IN  /\ pc[r] = "report"
        /\ evals' = evals \cup {<<s, asof[r]>> : s \in computed}
        /\ \E some \in SUBSET (hits \cup computed) :
               /\ found' = [found EXCEPT ![r] = some]
               /\ pc' = [pc EXCEPT ![r] = IF some = {} THEN "done" ELSE "record"]
        /\ forced' = [forced EXCEPT ![r] = FALSE]
        /\ requested' = [requested EXCEPT ![r] = {}]
        /\ bars' = [bars EXCEPT ![r] = Empty]
        /\ UNCHANGED <<count, history, asof, read, ghosts>>

\* Evaluations a day old are deleted.
Prune ==
    /\ \E old \in SUBSET evals \ {{}} : evals' = evals \ old
    /\ UNCHANGED <<count, history, pc, asof, forced, requested, bars, found, read, ghosts>>

ReadHistory(r) ==
    /\ pc[r] = "record"
    /\ read' = [read EXCEPT ![r] = history]
    /\ pc' = [pc EXCEPT ![r] = "write"]
    /\ UNCHANGED <<files, asof, forced, requested, bars, found, ghosts>>

\* What a record that does not merge would do.
With_Replaced(h, d, ts) == [e \in DOMAIN h \cup {d} |-> IF e = d THEN ts ELSE h[e]]

\* The tickers join those of the date.
With(h, d, ts) ==
    [e \in DOMAIN h \cup {d} |->
        (IF e \in DOMAIN h THEN h[e] ELSE {}) \cup (IF e = d THEN ts ELSE {})]

\* The last of some dates.
Latest(dates) == {d \in dates : Cardinality({e \in dates : e > d}) < KeepDates}

Kept(h) == [d \in Latest(DOMAIN h) |-> h[d]]

WriteHistory(r) ==
    /\ pc[r] = "write"
    /\ history' = Kept(With(read[r], asof[r], found[r]))
    /\ noted' = noted \cup ({asof[r]} \X found[r])
    /\ clobbered' = IF read[r] = history THEN clobbered
                    ELSE clobbered \cup DOMAIN history
    /\ pc' = [pc EXCEPT ![r] = "done"]
    /\ UNCHANGED <<count, evals, asof, forced, requested, bars, found, read, missed>>

\* The run is over, or its record could not be written, which is only logged.
Finish(r) ==
    /\ pc[r] \in {"record", "write", "done", "failed"}
    /\ pc' = [pc EXCEPT ![r] = "idle"]
    /\ asof' = [asof EXCEPT ![r] = 0]
    /\ forced' = [forced EXCEPT ![r] = FALSE]
    /\ requested' = [requested EXCEPT ![r] = {}]
    /\ bars' = [bars EXCEPT ![r] = Empty]
    /\ found' = [found EXCEPT ![r] = {}]
    /\ read' = [read EXCEPT ![r] = Empty]
    /\ UNCHANGED <<files, ghosts>>

Next ==
    \/ \E r \in Runners :
           \/ ResolveUniverse(r) \/ FetchOhlcv(r) \/ ApplyFetchResults(r)
           \/ DailyReport(r) \/ ReadHistory(r) \/ WriteHistory(r) \/ Finish(r)
    \/ \E s \in Symbols : Drop(s)
    \/ Prune

Spec == Init /\ [][Next]_vars

-----------------------------------------------------------------------------
\* What a successful run found stays in the history of its date, next to what
\* other runs of the date found, for as long as the date is among the last that
\* are kept; records of runs that overlap are the exception.
HistoryIsKept ==
    \A n \in noted :
        n[1] \in Latest({m[1] : m \in noted}) \ clobbered =>
            n[1] \in DOMAIN history /\ n[2] \in history[n[1]]
=============================================================================
