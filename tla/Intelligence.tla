---------------------------- MODULE Intelligence ----------------------------
(***************************************************************************)
(* The analyses that are kept (src/swing_screener/intelligence/cache.py,   *)
(* history.py and symbol_analyzer.py, asked by api/routers/                *)
(* intelligence.py).                                                       *)
(*                                                                         *)
(* A request answers with what the sweep file of the day holds of its      *)
(* ticker, or asks the model.  What the model says goes into the sweep     *)
(* file, which all tickers share, and into the history of the ticker.      *)
(* Each of the two is read and rewritten without a lock by threads, a file *)
(* that cannot be read counts as empty, and a write that fails is only     *)
(* logged.                                                                 *)
(*                                                                         *)
(* A setup and a position are asked about alike, as the cache does not     *)
(* tell them apart.  The metrics, a third file, are for display.           *)
(***************************************************************************)
EXTENDS Integers, Sequences, FiniteSets

CONSTANTS
    Tickers,
    LastDay,            \* bound of the days
    Views,              \* what the model may say
    MaxEntries,         \* analysis_history.max_entries
    Analysts,           \* requests in progress at once; a sweep is one after another
    MaxMishaps          \* bound: crashes and writes that fail

Days == 1..LastDay

VARIABLES
    today,
    sweep,              \* sweep[d][t]: the analysis in the file of day d, if any
    sweepCut,           \* the days whose file is cut
    history,            \* history[t]: the entries, the first one first
    historyCut,         \* the tickers whose file is cut
    run,                \* run[p]: a request, at its next step
    mishaps,
    said,               \* said[t][d]: the last analysis of day d that was kept
    smeared,            \* days whose file was rewritten by two requests at once
    spoiled             \* tickers whose history is not that of one request at a time

sweeps == <<sweep, sweepCut>>
histories == <<history, historyCut>>
ghosts == <<said, smeared, spoiled>>
vars == <<today, sweeps, histories, run, mishaps, ghosts>>

-----------------------------------------------------------------------------
Idle == [pc |-> "idle"]

\* A request that holds what the model said.
Analysis(step, t, made) == [pc |-> step, ticker |-> t, made |-> made]

Nothing == [t \in Tickers |-> {}]

At(r, step) == [r EXCEPT !.pc = step]

Becomes(p, r) == run' = [run EXCEPT ![p] = r]

Mishap == mishaps < MaxMishaps /\ mishaps' = mishaps + 1

\* The others at one of these steps.
Others(p, steps) == {q \in Analysts \ {p} : run[q].pc \in steps}

Sweeping == {"cut_sweep", "dump_sweep"}
Keeping == {"history", "cut_history", "dump_history"}

Init ==
    /\ today = 1
    /\ sweep = [d \in Days |-> Nothing] /\ sweepCut = {}
    /\ history = [t \in Tickers |-> <<>>] /\ historyCut = {}
    /\ run = [p \in Analysts |-> Idle]
    /\ mishaps = 0
    /\ said = [t \in Tickers |-> [d \in Days |-> {}]]
    /\ smeared = {} /\ spoiled = {}

-----------------------------------------------------------------------------
\* analyze_symbol, analyze_position, and each symbol of a sweep.
Ask(p, t, force) ==
    /\ run[p].pc = "idle"
    /\ Becomes(p, [pc |-> IF force THEN "call" ELSE "look", ticker |-> t])
    /\ UNCHANGED <<today, sweeps, histories, mishaps, ghosts>>

\* read_from_cache, of today.
Cached(t) == IF today \in sweepCut THEN {} ELSE sweep[today][t]

Look(p) ==
    /\ run[p].pc = "look"
    /\ Becomes(p, IF Cached(run[p].ticker) # {} THEN Idle
                  ELSE [pc |-> "call", ticker |-> run[p].ticker])
    /\ UNCHANGED <<today, sweeps, histories, mishaps, ghosts>>

\* SymbolAnalyzer.analyze: the model answers, or it does not.
Call(p) ==
    /\ run[p].pc = "call"
    /\ \/ Becomes(p, Idle)
       \/ \E view \in Views :
              Becomes(p, Analysis("sweep", run[p].ticker, [day |-> today, view |-> view]))
    /\ UNCHANGED <<today, sweeps, histories, mishaps, ghosts>>

\* write_to_cache: the day is that of the write,
ReadSweep(p) ==
    /\ run[p].pc = "sweep"
    /\ Becomes(p, [pc |-> "cut_sweep", ticker |-> run[p].ticker, made |-> run[p].made,
                   day |-> today,
                   read |-> IF today \in sweepCut THEN Nothing ELSE sweep[today]])
    /\ UNCHANGED <<today, sweeps, histories, mishaps, ghosts>>

\* and the file is cut
CutSweep(p) ==
    /\ run[p].pc = "cut_sweep"
    /\ sweepCut' = sweepCut \cup {run[p].day}
    /\ Becomes(p, At(run[p], "dump_sweep"))
    /\ UNCHANGED <<today, sweep, histories, mishaps, ghosts>>

\* Days whose file another request is about to rewrite from what it has read.
Mixed(p) == {run[p].day} \cap {run[q].day : q \in Others(p, Sweeping)}

\* and written with this analysis.
DumpSweep(p) ==
    LET r == run[p]
    IN  /\ r.pc = "dump_sweep"
        /\ sweep' = [sweep EXCEPT ![r.day] = [r.read EXCEPT ![r.ticker] = {r.made}]]
        /\ sweepCut' = sweepCut \ {r.day}
        /\ smeared' = smeared \cup Mixed(p)
        /\ Becomes(p, Analysis("history", r.ticker, r.made))
        /\ UNCHANGED <<today, histories, mishaps, said, spoiled>>

DumpSweepFails(p) ==
    /\ run[p].pc = "dump_sweep"
    /\ Mishap
    /\ smeared' = smeared \cup Mixed(p)
    /\ Becomes(p, Analysis("history", run[p].ticker, run[p].made))
    /\ UNCHANGED <<today, sweeps, histories, said, spoiled>>

\* append_history: the entries are read, none if they cannot be,
ReadHistory(p) ==
    LET t == run[p].ticker
    IN  /\ run[p].pc = "history"
        /\ Becomes(p, [pc |-> "cut_history", ticker |-> t, made |-> run[p].made,
                       lost |-> t \in historyCut,
                       read |-> IF t \in historyCut THEN <<>> ELSE history[t]])
        /\ UNCHANGED <<today, sweeps, histories, mishaps, ghosts>>

CutHistory(p) ==
    /\ run[p].pc = "cut_history"
    /\ historyCut' = historyCut \cup {run[p].ticker}
    /\ Becomes(p, At(run[p], "dump_history"))
    /\ UNCHANGED <<today, sweeps, history, mishaps, ghosts>>

\* The entries of other days, in their order.
OfOtherDays(entries, d) ==
    LET kept == {i \in DOMAIN entries : entries[i].day # d}
        Before(i) == Cardinality({j \in kept : j < i})
    IN  [n \in 1..Cardinality(kept) |-> entries[CHOOSE i \in kept : Before(i) = n - 1]]

Capped(entries) ==
    SubSeq(entries, 1, IF Len(entries) < MaxEntries THEN Len(entries) ELSE MaxEntries)

\* A faulty form: an analysis is kept beside those of its day.
Prepended_All(made, entries) == Capped(<<made>> \o entries)

\* The new entry takes the place of those of its day, and the oldest one goes.
Prepended(made, entries) == Capped(<<made>> \o OfOtherDays(entries, made.day))

\* An analysis that is kept after one of a later day is out of place.
Late(r) == \E i \in DOMAIN r.read : r.read[i].day > r.made.day

DumpHistory(p) ==
    LET r == run[p]
        t == r.ticker
    IN  /\ r.pc = "dump_history"
        /\ history' = [history EXCEPT ![t] = Prepended(r.made, r.read)]
        /\ historyCut' = historyCut \ {t}
        /\ said' = [said EXCEPT ![t][r.made.day] = {r.made}]
        /\ spoiled' = spoiled \cup
               IF \/ r.lost \/ Late(r)
                  \/ \E q \in Others(p, Sweeping \cup {"sweep"} \cup Keeping) :
                         run[q].ticker = t
               THEN {t} ELSE {}
        /\ Becomes(p, Idle)
        /\ UNCHANGED <<today, sweeps, mishaps, smeared>>

DumpHistoryFails(p) ==
    /\ run[p].pc = "dump_history"
    /\ Mishap
    /\ spoiled' = spoiled \cup {run[p].ticker}
    /\ Becomes(p, Idle)
    /\ UNCHANGED <<today, sweeps, histories, said, smeared>>

\* The server dies, perhaps between the two files.
Crash ==
    /\ Mishap
    /\ spoiled' = spoiled \cup
           {run[p].ticker : p \in {q \in Analysts : run[q].pc \in Keeping}}
    /\ run' = [p \in Analysts |-> Idle]
    /\ UNCHANGED <<today, sweeps, histories, said, smeared>>

Tick ==
    /\ today < LastDay
    /\ today' = today + 1
    /\ UNCHANGED <<sweeps, histories, run, mishaps, ghosts>>

Next ==
    \/ Tick \/ Crash
    \/ \E p \in Analysts :
           \/ \E t \in Tickers, force \in BOOLEAN : Ask(p, t, force)
           \/ Look(p) \/ Call(p)
           \/ ReadSweep(p) \/ CutSweep(p) \/ DumpSweep(p) \/ DumpSweepFails(p)
           \/ ReadHistory(p) \/ CutHistory(p) \/ DumpHistory(p) \/ DumpHistoryFails(p)

Spec == Init /\ [][Next]_vars

-----------------------------------------------------------------------------
\* Entries that are the last analysis of each day, the newest day first, of the newest
\* MaxEntries days.
IsHistory(entries, last) ==
    /\ Len(entries) <= MaxEntries
    /\ \A i \in DOMAIN entries :
           /\ last[entries[i].day] = {entries[i]}
           /\ \A j \in DOMAIN entries : i < j => entries[j].day < entries[i].day
    /\ \A d \in Days : last[d] # {} =>
           \/ \E i \in DOMAIN entries : entries[i].day = d
           \/ Len(entries) = MaxEntries /\ \A i \in DOMAIN entries : d < entries[i].day

\* "A re-run on the same calendar day replaces that day's entry rather than stacking",
\* "a newest-first list capped at max_entries": whatever is asked and forced over the
\* days, unless requests for one ticker overlap, one ends a day later than another that
\* began after it, or a write is left unfinished.
HistoryKept == \A t \in Tickers \ spoiled : IsHistory(history[t], said[t])

\* The two files agree: what a client is answered from the cache is what the history
\* of the ticker tells last, if it is kept at all, also when it was said just before
\* midnight.
CacheAgrees ==
    \A t \in Tickers \ spoiled :
        (/\ MaxEntries > 0
         /\ today \notin smeared \cup sweepCut
         /\ \A p \in Analysts : run[p].pc \in Keeping => run[p].ticker # t) =>
            \A e \in sweep[today][t] : history[t] # <<>> /\ Head(history[t]) = e

AnalysesKept == HistoryKept /\ CacheAgrees
=============================================================================
