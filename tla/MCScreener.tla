----------------------------- MODULE MCScreener -----------------------------
(* What a screener run meets on its way, on small instances, one part moving *)
(* at a time: the cache of bars, the records that runs leave behind, the     *)
(* active strategy, the portfolio beside which a candidate is shown, the     *)
(* daily review of both, the registry of what is screened, and the analyses  *)
(* that are kept of a candidate.                                             *)
(* And statements of the documentation that TLC refutes.                     *)
EXTENDS DailyReview, TLC

CONSTANTS
    Parts,
    LowPrice,           \* bound of prices in the part "review"
    Tickers, Fetchers, LastDay, Holes,
    MaxRequests,        \* of one fetcher, in the part "days"
    Symbols, Runners, Benchmark, Threshold, MinBatch, Dates, KeepDates, MaxCount,
    Ids, Threads, MaxEdits,
    Universes, Euronext, Instruments, Benchmarks, MaxMishaps,
    Analysts, Views, MaxEntries

ASSUME PartsAssumption ==
    /\ {MaxMishaps, MaxEntries, KeepDates} \subseteq Nat /\ LastDay \in Nat \ {0}
    /\ Euronext \subseteq Universes /\ "handler" \notin Threads

VARIABLES
    part,
    today, closed, file, young, index, cpc, want, seen, stale, misses, frame, answer,
    entries, todo, cur, cbase, spoiled, asked,
    count, history, evals, rpc, asof, forced, requested, bars, found, read,
    noted, clobbered, missed,
    doc, spc, op, list, active, sbase, edits, first, told, crossed, overruled,
    snapshot, torn, loaded, master, masterCut, masterCache, refresh, acknowledged,
    crossedOut, mixed,
    day, sweep, sweepCut, analyses, historyCut, analysis, said, smeared, muddled,
    mishaps

Cache == INSTANCE OhlcvCache WITH pc <- cpc, base <- cbase
Runs == INSTANCE Screen WITH pc <- rpc
Strategies == INSTANCE StrategyStore WITH pc <- spc, base <- sbase
Registry == INSTANCE Universe WITH
    Symbols <- Instruments, cut <- torn, cache <- loaded, run <- refresh,
    crossed <- crossedOut
Analyses == INSTANCE Intelligence WITH
    today <- day, history <- analyses, run <- analysis, spoiled <- muddled

-----------------------------------------------------------------------------
cache == <<today, closed, file, young, index, cpc, want, seen, stale, misses, frame,
           answer, entries, todo, cur, cbase, spoiled, asked>>
runs == <<count, history, evals, rpc, asof, forced, requested, bars, found, read,
          noted, clobbered, missed>>
strategies == <<doc, spc, op, list, active, sbase, edits, first, told, crossed,
                overruled>>
registry == <<snapshot, torn, loaded, master, masterCut, masterCache, refresh,
              acknowledged, crossedOut, mixed>>
kept == <<day, sweep, sweepCut, analyses, historyCut, analysis, said, smeared, muddled>>
stores == <<registry, kept, mishaps>>

MCInit ==
    /\ part \in Parts
    /\ ReviewInit /\ Cache!Init /\ asked = 0
    /\ Runs!Init /\ count \in {Runs!Empty, ("a" :> Threshold)}
    /\ Strategies!Init
    /\ part # "run" => count = Runs!Empty
    /\ Registry!Init /\ Analyses!Init
    /\ \A u \in Universes : acknowledged[u] = "SPY"
    /\ part # "strategies" =>
           first.active = "default" /\ first.old /\ DOMAIN first.strategies = {}

-----------------------------------------------------------------------------
\* Beside positions at all prices, none worth more than the cap, runs in a good market; in
\* others the review has them.
AtAllPrices ==
    /\ run # Idle => run.budget = FullBudget
    /\ order.stop \in Prices \cup {None}
    /\ \A i \in OpenPlaces : positions[i].entry * positions[i].shares <= Cap

\* Reviews of single shares at two prices.
AtLowPrices ==
    /\ order.entry <= LowPrice /\ order.stop \in Prices \cup {None}
    /\ run # Idle => run.rec.entry <= LowPrice /\ run.rebuilt.entry <= LowPrice
    /\ \A i \in OpenPlaces :
           positions[i].entry <= LowPrice /\ positions[i].stop <= LowPrice
               /\ positions[i].shares = 1

(* The cache of bars, until something spoils it: requests of one ticker that  *)
(* race for its file and the index, or requests of all tickers over the days. *)

Race ==
    /\ Cache!Next /\ UNCHANGED <<today, closed, asked>>
    /\ \A t \in Tickers : young'[t] = (file'[t] # Cache!NoFile)
    /\ \A p \in Fetchers :
           /\ want'[p].tickers \subseteq {"a"}
           /\ cpc'[p] # "idle" => want'[p].forced

OverDays ==
    /\ Cache!Next
    /\ LET requests == {p \in Fetchers : cpc[p] = "idle" /\ cpc'[p] = "look"}
       IN  /\ asked' = asked + Cardinality(requests)
           /\ asked' <= MaxRequests
    /\ \A p \in Fetchers :
           /\ cpc'[p] # "idle" => p = "p"
           /\ want'[p].from = 1 /\ want'[p].tickers \in {{}, Tickers}

-----------------------------------------------------------------------------
(* The registry, of which handlers change one universe, until two of its      *)
(* requests cross; and the analyses, until two requests, to which the model  *)
(* says different things, get in each other's way: of one ticker over two    *)
(* days, or of all in one day.                                               *)

InOrder ==
    /\ ~mixed /\ crossedOut = {} /\ Registry!Next
    /\ refresh'[Registry!Handler].pc # "idle" => refresh'[Registry!Handler].cur = "index"

Analysed ==
    /\ smeared = {} /\ muddled = {} /\ Analyses!Next
    /\ \A p \in Analysts :
           "made" \in DOMAIN analysis'[p] => analysis'[p].made.view = p

OneTicker ==
    /\ Analysed
    /\ day' < LastDay
    /\ \A p \in Analysts : analysis'[p].pc # "idle" => analysis'[p].ticker = "a"

OneDay == Analysed /\ day' = 1

-----------------------------------------------------------------------------
(* One run after the other, on counters and evaluations that others left, or  *)
(* two runs that fetch all they ask for, until two records overlap.          *)

OneRun ==
    /\ Runs!Next
    /\ rpc'["q"] = "idle" /\ asof'["p"] \in {0, 1}
    /\ evals' \subseteq evals => evals' \in {evals, {}}

TwoRuns ==
    /\ Runs!Next
    /\ \A r \in Runners : ~forced'[r] /\ \A s \in DOMAIN bars'[r] : bars'[r][s] = "bars"
    /\ evals \subseteq evals'

MCNext ==
    \/ /\ part = "reentry" /\ Next /\ AtAllPrices'
       /\ UNCHANGED <<part, review, cache, runs, strategies, stores>>
    \/ /\ part = "review" /\ ReviewNext /\ AtLowPrices'
       /\ UNCHANGED <<part, cache, runs, strategies, stores>>
    \/ /\ part = "race" /\ spoiled = {} /\ Race
       /\ UNCHANGED <<part, reviewVars, runs, strategies, stores>>
    \/ /\ part = "days" /\ spoiled = {} /\ OverDays
       /\ UNCHANGED <<part, reviewVars, runs, strategies, stores>>
    \/ /\ \/ part = "run" /\ OneRun
          \/ part = "runs" /\ clobbered = {} /\ TwoRuns
       /\ UNCHANGED <<part, reviewVars, cache, strategies, stores>>
    \/ /\ part = "strategies" /\ Strategies!Next
       /\ UNCHANGED <<part, reviewVars, cache, runs, stores>>
    \/ /\ part = "universe" /\ InOrder
       /\ UNCHANGED <<part, reviewVars, cache, runs, strategies, kept>>
    \/ /\ \/ part = "ticker" /\ OneTicker
          \/ part = "day" /\ OneDay
       /\ UNCHANGED <<part, reviewVars, cache, runs, strategies, registry>>

MCSpec == MCInit /\ [][MCNext]_<<part, reviewVars, cache, runs, strategies, stores>>

-----------------------------------------------------------------------------
\* The properties of the parts.
IndexIsTrue == Cache!IndexIsTrue
HistoryIsKept == Runs!HistoryIsKept
EditsAreKept == Strategies!EditsAreKept
RegistryKept == Registry!RegistryKept
AnalysesKept == Analyses!AnalysesKept

-----------------------------------------------------------------------------
(* What the documentation says and the code does not do.                     *)

\* "Tickers that still have no data but hold stale cached coverage are better served
\* stale than dropped": the answer has bars for each of them, while the file is there.
StaleIsServed ==
    \A p \in Fetchers : cpc[p] = "done" =>
        \A t \in stale[p] : file[t] # Cache!NoFile => Cache!HasBars(answer[p][t])

\* "Historical windows never change, so their cache never expires": what is served for
\* one is not a bar of a day that was still trading.
HistoryIsFinal ==
    \A p \in Fetchers : cpc[p] = "done" /\ ~want[p].limited =>
        \A t \in DOMAIN answer[p], d \in Cache!Window(p) : answer[p][t][d] # "partial"

\* "Detect tickers that failed to download": a symbol of which a run got no bars, and
\* was not restored since, has its failures counted, unless it looked like an outage.
FailuresAreCounted == missed \subseteq Runs!Tracked
=============================================================================
