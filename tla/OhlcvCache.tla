----------------------------- MODULE OhlcvCache -----------------------------
(* The cache of daily bars of the Yahoo provider: a file of bars and an index *)
(* entry for each ticker, read and written without a lock by the requests     *)
(* that are served at the same time, and cleared from the settings page.      *)
(*                                                                            *)
(* A bar is partial while its day trades and final once the market closed.    *)
(* A frame maps the tickers that have a column to their bars.                 *)
EXTENDS Integers, FiniteSets

CONSTANTS
    Tickers, Fetchers,
    LastDay,            \* the days are 1..LastDay
    Holes               \* sets of days a download may lack

VARIABLES
    today, closed,      \* the clock
    file,               \* the parquet of each ticker
    young,              \* whether it was written within the time to live
    index,              \* the window the index says each ticker's file covers
    pc, want, seen,     \* of each request: its step, what it asks, the index it read,
    stale, misses,      \*   the files it may fall back on, the tickers to download,
    frame, answer,      \*   what was downloaded, and what it answers
    entries, todo, cur, base,   \* the index being extended and the ticker being stored
    spoiled             \* tickers to which something happened that the cache does not undo

clock == <<today, closed>>
disk == <<file, young, index>>
store == <<entries, todo, cur, base>>
vars == <<clock, disk, pc, want, seen, stale, misses, frame, answer, store, spoiled>>

Days == 1..LastDay

NoBars == [d \in Days |-> "none"]
NoFile == <<>>
NoEntry == [from |-> LastDay + 1, to |-> 0]
NoIndex == [t \in Tickers |-> NoEntry]
NoTicker == "no ticker"

HasBars(bars) == \E d \in Days : bars[d] # "none"

IsEmpty(f) == \A t \in DOMAIN f : ~HasBars(f[t])

\* The bar of a day, as the market has it now.
Bar(d) ==
    CASE d > today -> "none"
      [] d = today /\ ~closed -> "partial"
      [] OTHER -> "final"

Slice(bars, w) == [d \in Days |-> IF d \in w THEN bars[d] ELSE "none"]

\* Columns of the first frame win.
Beside(f, g) ==
    [t \in DOMAIN f \cup DOMAIN g |-> IF t \in DOMAIN f THEN f[t] ELSE g[t]]

MergeFrames(f, g) ==
    IF IsEmpty(f) THEN g ELSE IF IsEmpty(g) THEN f ELSE Beside(f, g)

Missing(f, ts) ==
    IF IsEmpty(f) THEN ts ELSE {t \in ts : t \notin DOMAIN f \/ ~HasBars(f[t])}

\* Tickers without any bar are filled in as empty columns.
Clean(f, ts) == [t \in ts |-> IF t \in DOMAIN f THEN f[t] ELSE NoBars]

Window(p) == want[p].from .. want[p].to

Covers(entry, p) ==
    entry.from <= want[p].from /\ entry.to >= want[p].to

\* What Yahoo may answer: the bars of some of the tickers, without some of the
\* days, and for the others a column without bars or no column.
Columns(p) ==
    {[d \in Days |-> IF d \in Window(p) \ hole THEN Bar(d) ELSE "none"] : hole \in Holes}
        \cup {NoBars}

Bulk(p, ts) == UNION {[some -> Columns(p)] : some \in SUBSET ts}

Singles(p, ts) == {f \in Bulk(p, ts) : \A t \in DOMAIN f : HasBars(f[t])}

\* What is downloaded again: one by one when nothing came; else the missing
\* tickers, together and then one by one.
Retries(p, f, ts) ==
    IF Cardinality(ts) = 1 THEN {<<>>}
    ELSE IF IsEmpty(f) THEN Singles(p, ts)
    ELSE UNION {{MergeFrames(c, s) : s \in Singles(p, Missing(c, Missing(f, ts)))} :
                    c \in Bulk(p, Missing(f, ts))}

Nothing == [from |-> 1, to |-> 1, tickers |-> {}, forced |-> FALSE, limited |-> FALSE]

Init ==
    /\ today = LastDay - 1 /\ closed = FALSE
    /\ file = [t \in Tickers |-> NoFile]
    /\ young = [t \in Tickers |-> FALSE]
    /\ index = NoIndex
    /\ pc = [p \in Fetchers |-> "idle"]
    /\ want = [p \in Fetchers |-> Nothing]
    /\ seen = [p \in Fetchers |-> index]
    /\ stale = [p \in Fetchers |-> {}]
    /\ misses = [p \in Fetchers |-> {}]
    /\ frame = [p \in Fetchers |-> <<>>]
    /\ answer = [p \in Fetchers |-> <<>>]
    /\ entries = [p \in Fetchers |-> index]
    /\ todo = [p \in Fetchers |-> {}]
    /\ cur = [p \in Fetchers |-> NoTicker]
    /\ base = [p \in Fetchers |-> NoFile]
    /\ spoiled = {}

-----------------------------------------------------------------------------
\* A request: only one that reaches today has a time to live.
FetchOhlcv(p) ==
    /\ pc[p] = "idle"
    /\ \E ts \in SUBSET Tickers \ {{}}, from \in Days, to \in Days, forced \in BOOLEAN :
           /\ from <= to /\ to <= today
           /\ want' = [want EXCEPT ![p] =
                  [from |-> from, to |-> to, tickers |-> ts, forced |-> forced,
                   limited |-> to >= today]]
    /\ seen' = [seen EXCEPT ![p] = index]
    /\ pc' = [pc EXCEPT ![p] = "look"]
    /\ UNCHANGED <<clock, disk, stale, misses, frame, answer, store, spoiled>>

Usable(p, t) ==
    /\ ~want[p].forced
    /\ want[p].limited => young[t]

\* Which files answer, which are kept as a fallback, and what is to be downloaded.
Look(p) ==
    LET covered == {t \in want[p].tickers : Covers(seen[p][t], p) /\ file[t] # NoFile}
        hits == {t \in covered : Usable(p, t) /\ HasBars(Slice(file[t], Window(p)))}
    IN  /\ pc[p] = "look"
        /\ answer' = [answer EXCEPT ![p] = [t \in hits |-> Slice(file[t], Window(p))]]
        /\ stale' = [stale EXCEPT ![p] = {t \in covered : ~Usable(p, t)}]
        /\ misses' = [misses EXCEPT ![p] = want[p].tickers \ hits]
        /\ seen' = [seen EXCEPT ![p] = NoIndex]
        /\ IF want[p].tickers = hits
           THEN pc' = [pc EXCEPT ![p] = "done"]
           ELSE pc' = [pc EXCEPT ![p] = "download"]
        /\ UNCHANGED <<clock, disk, want, frame, store, spoiled>>

\* The stale files that stand in for what could not be downloaded.
Fallback(p, f) ==
    LET ts == {t \in stale[p] \cap Missing(f, misses[p]) :
                   file[t] # NoFile /\ HasBars(Slice(file[t], Window(p)))}
    IN  [t \in ts |-> Slice(file[t], Window(p))]

Download(p) ==
    /\ pc[p] = "download"
    /\ \E f \in Bulk(p, misses[p]) : \E g \in Retries(p, f, misses[p]) :
           LET got == MergeFrames(f, g)
               out == MergeFrames(got, Beside(Fallback(p, got), answer[p]))
           IN  /\ frame' = [frame EXCEPT ![p] = got]
               /\ answer' = [answer EXCEPT ![p] = Clean(out, want[p].tickers)]
               /\ pc' = [pc EXCEPT ![p] =
                      IF IsEmpty(got) THEN IF IsEmpty(out) THEN "failed" ELSE "done"
                      ELSE "open"]
    /\ misses' = [misses EXCEPT ![p] = {}]
    /\ UNCHANGED <<clock, disk, want, seen, stale, store, spoiled>>

-----------------------------------------------------------------------------
(* Storing what was downloaded.                                              *)

OpenIndex(p) ==
    /\ pc[p] = "open"
    /\ entries' = [entries EXCEPT ![p] = index]
    /\ todo' = [todo EXCEPT ![p] = {t \in DOMAIN frame[p] : HasBars(frame[p][t])}]
    /\ pc' = [pc EXCEPT ![p] = "store"]
    /\ UNCHANGED <<clock, disk, want, seen, stale, misses, frame, answer, cur, base,
                   spoiled>>

ReadTicker(p) ==
    /\ pc[p] = "store" /\ cur[p] = NoTicker
    /\ \E t \in todo[p] :
           /\ cur' = [cur EXCEPT ![p] = t]
           /\ base' = [base EXCEPT ![p] = file[t]]
    /\ UNCHANGED <<clock, disk, pc, want, seen, stale, misses, frame, answer,
                   entries, todo, spoiled>>

\* What a write that forgets the older days would leave.
Merged_Replaced(old, f, t) == f[t]

\* Rows of the download win, those included in which this ticker has no bar.
Merged(old, f, t) ==
    LET rows == {d \in Days : \E u \in DOMAIN f : f[u][d] # "none"}
    IN  IF old = NoFile THEN f[t]
        ELSE [d \in Days |-> IF d \in rows THEN f[t][d] ELSE old[d]]

\* The index keeps one window for each ticker.
Hull(entry, p) ==
    [from |-> IF entry.from < want[p].from THEN entry.from ELSE want[p].from,
     to |-> IF entry.to > want[p].to THEN entry.to ELSE want[p].to]

\* What leaves an index that says more than its file holds: days between two
\* windows, days the download lacks, a file that another request wrote meanwhile,
\* and a write that fails, which is only logged.
LeavesGap(p, t) ==
    LET e == entries[p][t]
    IN  e # NoEntry /\ (want[p].from > e.to + 1 \/ want[p].to < e.from - 1)

Lacks(p, t) == HasBars(frame[p][t]) /\ \E d \in Window(p) : frame[p][t][d] = "none"

Spoils(p, t, written) ==
    ~written \/ LeavesGap(p, t) \/ Lacks(p, t) \/ base[p] # file[t]

WriteTicker(p) ==
    LET t == cur[p]
    IN  /\ pc[p] = "store" /\ t # NoTicker
        /\ \E written \in BOOLEAN :
               /\ IF written
                  THEN /\ file' = [file EXCEPT ![t] = Merged(base[p], frame[p], t)]
                       /\ young' = [young EXCEPT ![t] = TRUE]
                  ELSE UNCHANGED <<file, young>>
               /\ IF Spoils(p, t, written) THEN spoiled' = spoiled \cup {t}
                  ELSE UNCHANGED spoiled
        /\ entries' = [entries EXCEPT ![p][t] = Hull(@, p)]
        /\ todo' = [todo EXCEPT ![p] = @ \ {t}]
        /\ cur' = [cur EXCEPT ![p] = NoTicker]
        /\ base' = [base EXCEPT ![p] = NoFile]
        /\ UNCHANGED <<clock, index, pc, want, seen, stale, misses, frame, answer>>

\* A failure is only logged.
SaveIndex(p) ==
    /\ pc[p] = "store" /\ cur[p] = NoTicker /\ todo[p] = {}
    /\ index' \in {index, entries[p]}
    /\ pc' = [pc EXCEPT ![p] = "done"]
    /\ entries' = [entries EXCEPT ![p] = NoIndex]
    /\ frame' = [frame EXCEPT ![p] = <<>>]
    /\ UNCHANGED <<clock, file, young, want, seen, stale, misses, answer,
                   todo, cur, base, spoiled>>

-----------------------------------------------------------------------------
\* A request is over.
Forget(ps) ==
    /\ pc' = [p \in Fetchers |-> IF p \in ps THEN "idle" ELSE pc[p]]
    /\ want' = [p \in Fetchers |-> IF p \in ps THEN Nothing ELSE want[p]]
    /\ seen' = [p \in Fetchers |-> IF p \in ps THEN NoIndex ELSE seen[p]]
    /\ stale' = [p \in Fetchers |-> IF p \in ps THEN {} ELSE stale[p]]
    /\ misses' = [p \in Fetchers |-> IF p \in ps THEN {} ELSE misses[p]]
    /\ frame' = [p \in Fetchers |-> IF p \in ps THEN <<>> ELSE frame[p]]
    /\ answer' = [p \in Fetchers |-> IF p \in ps THEN <<>> ELSE answer[p]]
    /\ entries' = [p \in Fetchers |-> IF p \in ps THEN NoIndex ELSE entries[p]]
    /\ todo' = [p \in Fetchers |-> IF p \in ps THEN {} ELSE todo[p]]
    /\ cur' = [p \in Fetchers |-> IF p \in ps THEN NoTicker ELSE cur[p]]
    /\ base' = [p \in Fetchers |-> IF p \in ps THEN NoFile ELSE base[p]]

Return(p) ==
    /\ pc[p] \in {"done", "failed"}
    /\ Forget({p})
    /\ UNCHANGED <<clock, disk, spoiled>>

\* The server dies and is started again.
Restart ==
    /\ \E p \in Fetchers : pc[p] # "idle"
    /\ Forget(Fetchers)
    /\ UNCHANGED <<clock, disk, spoiled>>

\* The settings page clears the cache, file by file, and not the index.
ClearFile(t) ==
    /\ file[t] # NoFile
    /\ file' = [file EXCEPT ![t] = NoFile]
    /\ young' = [young EXCEPT ![t] = FALSE]
    /\ spoiled' = spoiled \cup {t}
    /\ UNCHANGED <<clock, index, pc, want, seen, stale, misses, frame, answer, store>>

\* The time to live of a file ends.
Age(t) ==
    /\ young[t]
    /\ young' = [young EXCEPT ![t] = FALSE]
    /\ UNCHANGED <<clock, file, index, pc, want, seen, stale, misses, frame, answer,
                   store, spoiled>>

Tick ==
    /\ IF closed THEN today < LastDay /\ today' = today + 1 ELSE UNCHANGED today
    /\ closed' = ~closed
    /\ UNCHANGED <<disk, pc, want, seen, stale, misses, frame, answer, store, spoiled>>

Next ==
    \/ \E p \in Fetchers :
           \/ FetchOhlcv(p) \/ Look(p) \/ Download(p)
           \/ OpenIndex(p) \/ ReadTicker(p) \/ WriteTicker(p) \/ SaveIndex(p)
           \/ Return(p)
    \/ \E t \in Tickers : ClearFile(t) \/ Age(t)
    \/ Restart
    \/ Tick

Spec == Init /\ [][Next]_vars

-----------------------------------------------------------------------------
\* The index promises no more than the file holds: of a ticker to which none of
\* the known mishaps happened, every day of the recorded window has its bar,
\* whatever the order of the requests' steps and wherever the server dies.
IndexIsTrue ==
    \A t \in Tickers \ spoiled :
        file[t] # NoFile =>
            \A d \in index[t].from .. index[t].to : file[t][d] # "none"
=============================================================================
