------------------------------ MODULE Universe ------------------------------
(***************************************************************************)
(* The registry of universes (src/swing_screener/data/universe.py): the    *)
(* snapshot of each universe, the master of instruments that they share,   *)
(* and the caches of both in the process.                                  *)
(*                                                                         *)
(* A refresh loads snapshot and master through their caches, asks the      *)
(* source of the universe for its members, adds to the master those it     *)
(* does not know, and writes the snapshot if its members changed.          *)
(* Refreshes of one universe and changes of its benchmark are handlers of  *)
(* the event loop, one at a time; refreshes of all universes, and the runs *)
(* that load one, are threads.  Nothing takes a lock.                      *)
(***************************************************************************)
EXTENDS Naturals

CONSTANTS
    Universes,
    Euronext,           \* those whose source adds nothing to the master
    Symbols,
    Benchmarks,
    Threads,
    MaxMishaps          \* bound: crashes and writes that fail

Handler == "handler"    \* the event loop
Processes == {Handler} \cup Threads

Orders == {"load", "preview", "refresh"}

VARIABLES
    snapshot,           \* snapshot[u]: members and benchmark, as last written
    cut,                \* the universes whose file is cut
    cache,              \* cache[u]: the snapshot in _load_snapshot's cache, if any
    master,             \* the instruments of the master, as last written
    masterCut,          \* whether its file is cut
    masterCache,        \* the set of instruments in the cache, if any
    run,                \* run[p]: the request of a process, at its next step
    mishaps,
    acknowledged,       \* acknowledged[u]: the benchmark that was last set
    crossed,            \* universes written while another request was on them
    mixed               \* whether two requests wrote the master at once

registry == <<snapshot, cut, cache>>
instruments == <<master, masterCut, masterCache>>
ghosts == <<acknowledged, crossed, mixed>>
vars == <<registry, instruments, run, mishaps, ghosts>>

-----------------------------------------------------------------------------
Idle == [pc |-> "idle"]

Unknown == [members |-> {}, benchmark |-> ""]

\* A request that turns to universe u with others left, before it learns anything.
On(u, what, rest) ==
    [pc |-> "load", cur |-> u, op |-> what, todo |-> rest,
     snapshot |-> Unknown, known |-> {}, members |-> {}]

At(r, step) == [r EXCEPT !.pc = step]

EachOf(what, us) == {On(u, what, us \ {u}) : u \in us}

\* A request is done with its universe: one that lists the universes refreshes them next.
Continued(r) ==
    IF r.todo # {} THEN EachOf(r.op, r.todo)
    ELSE IF r.op = "list" THEN EachOf("refresh", Universes) ELSE {Idle}

\* An exception: a refresh of all goes on with the next universe, a listing does not.
Failed(r) == IF r.op = "list" THEN {Idle} ELSE Continued(r)

Becomes(p, rs) == \E r \in rs : run' = [run EXCEPT ![p] = r]

Mishap == mishaps < MaxMishaps /\ mishaps' = mishaps + 1

Init ==
    /\ \E b \in Benchmarks :
           /\ snapshot = [u \in Universes |-> [members |-> {}, benchmark |-> b]]
           /\ acknowledged = [u \in Universes |-> b]
    /\ cut = {} /\ cache = [u \in Universes |-> {}]
    /\ master = {} /\ masterCut = FALSE /\ masterCache = {}
    /\ run = [p \in Processes |-> Idle]
    /\ mishaps = 0
    /\ crossed = {} /\ mixed = FALSE

-----------------------------------------------------------------------------
\* A request of one universe, or refresh_all_universes.
Begin(p) ==
    /\ run[p].pc = "idle"
    /\ IF p = Handler
       THEN Becomes(p, {On(u, what, {}) : u \in Universes, what \in Orders \cup Benchmarks})
       ELSE Becomes(p, {On(u, "load", {}) : u \in Universes} \cup EachOf("list", Universes))
    /\ UNCHANGED <<registry, instruments, mishaps, ghosts>>

\* What follows when its snapshot is loaded: a benchmark that is set already is done.
Loaded(r) ==
    IF r.op \in {"refresh", "preview"} THEN {At(r, "master")}
    ELSE IF r.op \in {"load", "list", r.snapshot.benchmark} THEN Continued(r)
    ELSE {At(r, "write")}

\* _load_snapshot: a snapshot that is not in the cache is read, and then kept.
LoadSnapshot(p) ==
    LET r == run[p]
        Of(s) == [r EXCEPT !.snapshot = s]
    IN  /\ r.pc = "load"
        /\ \/ \E s \in cache[r.cur] : Becomes(p, Loaded(Of(s)))
           \/ /\ cache[r.cur] = {}
              /\ IF r.cur \in cut THEN Becomes(p, Failed(r))
                 ELSE Becomes(p, {At(Of(snapshot[r.cur]), "keep")})
        /\ UNCHANGED <<registry, instruments, mishaps, ghosts>>

KeepSnapshot(p) ==
    LET r == run[p]
    IN  /\ r.pc = "keep"
        /\ cache' = [cache EXCEPT ![r.cur] = IF @ = {} THEN {r.snapshot} ELSE @]
        /\ Becomes(p, Loaded(r))
        /\ UNCHANGED <<snapshot, cut, instruments, mishaps, ghosts>>

\* _instrument_master_cache
LoadMaster(p) ==
    LET r == run[p]
        Knowing(m) == [r EXCEPT !.known = m]
    IN  /\ r.pc = "master"
        /\ \/ \E m \in masterCache : Becomes(p, {At(Knowing(m), "fetch")})
           \/ /\ masterCache = {}
              /\ IF masterCut THEN Becomes(p, Failed(r))
                 ELSE Becomes(p, {At(Knowing(master), "keep_master")})
        /\ UNCHANGED <<registry, instruments, mishaps, ghosts>>

KeepMaster(p) ==
    /\ run[p].pc = "keep_master"
    /\ masterCache' = IF masterCache = {} THEN {run[p].known} ELSE masterCache
    /\ Becomes(p, {At(run[p], "fetch")})
    /\ UNCHANGED <<registry, master, masterCut, mishaps, ghosts>>

\* A faulty form: a refresh goes by the cached master alone.
Fetched_Cached(r) == IF r.op = "preview" THEN Continued(r) ELSE {At(r, "write")}

\* What follows when the source told the members: those that are new to the instruments
\* the request goes by were looked up, and are added to the master.
Fetched(r) ==
    IF r.op = "preview" THEN Continued(r)
    ELSE {At(r, IF r.members \subseteq r.known THEN "write" ELSE "extend")}

\* refresh_snapshot_from_source: the members of today, but those that could not be
\* looked up; or the source fails, as that of Euronext does for want of an instrument.
Fetch(p) ==
    LET r == run[p]
    IN  /\ r.pc = "fetch"
        /\ \/ \E told \in SUBSET Symbols \ {{}} :
                  /\ r.cur \in Euronext => told \subseteq r.known
                  /\ Becomes(p, Fetched([r EXCEPT !.members = told]))
           \/ Becomes(p, Failed(r))
        /\ UNCHANGED <<registry, instruments, mishaps, ghosts>>

\* _write_instrument_master: the master is read past the cache,
ReadMaster(p) ==
    /\ run[p].pc = "extend"
    /\ LET r == [run[p] EXCEPT !.known = master]
       IN  IF masterCut THEN Becomes(p, Failed(r))
           ELSE Becomes(p, {At(r, IF r.members \subseteq master THEN "write"
                                  ELSE "cut_master")})
    /\ UNCHANGED <<registry, instruments, mishaps, ghosts>>

\* cut,
CutMaster(p) ==
    /\ run[p].pc = "cut_master"
    /\ masterCut' = TRUE
    /\ Becomes(p, {At(run[p], "dump_master")})
    /\ UNCHANGED <<registry, master, masterCache, mishaps, ghosts>>

\* written with the new instruments, and dropped from the cache.
DumpMaster(p) ==
    LET r == run[p]
    IN  /\ r.pc = "dump_master"
        /\ master' = r.known \cup r.members
        /\ masterCut' = FALSE
        /\ masterCache' = {}
        /\ mixed' = (mixed \/ \E q \in Processes \ {p} :
                                  run[q].pc \in {"cut_master", "dump_master"})
        /\ Becomes(p, {At(r, "write")})
        /\ UNCHANGED <<registry, mishaps, acknowledged, crossed>>

\* _write_snapshot: of a refresh that changes no members there is nothing to write.
CutSnapshot(p) ==
    LET r == run[p]
    IN  /\ r.pc = "write"
        /\ IF r.op = "refresh" /\ r.members = r.snapshot.members
           THEN Becomes(p, Continued(r)) /\ UNCHANGED cut
           ELSE Becomes(p, {At(r, "dump")}) /\ cut' = cut \cup {r.cur}
        /\ UNCHANGED <<snapshot, cache, instruments, mishaps, ghosts>>

Proposed(r) ==
    IF r.op = "refresh" THEN [r.snapshot EXCEPT !.members = r.members]
    ELSE [r.snapshot EXCEPT !.benchmark = r.op]

\* A faulty form: only refreshes clear the cache.
Cleared_Refreshed(r) == IF r.op = "refresh" THEN [u \in Universes |-> {}] ELSE cache

\* cache_clear, of all universes.
Cleared(r) == [u \in Universes |-> {}]

DumpSnapshot(p) ==
    LET r == run[p]
        others == {q \in Processes \ {p} : run[q].pc # "idle"}
    IN  /\ r.pc = "dump"
        /\ snapshot' = [snapshot EXCEPT ![r.cur] = Proposed(r)]
        /\ cut' = cut \ {r.cur}
        /\ cache' = Cleared(r)
        /\ acknowledged' = IF r.op = "refresh" THEN acknowledged
                           ELSE [acknowledged EXCEPT ![r.cur] = r.op]
        /\ crossed' = crossed \cup ({r.cur} \cap {run[q].cur : q \in others})
        /\ Becomes(p, Continued(r))
        /\ UNCHANGED <<instruments, mishaps, mixed>>

\* The disk is full, and the file stays cut.
DumpFails(p) ==
    /\ run[p].pc \in {"dump", "dump_master"}
    /\ Mishap
    /\ Becomes(p, Failed(run[p]))
    /\ UNCHANGED <<registry, instruments, ghosts>>

\* The server dies.
Crash ==
    /\ Mishap
    /\ run' = [p \in Processes |-> Idle]
    /\ cache' = [u \in Universes |-> {}] /\ masterCache' = {}
    /\ UNCHANGED <<snapshot, cut, master, masterCut, ghosts>>

Next ==
    \/ Crash
    \/ \E p \in Processes :
           \/ Begin(p) \/ LoadSnapshot(p) \/ KeepSnapshot(p) \/ LoadMaster(p)
           \/ KeepMaster(p) \/ Fetch(p) \/ ReadMaster(p) \/ CutMaster(p) \/ DumpMaster(p)
           \/ CutSnapshot(p) \/ DumpSnapshot(p) \/ DumpFails(p)

Spec == Init /\ [][Next]_vars

-----------------------------------------------------------------------------
\* Whatever fails in between, and however old the cached master is that a refresh went
\* by, the members of a snapshot are instruments of the master ("not in instrument
\* master" is an error of validation), unless two requests wrote the master at once.
MembersKnown == ~mixed => \A u \in Universes : snapshot[u].members \subseteq master

\* A benchmark that was set stays, though a refresh writes the whole snapshot from the
\* copy it found in the cache, unless the universe was written while another request
\* was on it (which may leave the old snapshot in the cache for good).
BenchmarkKept ==
    \A u \in Universes \ crossed : snapshot[u].benchmark = acknowledged[u]

\* Both, for as long as the registry lives.
RegistryKept == MembersKnown /\ BenchmarkKept
=============================================================================
