----------------------------- MODULE PoolAdmin ------------------------------
(***************************************************************************)
(* Administration of the symbol pool (api/services/pool_admin_service.py): *)
(* a rebuild merges the universe snapshots into symbol_pool.json, and an   *)
(* enrichment job adds taxonomy to its symbols in a background thread      *)
(* (pool_enrich_run_manager.py).  Each reads the pool, works on its copy   *)
(* and writes it back, so one lock, tried and never waited for, keeps the  *)
(* others out; whoever finds it held is refused with a 409, which changes  *)
(* nothing.  The request that starts a job takes the lock and the thread   *)
(* of the job gives it back.                                               *)
(*                                                                         *)
(* Unlike the other run managers this one answers a poll from its          *)
(* dictionary first and from the job's file only when the job is not there.*)
(* The progress counters of a job are left out.                            *)
(***************************************************************************)
EXTENDS JobTable

CONSTANTS
    Symbols,        \* instruments
    Admins,         \* requests to rebuild the pool that may be served at once
    Clients,        \* browsers that poll
    Mishaps,        \* what may go wrong: building the provider, starting a thread,
                    \* creating a job's file, updating it
    MaxRestarts     \* bound: restarts of the server

\* The lock tells its holders apart.
ASSUME HoldersAssumption == Admins \cap Jobs = {} /\ "free" \notin Admins \cup Jobs
ASSUME MishapsAssumption == Mishaps \subseteq {"info", "thread", "create", "update"}
ASSUME MaxRestartsAssumption == MaxRestarts \in Nat

VARIABLES
    universe,       \* the symbols in the universe snapshots
    pool,           \* symbol_pool.json
    holder,         \* who holds _POOL_WRITE_LOCK
    rebuild,        \* rebuild[a]: the next step of the rebuild a serves
    worker,         \* worker[j]: the next step of the request, then the thread
    copy,           \* copy[x]: the pool as x read it
    mem,            \* mem[j]: status of job j in the dictionary
    file,           \* file[j]: status in the file of job j
    outcome,        \* outcome[j]: how the enrichment ended
    poll,           \* poll[c]: the poll client c is waiting for
    told,           \* told[c][j]: the last status c was given for j
    restarts        \* restarts so far

vars == <<universe, pool, holder, rebuild, worker, copy, mem, file, outcome,
          poll, told, restarts>>
poolVars == <<universe, pool>>
jobVars == <<mem, file, outcome>>
clientVars == <<poll, told>>

-----------------------------------------------------------------------------
Terminal == {"done", "failed"}
Status == {"running"} \cup Terminal
Free == "free"
NoPoll == [job |-> "none"]
NoCopy == [listed |-> {}, enriched |-> {}]

\* The symbols of the pool, and those whose taxonomy_refreshed_at is set.
Pools == [listed : SUBSET Symbols, enriched : SUBSET Symbols]

RebuildSteps == {"idle", "read", "write"}

\* The steps of a job: the request that starts it, then the thread.
Working == {"prepare",          \* _default_info_fn, then the dictionary
            "persist",          \* start_job: the file
            "start",            \* ... and the thread
            "read",             \* run_fn: repo.read
            "write"}            \* the enrichment, repo.write, the lock
Ending == {"finish",            \* _finish: the dictionary
           "persist_outcome"}   \* ... and the file
Ended == {"unborn", "finished",
          "aborted",            \* _default_info_fn raised
          "refused",            \* the thread could not be started
          "killed",             \* the process died under it
          "lost"}               \* ... before any client had its id

\* The client is given the id once the thread has been started.
IdGiven(j) == worker[j] \in {"read", "write", "finished", "killed"} \cup Ending

\* A faulty form: the lock is taken whoever holds it.
TryLock_Held(x) == holder' = x

TryLock(x) == holder = Free /\ holder' = x

\* An operation ends: its copy of the pool is gone, and so is its hold on the lock.
Release(x) ==
    /\ holder' = Free
    /\ copy' = [copy EXCEPT ![x] = NoCopy]

Evictable(dict) == {j \in Jobs : dict[j] \in Terminal}

\* The dictionary becomes dict, trimmed; the files of evicted jobs are removed, each
\* if it can be.
Keep(dict) ==
    \E gone \in Trims(dict, Evictable(dict)) :
        /\ mem' = Without(dict, gone)
        /\ \E removed \in IF "update" \in Mishaps THEN SUBSET gone ELSE {gone} :
               file' = Without(file, removed)

\* _write_job_to_disk is best-effort.
Written(j, status) ==
    \/ file' = [file EXCEPT ![j] = status]
    \/ (IF file[j] = Absent THEN "create" ELSE "update") \in Mishaps /\ UNCHANGED file

Init ==
    /\ universe = Symbols
    /\ pool = [listed |-> Symbols, enriched |-> {}]
    /\ holder = Free
    /\ rebuild = [a \in Admins |-> "idle"]
    /\ worker = [j \in Jobs |-> "unborn"]
    /\ copy = [x \in Admins \cup Jobs |-> NoCopy]
    /\ mem = [j \in Jobs |-> Absent]
    /\ file = [j \in Jobs |-> Absent]
    /\ outcome = [j \in Jobs |-> Absent]
    /\ poll = [c \in Clients |-> NoPoll]
    /\ told = [c \in Clients |-> [j \in Jobs |-> Absent]]
    /\ restarts = 0

-----------------------------------------------------------------------------
(* The universe snapshots, and the rebuild.                                 *)

\* refresh_all_universes, a refresh of one universe, a discovery: the snapshots
\* change, without the pool's lock.
RefreshUniverse ==
    /\ universe' \in SUBSET Symbols
    /\ UNCHANGED <<pool, holder, rebuild, worker, copy, restarts>>
    /\ UNCHANGED jobVars /\ UNCHANGED clientVars

RebuildLock(a) ==
    /\ rebuild[a] = "idle"
    /\ TryLock(a)
    /\ rebuild' = [rebuild EXCEPT ![a] = "read"]
    /\ UNCHANGED <<worker, copy, restarts>>
    /\ UNCHANGED poolVars /\ UNCHANGED jobVars /\ UNCHANGED clientVars

RebuildRead(a) ==
    /\ rebuild[a] = "read"
    /\ copy' = [copy EXCEPT ![a] = pool]
    /\ rebuild' = [rebuild EXCEPT ![a] = "write"]
    /\ UNCHANGED <<holder, worker, restarts>>
    /\ UNCHANGED poolVars /\ UNCHANGED jobVars /\ UNCHANGED clientVars

\* What is listed comes from the snapshots; a symbol that stays keeps its taxonomy.
Rebuilt(old) == [listed |-> universe, enriched |-> old.enriched \cap universe]

\* The snapshots are merged and the file written; `finally` releases the lock.
RebuildWrite(a) ==
    /\ rebuild[a] = "write"
    /\ pool' = Rebuilt(copy[a])
    /\ Release(a)
    /\ rebuild' = [rebuild EXCEPT ![a] = "idle"]
    /\ UNCHANGED <<universe, worker, restarts>>
    /\ UNCHANGED jobVars /\ UNCHANGED clientVars

\* repo.read, the merge or repo.write raises; `finally` releases the lock.
RebuildFails(a) ==
    /\ rebuild[a] # "idle"
    /\ Release(a)
    /\ rebuild' = [rebuild EXCEPT ![a] = "idle"]
    /\ UNCHANGED <<worker, restarts>>
    /\ UNCHANGED poolVars /\ UNCHANGED jobVars /\ UNCHANGED clientVars

Rebuild(a) == RebuildRead(a) \/ RebuildWrite(a) \/ RebuildFails(a)

-----------------------------------------------------------------------------
(* The enrichment: the request that starts it.                              *)

Goto(j, step) == worker' = [worker EXCEPT ![j] = step]

Launch(j) ==
    /\ worker[j] = "unborn"
    /\ TryLock(j)
    /\ Goto(j, "prepare")
    /\ UNCHANGED <<rebuild, copy, restarts>>
    /\ UNCHANGED poolVars /\ UNCHANGED jobVars /\ UNCHANGED clientVars

\* get_default_provider raises (no API key, no alpaca-py): the lock has been taken
\* and the try that would release it has not been entered.
InfoFails(j) ==
    /\ "info" \in Mishaps
    /\ worker[j] = "prepare"
    /\ Goto(j, "aborted")
    /\ UNCHANGED <<holder, rebuild, copy, restarts>>
    /\ UNCHANGED poolVars /\ UNCHANGED jobVars /\ UNCHANGED clientVars

\* start_job, under the manager's lock.
Register(j) ==
    /\ worker[j] = "prepare"
    /\ Keep([mem EXCEPT ![j] = "running"])
    /\ Goto(j, "persist")
    /\ UNCHANGED <<holder, rebuild, copy, outcome, restarts>>
    /\ UNCHANGED poolVars /\ UNCHANGED clientVars

Persist(j) ==
    /\ worker[j] = "persist"
    /\ Written(j, "running")
    /\ Goto(j, "start")
    /\ UNCHANGED <<holder, rebuild, copy, mem, outcome, restarts>>
    /\ UNCHANGED poolVars /\ UNCHANGED clientVars

StartThread(j) ==
    /\ worker[j] = "start"
    /\ Goto(j, "read")
    /\ UNCHANGED <<holder, rebuild, copy, restarts>>
    /\ UNCHANGED poolVars /\ UNCHANGED jobVars /\ UNCHANGED clientVars

\* The thread cannot be started: start_enrich_job gives the lock back.
ThreadFails(j) ==
    /\ "thread" \in Mishaps
    /\ worker[j] = "start"
    /\ Release(j)
    /\ Goto(j, "refused")
    /\ UNCHANGED <<rebuild, restarts>>
    /\ UNCHANGED poolVars /\ UNCHANGED jobVars /\ UNCHANGED clientVars

-----------------------------------------------------------------------------
(* The enrichment: its thread.                                              *)

ReadPool(j) ==
    /\ worker[j] = "read"
    /\ copy' = [copy EXCEPT ![j] = pool]
    /\ Goto(j, "write")
    /\ UNCHANGED <<holder, rebuild, restarts>>
    /\ UNCHANGED poolVars /\ UNCHANGED jobVars /\ UNCHANGED clientVars

\* The taxonomy of any of the symbols is found, and the pool written; `finally`
\* releases the lock.
WritePool(j) ==
    /\ worker[j] = "write"
    /\ \E found \in SUBSET copy[j].listed :
           pool' = [listed |-> copy[j].listed, enriched |-> copy[j].enriched \cup found]
    /\ outcome' = [outcome EXCEPT ![j] = "done"]
    /\ Release(j)
    /\ Goto(j, "finish")
    /\ UNCHANGED <<universe, rebuild, mem, file, restarts>>
    /\ UNCHANGED clientVars

\* A faulty form: the lock is released when the enrichment succeeds.
EnrichFails_Held(j) ==
    /\ worker[j] \in {"read", "write"}
    /\ outcome' = [outcome EXCEPT ![j] = "failed"]
    /\ Goto(j, "finish")
    /\ UNCHANGED <<holder, rebuild, copy, mem, file, restarts>>
    /\ UNCHANGED poolVars /\ UNCHANGED clientVars

\* repo.read or repo.write raises (the file's lock times out, the file is torn).
EnrichFails(j) ==
    /\ worker[j] \in {"read", "write"}
    /\ outcome' = [outcome EXCEPT ![j] = "failed"]
    /\ Release(j)
    /\ Goto(j, "finish")
    /\ UNCHANGED <<rebuild, mem, file, restarts>>
    /\ UNCHANGED poolVars /\ UNCHANGED clientVars

\* _finish, under the manager's lock: a job that is gone is left alone.
Finish(j) ==
    /\ worker[j] = "finish"
    /\ IF mem[j] # Absent
       THEN mem' = [mem EXCEPT ![j] = outcome[j]] /\ Goto(j, "persist_outcome")
       ELSE UNCHANGED mem /\ Goto(j, "finished")
    /\ UNCHANGED <<holder, rebuild, copy, file, outcome, restarts>>
    /\ UNCHANGED poolVars /\ UNCHANGED clientVars

PersistOutcome(j) ==
    /\ worker[j] = "persist_outcome"
    /\ Written(j, outcome[j])
    /\ Goto(j, "finished")
    /\ UNCHANGED <<holder, rebuild, copy, mem, outcome, restarts>>
    /\ UNCHANGED poolVars /\ UNCHANGED clientVars

Enrich(j) ==
    \/ InfoFails(j) \/ Register(j) \/ Persist(j) \/ StartThread(j)
    \/ ThreadFails(j) \/ ReadPool(j) \/ WritePool(j) \/ EnrichFails(j)
    \/ Finish(j) \/ PersistOutcome(j)

-----------------------------------------------------------------------------
(* get_job.                                                                 *)

\* Under the lock: the dictionary answers, or the file will be read.
Ask(c, j) ==
    /\ poll[c] = NoPoll
    /\ IdGiven(j)
    /\ \/ /\ mem[j] # Absent
          /\ told' = [told EXCEPT ![c][j] = mem[j]]
          /\ UNCHANGED poll
       \/ /\ mem[j] = Absent
          /\ poll' = [poll EXCEPT ![c] = [job |-> j, step |-> "read", seen |-> Absent]]
          /\ UNCHANGED told
    /\ UNCHANGED <<holder, rebuild, worker, copy, restarts>>
    /\ UNCHANGED poolVars /\ UNCHANGED jobVars

ReadFile(c) ==
    /\ poll[c] # NoPoll
    /\ poll[c].step = "read"
    /\ LET j == poll[c].job
       IN  poll' = [poll EXCEPT ![c] = [job |-> j, step |-> "install", seen |-> file[j]]]
    /\ UNCHANGED <<holder, rebuild, worker, copy, told, restarts>>
    /\ UNCHANGED poolVars /\ UNCHANGED jobVars

\* Under the lock: a job that was found in its file goes into the dictionary.
Answer(c) ==
    /\ poll[c] # NoPoll
    /\ poll[c].step = "install"
    /\ LET j == poll[c].job
           seen == poll[c].seen
       IN  /\ told' = [told EXCEPT ![c][j] = seen]
           /\ \/ seen # Absent /\ Keep([mem EXCEPT ![j] = seen])
              \/ seen = Absent /\ UNCHANGED <<mem, file>>
    /\ poll' = [poll EXCEPT ![c] = NoPoll]
    /\ UNCHANGED <<holder, rebuild, worker, copy, outcome, restarts>>
    /\ UNCHANGED poolVars

-----------------------------------------------------------------------------
\* Faulty forms: the status is taken from the file as it is; every job is taken for
\* interrupted.
Recovered_AsIs(status) == status
Recovered_All(status) == "failed"

\* _load_jobs: a job that was running was interrupted.
Recovered(status) == IF status = "running" THEN "failed" ELSE status

\* The server dies, with its threads, its locks and the requests it serves, and
\* starts again: the job files are read and corrected before anything else runs.
Restart ==
    /\ restarts < MaxRestarts
    /\ restarts' = restarts + 1
    /\ \E kept \in Loaded(file) :
           mem' = [j \in Jobs |-> IF j \in kept THEN Recovered(file[j]) ELSE Absent]
    /\ \E corrected \in SUBSET Held(file) :
        /\ "update" \notin Mishaps => corrected = Held(file)
        /\ file' = [j \in Jobs |-> IF j \in corrected THEN Recovered(file[j])
                                                      ELSE file[j]]
    /\ holder' = Free
    /\ copy' = [x \in Admins \cup Jobs |-> NoCopy]
    /\ rebuild' = [a \in Admins |-> "idle"]
    /\ worker' = [j \in Jobs |->
           IF worker[j] \in Ended THEN worker[j]
           ELSE IF IdGiven(j) THEN "killed" ELSE "lost"]
    /\ poll' = [c \in Clients |-> NoPoll]
    /\ UNCHANGED <<outcome, told>>
    /\ UNCHANGED poolVars

Next ==
    \/ RefreshUniverse
    \/ \E a \in Admins : RebuildLock(a) \/ Rebuild(a)
    \/ \E j \in Jobs : Launch(j) \/ Enrich(j)
    \/ \E c \in Clients :
           ReadFile(c) \/ Answer(c) \/ \E j \in Jobs : Ask(c, j)
    \/ Restart

Spec == Init /\ [][Next]_vars

\* Threads that are alive are scheduled, and the requests that fetch taxonomy time
\* out; a client asks again until it is told that the job it waits for is over.
Waiting(c, j) == told[c][j] = "running"

Fairness ==
    /\ \A a \in Admins : WF_vars(Rebuild(a))
    /\ \A j \in Jobs : WF_vars(Enrich(j))
    /\ \A c \in Clients : WF_vars(ReadFile(c) \/ Answer(c))
    /\ \A c \in Clients, j \in Jobs : SF_vars(Waiting(c, j) /\ Ask(c, j))

FairSpec == Spec /\ Fairness

-----------------------------------------------------------------------------
(* Properties *)

TypeOK ==
    /\ universe \in SUBSET Symbols
    /\ pool \in Pools
    /\ holder \in {Free} \cup Admins \cup Jobs
    /\ rebuild \in [Admins -> RebuildSteps]
    /\ worker \in [Jobs -> Working \cup Ending \cup Ended]
    /\ copy \in [Admins \cup Jobs -> Pools]
    /\ mem \in [Jobs -> Status \cup {Absent}]
    /\ file \in [Jobs -> Status \cup {Absent}]
    /\ outcome \in [Jobs -> Terminal \cup {Absent}]
    /\ poll \in [Clients -> {NoPoll} \cup
                   [job : Jobs, step : {"read", "install"}, seen : Status \cup {Absent}]]
    /\ told \in [Clients -> [Jobs -> Status \cup {Absent}]]
    /\ restarts \in 0..MaxRestarts

\* "All pool writes (rebuild + enrich) are serialized through _POOL_WRITE_LOCK so
\* concurrent operations can never interleave a read-modify-write on
\* symbol_pool.json and clobber each other": taxonomy once found leaves the pool
\* only with its symbol, and only a rebuild changes which symbols there are.
NothingClobbered ==
    [][/\ pool.enriched \cap pool'.listed \subseteq pool'.enriched
       /\ rebuild' = rebuild => pool'.listed = pool.listed]_pool

\* The lock is held exactly by the operation in progress, through the hand-over
\* from the request that starts a job to its thread, and through every failure.
\* (When _default_info_fn cannot raise.)
LockMatches ==
    /\ \A j \in Jobs : holder = j <=> worker[j] \in Working
    /\ \A a \in Admins : holder = a <=> rebuild[a] # "idle"

\* What a client has been told is not taken back, across restarts and across polls
\* of evicted jobs at the limit of max_jobs: a job that was over is over the same
\* way, except that it may be evicted, or fall to a restart that came before its
\* outcome was written.
ReportsAdvance ==
    [][\A c \in Clients, j \in Jobs :
          told[c][j] \in Terminal =>
              \/ told'[c][j] \in {told[c][j], Absent}
              \/ told'[c][j] = "failed" /\ worker[j] = "killed"]_told

\* A client that keeps polling is in the end told that its job is over.
PollingEnds ==
    \A c \in Clients, j \in Jobs : Waiting(c, j) ~> ~Waiting(c, j)

=============================================================================
