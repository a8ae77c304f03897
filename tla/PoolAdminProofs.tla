-------------------------- MODULE PoolAdminProofs ---------------------------
(***************************************************************************)
(* What _POOL_WRITE_LOCK guarantees, for any number of rebuilds,           *)
(* enrichments, clients and restarts.                                      *)
(***************************************************************************)
EXTENDS PoolAdmin, TLAPS

-----------------------------------------------------------------------------
(* The inductive invariant.                                                  *)

\* Whoever is at work on the pool holds its lock.
Owned ==
    /\ \A j \in Jobs : worker[j] \in Working => holder = j
    /\ \A a \in Admins : rebuild[a] # "idle" => holder = a

\* Whoever is about to write the pool has it as it is.
Current ==
    /\ \A j \in Jobs : worker[j] = "write" => copy[j] = pool
    /\ \A a \in Admins : rebuild[a] = "write" => copy[a] = pool

PoolInv == TypeOK /\ Owned /\ Current

-----------------------------------------------------------------------------
(* Types.                                                                    *)

LEMMA TypeInit == Init => TypeOK
<1> SUFFICES ASSUME Init PROVE TypeOK
  OBVIOUS
<1>1. pool \in Pools /\ copy \in [Admins \cup Jobs -> Pools]
  BY DEF Init, Pools, NoCopy
<1>2. restarts \in 0..MaxRestarts
  BY MaxRestartsAssumption DEF Init
<1> QED
  BY <1>1, <1>2 DEF Init, TypeOK, RebuildSteps, Ended

\* Trimming keeps the dictionary and the files what they are.
LEMMA WithoutType ==
    ASSUME NEW dict \in [Jobs -> Status \cup {Absent}], NEW gone
    PROVE  Without(dict, gone) \in [Jobs -> Status \cup {Absent}]
BY DEF Without

LEMMA KeepType ==
    ASSUME NEW dict \in [Jobs -> Status \cup {Absent}], TypeOK, Keep(dict)
    PROVE  /\ mem' \in [Jobs -> Status \cup {Absent}]
           /\ file' \in [Jobs -> Status \cup {Absent}]
<1>1. PICK gone \in Trims(dict, Evictable(dict)) :
        /\ mem' = Without(dict, gone)
        /\ \E removed \in IF "update" \in Mishaps THEN SUBSET gone ELSE {gone} :
               file' = Without(file, removed)
  BY DEF Keep
<1>2. PICK removed : file' = Without(file, removed)
  BY <1>1
<1> QED
  BY <1>1, <1>2, WithoutType DEF TypeOK

\* Types, for the steps of a rebuild.
LEMMA TypeRebuild ==
    ASSUME NEW a \in Admins, TypeOK, RebuildLock(a) \/ Rebuild(a)
    PROVE  TypeOK'
<1> USE DEF TypeOK, jobVars, clientVars, poolVars, RebuildSteps
<1>0. NoCopy \in Pools
  BY DEF NoCopy, Pools
<1>1. CASE RebuildLock(a)
  BY <1>1 DEF RebuildLock, TryLock
<1>2. CASE RebuildRead(a)
  BY <1>2 DEF RebuildRead
<1>3. CASE RebuildWrite(a)
  <2>1. copy[a] \in Pools
    OBVIOUS
  <2>2. pool' \in Pools
    BY <1>3, <2>1 DEF RebuildWrite, Rebuilt, Pools
  <2> QED
    BY <1>0, <1>3, <2>2 DEF RebuildWrite, Release
<1>4. CASE RebuildFails(a)
  BY <1>0, <1>4 DEF RebuildFails, Release
<1> QED
  BY <1>1, <1>2, <1>3, <1>4 DEF Rebuild

\* Types, for the steps of an enrichment.
LEMMA TypeEnrich ==
    ASSUME NEW j \in Jobs, TypeOK, Launch(j) \/ Enrich(j)
    PROVE  TypeOK'
<1> USE DEF TypeOK, jobVars, clientVars, poolVars, Goto, Working, Ending, Ended
<1>0. NoCopy \in Pools
  BY DEF NoCopy, Pools
<1>1. CASE Launch(j)
  BY <1>1 DEF Launch, TryLock
<1>2. CASE InfoFails(j)
  BY <1>2 DEF InfoFails
<1>3. CASE Register(j)
  <2>1. [mem EXCEPT ![j] = "running"] \in [Jobs -> Status \cup {Absent}]
    BY DEF Status
  <2>2. /\ mem' \in [Jobs -> Status \cup {Absent}]
        /\ file' \in [Jobs -> Status \cup {Absent}]
    BY <1>3, <2>1, KeepType DEF Register
  <2> QED
    BY <1>3, <2>2 DEF Register
<1>4. CASE Persist(j)
  BY <1>4 DEF Persist, Written, Status
<1>5. CASE StartThread(j)
  BY <1>5 DEF StartThread
<1>6. CASE ThreadFails(j)
  BY <1>0, <1>6 DEF ThreadFails, Release
<1>7. CASE ReadPool(j)
  BY <1>7 DEF ReadPool
<1>8. CASE WritePool(j)
  <2>1. PICK found \in SUBSET copy[j].listed :
            pool' = [listed |-> copy[j].listed,
                     enriched |-> copy[j].enriched \cup found]
    BY <1>8 DEF WritePool
  <2>2. copy[j] \in Pools
    OBVIOUS
  <2>3. pool' \in Pools
    BY <2>1, <2>2 DEF Pools
  <2> QED
    BY <1>0, <1>8, <2>3 DEF WritePool, Release, Terminal
<1>9. CASE EnrichFails(j)
  BY <1>0, <1>9 DEF EnrichFails, Release, Terminal
<1>10. CASE Finish(j)
  BY <1>10 DEF Finish, Status
<1>11. CASE PersistOutcome(j)
  BY <1>11 DEF PersistOutcome, Written, Status
<1> QED
  BY <1>1, <1>2, <1>3, <1>4, <1>5, <1>6, <1>7, <1>8, <1>9, <1>10, <1>11 DEF Enrich

\* Types, for the steps of a poll.
LEMMA TypePoll ==
    ASSUME NEW c \in Clients, TypeOK,
           ReadFile(c) \/ Answer(c) \/ \E j \in Jobs : Ask(c, j)
    PROVE  TypeOK'
<1> USE DEF TypeOK, jobVars, clientVars, poolVars
<1>1. CASE \E j \in Jobs : Ask(c, j)
  BY <1>1 DEF Ask
<1>2. CASE ReadFile(c)
  BY <1>2 DEF ReadFile
<1>3. CASE Answer(c)
  <2> DEFINE j == poll[c].job
             seen == poll[c].seen
  <2>1. j \in Jobs /\ seen \in Status \cup {Absent}
    BY <1>3 DEF Answer
  <2>2. /\ mem' \in [Jobs -> Status \cup {Absent}]
        /\ file' \in [Jobs -> Status \cup {Absent}]
    <3>1. CASE seen # Absent /\ Keep([mem EXCEPT ![j] = seen])
      <4>1. [mem EXCEPT ![j] = seen] \in [Jobs -> Status \cup {Absent}]
        BY <2>1
      <4> HIDE DEF j, seen
      <4> QED
        BY <3>1, <4>1, KeepType
    <3>2. CASE UNCHANGED <<mem, file>>
      BY <3>2
    <3> QED
      BY <1>3, <3>1, <3>2 DEF Answer
  <2>3. told' \in [Clients -> [Jobs -> Status \cup {Absent}]]
    BY <1>3, <2>1 DEF Answer
  <2> QED
    BY <1>3, <2>2, <2>3 DEF Answer
<1> QED
  BY <1>1, <1>2, <1>3

\* Types, for a restart.
LEMMA TypeRestart == TypeOK /\ Restart => TypeOK'
<1> SUFFICES ASSUME TypeOK, Restart PROVE TypeOK'
  OBVIOUS
<1> USE DEF TypeOK, poolVars
<1>0. NoCopy \in Pools
  BY DEF NoCopy, Pools
<1>1. \A j \in Jobs : file[j] # Absent => Recovered(file[j]) \in Status
  BY DEF Recovered, Status, Terminal
<1>2. mem' \in [Jobs -> Status \cup {Absent}]
  <2>1. PICK kept \in Loaded(file) :
          mem' = [j \in Jobs |-> IF j \in kept THEN Recovered(file[j]) ELSE Absent]
    BY DEF Restart
  <2>2. \A j \in kept : file[j] # Absent
    BY DEF Loaded, Held
  <2> QED
    BY <1>1, <2>1, <2>2
<1>3. file' \in [Jobs -> Status \cup {Absent}]
  <2>1. PICK corrected \in SUBSET Held(file) :
          file' = [j \in Jobs |-> IF j \in corrected THEN Recovered(file[j])
                                                     ELSE file[j]]
    BY DEF Restart
  <2>2. \A j \in corrected : file[j] # Absent
    BY DEF Held
  <2> QED
    BY <1>1, <2>1, <2>2
<1>4. /\ restarts' \in 0..MaxRestarts
  BY MaxRestartsAssumption DEF Restart
<1>5. worker' \in [Jobs -> Working \cup Ending \cup Ended]
  BY DEF Restart, Ended
<1> QED
  BY <1>0, <1>2, <1>3, <1>4, <1>5 DEF Restart, RebuildSteps

LEMMA TypeStep == TypeOK /\ [Next]_vars => TypeOK'
<1> SUFFICES ASSUME TypeOK, [Next]_vars PROVE TypeOK'
  OBVIOUS
<1>1. CASE RefreshUniverse
  BY <1>1 DEF RefreshUniverse, jobVars, clientVars, TypeOK
<1>2. CASE UNCHANGED vars
  BY <1>2 DEF vars, TypeOK
<1> QED
  BY <1>1, <1>2, TypeRebuild, TypeEnrich, TypePoll, TypeRestart DEF Next

\* Every variable keeps its type.
THEOREM TypeCorrect == Spec => []TypeOK
BY TypeInit, TypeStep, PTL DEF Spec

-----------------------------------------------------------------------------
(* The lock.                                                                 *)

LEMMA OwnedStep == TypeOK /\ Owned /\ [Next]_vars => Owned'
<1> SUFFICES ASSUME TypeOK, Owned, [Next]_vars PROVE Owned'
  OBVIOUS
<1> USE HoldersAssumption DEF TypeOK, Owned, Free
<1>1. CASE RefreshUniverse
  BY <1>1 DEF RefreshUniverse
<1>2. ASSUME NEW a \in Admins, RebuildLock(a) \/ Rebuild(a) PROVE Owned'
  BY <1>2 DEF RebuildLock, Rebuild, RebuildRead, RebuildWrite, RebuildFails, TryLock,
              Release
<1>3. ASSUME NEW j \in Jobs, Launch(j) \/ Enrich(j) PROVE Owned'
  <2>1. CASE Launch(j)
    BY <2>1 DEF Launch, TryLock, Goto
  <2>2. CASE Register(j) \/ Persist(j) \/ StartThread(j) \/ ReadPool(j)
    BY <2>2 DEF Register, Persist, StartThread, ReadPool, Goto, Working
  <2>3. CASE ThreadFails(j) \/ WritePool(j) \/ EnrichFails(j)
    <3>1. holder = j
      BY <2>3 DEF ThreadFails, WritePool, EnrichFails, Working
    <3>2. /\ worker' = [worker EXCEPT ![j] = worker'[j]]
          /\ worker'[j] \in {"refused", "finish"}
          /\ UNCHANGED rebuild
      BY <2>3 DEF ThreadFails, WritePool, EnrichFails, Goto
    <3> QED
      BY <3>1, <3>2 DEF Working
  <2>4. CASE InfoFails(j) \/ Finish(j) \/ PersistOutcome(j)
    BY <2>4 DEF InfoFails, Finish, PersistOutcome, Goto, Working
  <2> QED
    BY <1>3, <2>1, <2>2, <2>3, <2>4 DEF Enrich
<1>4. ASSUME NEW c \in Clients, ReadFile(c) \/ Answer(c) \/ \E j \in Jobs : Ask(c, j)
      PROVE  Owned'
  <2>1. UNCHANGED <<holder, rebuild, worker>>
    BY <1>4 DEF ReadFile, Answer, Ask
  <2> QED
    BY <2>1
<1>5. CASE Restart
  BY <1>5 DEF Restart, Working, Ended
<1>6. CASE UNCHANGED vars
  BY <1>6 DEF vars
<1> QED
  BY <1>1, <1>2, <1>3, <1>4, <1>5, <1>6 DEF Next

LEMMA LockMatchesStep ==
    ASSUME "info" \notin Mishaps
    PROVE  TypeOK /\ LockMatches /\ [Next]_vars => LockMatches'
<1> SUFFICES ASSUME TypeOK, LockMatches, [Next]_vars PROVE LockMatches'
  OBVIOUS
<1> USE HoldersAssumption DEF TypeOK, LockMatches, Free
<1>1. CASE RefreshUniverse
  BY <1>1 DEF RefreshUniverse
<1>2. ASSUME NEW a \in Admins, RebuildLock(a) \/ Rebuild(a) PROVE LockMatches'
  BY <1>2 DEF RebuildLock, Rebuild, RebuildRead, RebuildWrite, RebuildFails, TryLock,
              Release
<1>3. ASSUME NEW j \in Jobs, Launch(j) \/ Enrich(j) PROVE LockMatches'
  <2>1. CASE Launch(j)
    BY <2>1 DEF Launch, TryLock, Goto, Working
  <2>2. CASE Register(j) \/ Persist(j) \/ StartThread(j) \/ ReadPool(j)
    BY <2>2 DEF Register, Persist, StartThread, ReadPool, Goto, Working
  <2>3. CASE ThreadFails(j) \/ WritePool(j) \/ EnrichFails(j)
    <3>1. holder = j
      BY <2>3 DEF ThreadFails, WritePool, EnrichFails, Working
    <3>2. /\ worker' = [worker EXCEPT ![j] = worker'[j]]
          /\ worker'[j] \in {"refused", "finish"}
          /\ UNCHANGED rebuild
          /\ holder' = Free
      BY <2>3 DEF ThreadFails, WritePool, EnrichFails, Goto, Release
    <3> QED
      BY <3>1, <3>2 DEF Working
  <2>4. CASE Finish(j) \/ PersistOutcome(j)
    BY <2>4 DEF Finish, PersistOutcome, Goto, Working
  <2>5. ~InfoFails(j)
    BY DEF InfoFails
  <2> QED
    BY <1>3, <2>1, <2>2, <2>3, <2>4, <2>5 DEF Enrich
<1>4. ASSUME NEW c \in Clients, ReadFile(c) \/ Answer(c) \/ \E j \in Jobs : Ask(c, j)
      PROVE  LockMatches'
  <2>1. UNCHANGED <<holder, rebuild, worker>>
    BY <1>4 DEF ReadFile, Answer, Ask
  <2> QED
    BY <2>1
<1>5. CASE Restart
  BY <1>5 DEF Restart, Working, Ended
<1>6. CASE UNCHANGED vars
  BY <1>6 DEF vars
<1> QED
  BY <1>1, <1>2, <1>3, <1>4, <1>5, <1>6 DEF Next

\* The lock of the pool is held exactly by the operation in progress, through the
\* hand-over from request to thread and every failure, if building the provider
\* never fails: nothing else leaks it.
THEOREM LockHeldByWorkers ==
    ASSUME "info" \notin Mishaps
    PROVE  Spec => []LockMatches
<1>1. Init => LockMatches
  BY HoldersAssumption DEF Init, LockMatches, Free, Working
<1>2. Init => TypeOK
  BY TypeInit
<1>3. TypeOK /\ LockMatches /\ [Next]_vars => (TypeOK /\ LockMatches)'
  BY "info" \notin Mishaps, TypeStep, LockMatchesStep
<1> QED
  BY <1>1, <1>2, <1>3, PTL DEF Spec

-----------------------------------------------------------------------------
(* The pool.                                                                 *)

LEMMA CurrentStep == PoolInv /\ [Next]_vars => Current'
<1> SUFFICES ASSUME PoolInv, [Next]_vars PROVE Current'
  OBVIOUS
<1> USE HoldersAssumption DEF PoolInv, TypeOK, Current
<1>1. CASE RefreshUniverse
  BY <1>1 DEF RefreshUniverse
<1>2. ASSUME NEW a \in Admins, RebuildLock(a) \/ Rebuild(a) PROVE Current'
  <2>1. CASE RebuildLock(a)
    BY <2>1 DEF RebuildLock, poolVars
  <2>2. CASE RebuildRead(a)
    BY <2>2 DEF RebuildRead, poolVars
  <2>3. CASE RebuildFails(a)
    BY <2>3 DEF RebuildFails, Release, poolVars
  <2>4. CASE RebuildWrite(a)
    <3>1. holder = a
      BY <2>4 DEF RebuildWrite, Owned
    <3>2. \A j \in Jobs : worker'[j] # "write"
      BY <2>4, <3>1 DEF RebuildWrite, Owned, Working
    <3>3. \A b \in Admins : rebuild'[b] = "idle"
      BY <2>4, <3>1 DEF RebuildWrite, Owned
    <3> QED
      BY <3>2, <3>3
  <2> QED
    BY <1>2, <2>1, <2>2, <2>3, <2>4 DEF Rebuild
<1>3. ASSUME NEW j \in Jobs, Launch(j) \/ Enrich(j) PROVE Current'
  <2>1. CASE ReadPool(j)
    BY <2>1 DEF ReadPool, Goto, poolVars
  <2>2. CASE WritePool(j)
    <3>1. holder = j
      BY <2>2 DEF WritePool, Owned, Working
    <3>2. \A k \in Jobs : worker'[k] # "write"
      BY <2>2, <3>1 DEF WritePool, Owned, Working, Goto
    <3>3. \A a \in Admins : rebuild'[a] = "idle"
      BY <2>2, <3>1 DEF WritePool, Owned
    <3> QED
      BY <3>2, <3>3
  <2>3. CASE ThreadFails(j) \/ EnrichFails(j)
    BY <2>3 DEF ThreadFails, EnrichFails, Release, Goto, poolVars
  <2>4. CASE \/ Launch(j) \/ InfoFails(j) \/ Register(j) \/ Persist(j)
             \/ StartThread(j) \/ Finish(j) \/ PersistOutcome(j)
    BY <2>4 DEF Launch, InfoFails, Register, Persist, StartThread, Finish,
                PersistOutcome, Goto, poolVars
  <2> QED
    BY <1>3, <2>1, <2>2, <2>3, <2>4 DEF Enrich
<1>4. ASSUME NEW c \in Clients, ReadFile(c) \/ Answer(c) \/ \E j \in Jobs : Ask(c, j)
      PROVE  Current'
  <2>1. UNCHANGED <<pool, copy, rebuild, worker>>
    BY <1>4 DEF ReadFile, Answer, Ask, poolVars
  <2> QED
    BY <2>1
<1>5. CASE Restart
  BY <1>5 DEF Restart, Ended
<1>6. CASE UNCHANGED vars
  BY <1>6 DEF vars
<1> QED
  BY <1>1, <1>2, <1>3, <1>4, <1>5, <1>6 DEF Next

LEMMA PoolInvStep == PoolInv /\ [Next]_vars => PoolInv'
BY TypeStep, OwnedStep, CurrentStep DEF PoolInv

\* Only the two writes of the pool change it, each from the pool as it is.
LEMMA PoolKeptStep ==
    ASSUME PoolInv, [Next]_vars, pool' # pool
    PROVE  /\ pool.enriched \cap pool'.listed \subseteq pool'.enriched
           /\ rebuild' = rebuild => pool'.listed = pool.listed
<1> USE DEF PoolInv, TypeOK, Current
<1>1. \/ \E a \in Admins : RebuildWrite(a)
      \/ \E j \in Jobs : WritePool(j)
  BY DEF Next, vars, RefreshUniverse, Restart, RebuildLock, Rebuild, RebuildRead,
         RebuildFails, Launch, Enrich, InfoFails, Register, Persist, StartThread,
         ThreadFails, ReadPool, EnrichFails, Finish, PersistOutcome, Ask, ReadFile,
         Answer, poolVars
<1>2. ASSUME NEW a \in Admins, RebuildWrite(a)
      PROVE  /\ pool.enriched \cap pool'.listed \subseteq pool'.enriched
             /\ rebuild' # rebuild
  <2>1. copy[a] = pool /\ rebuild'[a] # rebuild[a]
    BY <1>2 DEF RebuildWrite
  <2> QED
    BY <1>2, <2>1 DEF RebuildWrite, Rebuilt
<1>3. ASSUME NEW j \in Jobs, WritePool(j)
      PROVE  /\ pool.enriched \subseteq pool'.enriched
             /\ pool'.listed = pool.listed
  <2>1. PICK found \in SUBSET copy[j].listed :
            pool' = [listed |-> copy[j].listed,
                     enriched |-> copy[j].enriched \cup found]
    BY <1>3 DEF WritePool
  <2>2. copy[j] = pool
    BY <1>3 DEF WritePool
  <2> QED
    BY <2>1, <2>2 DEF Pools
<1> QED
  BY <1>1, <1>2, <1>3

\* No rebuild and no enrichment overwrites what another one wrote, whatever restarts,
\* failures and leaks of the lock come between.
THEOREM PoolKept == Spec => NothingClobbered
<1>1. Init => PoolInv
  <2>1. Init => Owned /\ Current
    BY DEF Init, Owned, Current, Working
  <2> QED
    BY <2>1, TypeInit DEF PoolInv
<1>2. PoolInv /\ [Next]_vars =>
        [/\ pool.enriched \cap pool'.listed \subseteq pool'.enriched
         /\ rebuild' = rebuild => pool'.listed = pool.listed]_pool
  BY PoolKeptStep
<1> QED
  BY <1>1, <1>2, PoolInvStep, PTL DEF Spec, NothingClobbered

-----------------------------------------------------------------------------
(* What a client is told.                                                    *)

\* How job j ended, as far as a file or the dictionary can tell.
Final(j) == IF worker[j] = "killed" THEN "failed" ELSE outcome[j]

\* The steps of a job whose outcome clients may have been told.
Over == {"persist_outcome", "finished", "killed"}

\* A job at work is running to everybody; it is never evicted.
Ongoing ==
    \A j \in Jobs :
        /\ worker[j] \in {"unborn", "prepare"} => mem[j] = Absent /\ file[j] = Absent
        /\ worker[j] \in {"persist", "start", "read", "write", "finish"} =>
               mem[j] = "running" /\ file[j] \in {"running", Absent}
        /\ worker[j] \in {"finish", "persist_outcome", "finished"} =>
               outcome[j] \in Terminal

\* A job that is over has its outcome in the dictionary and in its file, or is gone
\* from them; the file of a job that has yet to write it may lag behind, but not
\* that of a job that was evicted.
Settled ==
    \A j \in Jobs : worker[j] \in Over =>
        /\ mem[j] \in {Final(j), Absent}
        /\ IF worker[j] = "persist_outcome"
           THEN file[j] = Absent \/ (file[j] = "running" /\ mem[j] # Absent)
           ELSE file[j] \in {Final(j), Absent}

\* A poll goes to the file of a job only when it is over, and finds its outcome
\* there or nothing.
Asked ==
    \A c \in Clients : poll[c] # NoPoll =>
        /\ worker[poll[c].job] \in Over
        /\ poll[c].seen \in {Final(poll[c].job), Absent}
        /\ file[poll[c].job] # "running"

\* The end a client was told is the end there was, or the restart that came instead.
ToldTrue ==
    \A c \in Clients, j \in Jobs : told[c][j] \in Terminal =>
        /\ worker[j] \in Over
        /\ told[c][j] = outcome[j] \/ (worker[j] = "killed" /\ told[c][j] = "failed")

AdvanceInv == Ongoing /\ Settled /\ Asked /\ ToldTrue

\* What trimming does, when every file can be removed: the jobs that go are over, and
\* their files go with them.
LEMMA KeepKeeps ==
    ASSUME NEW dict \in [Jobs -> Status \cup {Absent}], TypeOK, Keep(dict),
           "update" \notin Mishaps, NEW k \in Jobs
    PROVE  \/ mem'[k] = dict[k] /\ file'[k] = file[k]
           \/ dict[k] \in Terminal /\ mem'[k] = Absent /\ file'[k] = Absent
<1>1. PICK gone \in Trims(dict, Evictable(dict)) :
        mem' = Without(dict, gone) /\ file' = Without(file, gone)
  BY DEF Keep
<1>2. gone \subseteq Evictable(dict)
  BY <1>1 DEF Trims
<1> QED
  BY <1>1, <1>2 DEF Without, Evictable

\* The steps of a job: nothing that was said of another one is disturbed.
LEMMA AdvanceEnrich ==
    ASSUME NEW j \in Jobs, TypeOK, AdvanceInv, "update" \notin Mishaps,
           Launch(j) \/ Enrich(j)
    PROVE  AdvanceInv'
<1> USE DEF TypeOK, AdvanceInv, Absent
\* What j does to itself, and to the others.
<1>0. UNCHANGED clientVars
  BY DEF Launch, Enrich, InfoFails, Register, Persist, StartThread, ThreadFails,
         ReadPool, WritePool, EnrichFails, Finish, PersistOutcome
<1>1. worker' = [worker EXCEPT ![j] = worker'[j]]
  BY DEF Launch, Enrich, InfoFails, Register, Persist, StartThread, ThreadFails,
         ReadPool, WritePool, EnrichFails, Finish, PersistOutcome, Goto
<1>2. ASSUME NEW k \in Jobs, k # j
      PROVE  /\ outcome'[k] = outcome[k]
             /\ \/ mem'[k] = mem[k] /\ file'[k] = file[k]
                \/ mem[k] \in Terminal /\ mem'[k] = Absent /\ file'[k] = Absent
  <2>1. CASE Register(j)
    <3>1. [mem EXCEPT ![j] = "running"] \in [Jobs -> Status \cup {Absent}]
      BY DEF Status
    <3> QED
      BY <1>2, <2>1, <3>1, KeepKeeps DEF Register
  <2>2. CASE WritePool(j) \/ EnrichFails(j)
    BY <1>2, <2>2 DEF WritePool, EnrichFails
  <2>3. CASE Persist(j) \/ PersistOutcome(j) \/ Finish(j)
    BY <1>2, <2>3 DEF Persist, PersistOutcome, Written, Finish
  <2>4. CASE \/ Launch(j) \/ InfoFails(j) \/ StartThread(j) \/ ThreadFails(j)
             \/ ReadPool(j)
    BY <2>4 DEF Launch, InfoFails, StartThread, ThreadFails, ReadPool, jobVars
  <2> QED
    BY <2>1, <2>2, <2>3, <2>4 DEF Enrich
\* The steps of j before it is over.
<1>3. CASE worker[j] \notin Over /\ worker'[j] \notin Over
  <2>1. /\ worker'[j] \in {"unborn", "prepare"} => mem'[j] = Absent /\ file'[j] = Absent
        /\ worker'[j] \in {"persist", "start", "read", "write", "finish"} =>
               mem'[j] = "running" /\ file'[j] \in {"running", Absent}
        /\ worker'[j] = "finish" => outcome'[j] \in Terminal
    <3>1. CASE Launch(j)
      BY <3>1 DEF Launch, Goto, Ongoing, jobVars
    <3>2. CASE InfoFails(j) \/ ThreadFails(j)
      BY <3>2 DEF InfoFails, ThreadFails, Goto
    <3>3. CASE Register(j)
      <4>1. [mem EXCEPT ![j] = "running"] \in [Jobs -> Status \cup {Absent}]
        BY DEF Status
      <4>2. mem'[j] = "running" /\ file'[j] = file[j]
        BY <3>3, <4>1, KeepKeeps DEF Register, Terminal
      <4> QED
        BY <3>3, <4>2 DEF Register, Goto, Ongoing
    <3>4. CASE Persist(j)
      BY <3>4 DEF Persist, Written, Goto, Ongoing
    <3>5. CASE StartThread(j) \/ ReadPool(j)
      BY <3>5 DEF StartThread, ReadPool, Goto, Ongoing, jobVars
    <3>6. CASE WritePool(j) \/ EnrichFails(j)
      BY <3>6 DEF WritePool, EnrichFails, Goto, Ongoing, Terminal
    <3>7. CASE Finish(j) \/ PersistOutcome(j)
      BY <1>3, <3>7 DEF Finish, PersistOutcome, Goto, Over
    <3> QED
      BY <3>1, <3>2, <3>3, <3>4, <3>5, <3>6, <3>7 DEF Enrich
  <2>2. Ongoing'
    BY <1>1, <1>2, <1>3, <2>1 DEF Ongoing, Over, Terminal
  <2>3. \A k \in Jobs : worker'[k] \in Over =>
            k # j /\ worker'[k] = worker[k] /\ Final(k)' = Final(k)
    BY <1>1, <1>2, <1>3 DEF Final
  <2>4. Settled'
    BY <1>2, <2>3 DEF Settled
  <2>5. Asked'
    <3>1. \A c \in Clients : poll[c] # NoPoll => poll[c].job \in Jobs
      OBVIOUS
    <3> QED
      BY <1>0, <1>1, <1>2, <1>3, <3>1 DEF Asked, Final, clientVars
  <2>6. ToldTrue'
    BY <1>0, <1>1, <1>2, <1>3 DEF ToldTrue, clientVars
  <2> QED
    BY <2>2, <2>4, <2>5, <2>6
\* It is over.
<1>4. CASE Finish(j)
  <2>1. /\ worker'[j] = "persist_outcome" /\ worker[j] = "finish"
        /\ mem'[j] = outcome[j] /\ UNCHANGED <<file, outcome>>
    BY <1>4 DEF Finish, Goto, Ongoing
  <2>2. file[j] \in {"running", Absent} /\ outcome[j] \in Terminal
    BY <2>1 DEF Ongoing
  <2>3. Ongoing'
    BY <1>1, <1>2, <2>1, <2>2 DEF Ongoing, Terminal
  <2>4. \A k \in Jobs : k # j => Final(k)' = Final(k) /\ worker'[k] = worker[k]
    BY <1>1, <1>2 DEF Final
  <2>5. Settled'
    BY <1>2, <2>1, <2>2, <2>4 DEF Settled, Final, Terminal
  <2>6. \A c \in Clients : poll[c] # NoPoll => poll[c].job \in Jobs /\ poll[c].job # j
    BY <2>1 DEF Asked, Over
  <2>7. Asked'
    BY <1>0, <2>1, <2>4, <2>6 DEF Asked, clientVars
  <2>8. ToldTrue'
    BY <1>0, <2>1, <2>4 DEF ToldTrue, clientVars, Over
  <2> QED
    BY <2>3, <2>5, <2>7, <2>8
<1>5. CASE PersistOutcome(j)
  <2>1. /\ worker'[j] = "finished" /\ worker[j] = "persist_outcome"
        /\ UNCHANGED <<mem, outcome>>
    BY <1>5 DEF PersistOutcome, Goto
  <2>2. outcome[j] \in Terminal /\ mem[j] \in {outcome[j], Absent}
    BY <2>1 DEF Ongoing, Settled, Over, Final
  <2>3. file'[j] \in {outcome[j], Absent}
    BY <1>5, <2>1 DEF PersistOutcome, Written, Settled, Over
  <2>4. Ongoing'
    BY <1>1, <1>2, <2>1, <2>2 DEF Ongoing, Terminal
  <2>5. \A k \in Jobs : Final(k)' = Final(k)
    BY <1>1, <1>2, <2>1 DEF Final
  <2>6. \A k \in Jobs : k # j => worker'[k] = worker[k]
    BY <1>1
  <2>7. Settled'
    BY <1>2, <2>1, <2>2, <2>3, <2>5, <2>6 DEF Settled, Final
  <2>8. Asked'
    <3>1. \A c \in Clients : poll[c] # NoPoll => poll[c].job \in Jobs
      OBVIOUS
    <3>2. "running" \notin Terminal
      BY DEF Terminal
    <3> QED
      BY <1>0, <1>2, <2>1, <2>2, <2>3, <2>5, <2>6, <3>1, <3>2
         DEF Asked, clientVars, Over
  <2>9. ToldTrue'
    BY <1>0, <2>1, <2>6 DEF ToldTrue, clientVars, Over
  <2> QED
    BY <2>4, <2>7, <2>8, <2>9
<1>6. Finish(j) \/ PersistOutcome(j) \/ (worker[j] \notin Over /\ worker'[j] \notin Over)
  BY DEF Launch, Enrich, InfoFails, Register, Persist, StartThread, ThreadFails,
         ReadPool, WritePool, EnrichFails, Goto, Over
<1> QED
  BY <1>3, <1>4, <1>5, <1>6

\* The steps of a poll: what it finds in a file is the outcome or nothing.
LEMMA AdvancePoll ==
    ASSUME NEW c \in Clients, TypeOK, AdvanceInv, "update" \notin Mishaps,
           ReadFile(c) \/ Answer(c) \/ \E j \in Jobs : Ask(c, j)
    PROVE  AdvanceInv'
<1> USE DEF TypeOK, AdvanceInv, Absent
<1>0. UNCHANGED <<worker, outcome>>
  BY DEF ReadFile, Answer, Ask, jobVars
<1>00. \A k \in Jobs : Final(k)' = Final(k)
  BY <1>0 DEF Final
<1>1. ASSUME NEW j \in Jobs, Ask(c, j) PROVE AdvanceInv'
  <2>1. Ongoing' /\ Settled'
    BY <1>1 DEF Ask, Ongoing, Settled, Final, jobVars
  <2>2. worker[j] \notin {"unborn", "prepare", "persist", "start", "refused",
                          "aborted", "lost"}
    BY <1>1 DEF Ask, IdGiven, Ending
  <2>3. CASE mem[j] # Absent /\ told' = [told EXCEPT ![c][j] = mem[j]]
             /\ UNCHANGED poll
    <3>1. mem[j] \in Terminal => worker[j] \in Over
      BY <2>2 DEF Ongoing, Over, Terminal, Working, Ending, Ended
    <3>2. mem[j] \in Terminal =>
              mem[j] = outcome[j] \/ (worker[j] = "killed" /\ mem[j] = "failed")
      BY <3>1, <2>3 DEF Settled, Final
    <3>3. ToldTrue'
      BY <1>0, <2>3, <3>1, <3>2 DEF ToldTrue
    <3>4. Asked'
      BY <1>1, <2>3 DEF Ask, Asked, Final, jobVars
    <3> QED
      BY <2>1, <3>3, <3>4
  <2>4. CASE /\ mem[j] = Absent
             /\ poll' = [poll EXCEPT ![c] = [job |-> j, step |-> "read", seen |-> Absent]]
             /\ UNCHANGED told
    <3>1. worker[j] \in Over
      BY <2>2, <2>4 DEF Ongoing, Over, Working, Ending, Ended
    <3>2. file[j] # "running"
      BY <2>4, <3>1 DEF Settled, Final, Ongoing, Over, Terminal
    <3>3. ToldTrue'
      BY <1>0, <2>4 DEF ToldTrue
    <3>4. UNCHANGED file
      BY <1>1 DEF Ask, jobVars
    <3>5. poll'[c].job = j /\ poll'[c].seen = Absent
      BY <2>4
    <3>6. \A d \in Clients : d # c => poll'[d] = poll[d]
      BY <2>4
    <3>7. Asked'
      <4>1. SUFFICES ASSUME NEW d \in Clients, (poll[d] # NoPoll)'
                     PROVE  /\ worker'[poll'[d].job] \in Over
                            /\ poll'[d].seen \in {Final(poll[d].job)', Absent}
                            /\ file'[poll'[d].job] # "running"
        BY DEF Asked
      <4>2. CASE d = c
        BY <1>0, <3>1, <3>2, <3>4, <3>5, <4>2
      <4>3. CASE d # c
        BY <1>0, <3>4, <3>6, <4>1, <4>3 DEF Asked, Final
      <4> QED
        BY <4>2, <4>3
    <3> QED
      BY <2>1, <3>3, <3>7
  <2> QED
    BY <1>1, <2>3, <2>4 DEF Ask
<1>2. CASE ReadFile(c)
  <2> DEFINE j == poll[c].job
  <2>1. /\ poll[c] # NoPoll /\ j \in Jobs
        /\ poll' = [poll EXCEPT ![c] = [job |-> j, step |-> "install", seen |-> file[j]]]
        /\ UNCHANGED <<mem, file, told>>
    BY <1>2 DEF ReadFile, jobVars
  <2>2. worker[j] \in Over /\ file[j] # "running"
    BY <2>1 DEF Asked
  <2>3. file[j] \in {Final(j), Absent}
    BY <2>1, <2>2 DEF Settled
  <2>4. Ongoing' /\ Settled' /\ ToldTrue'
    BY <1>0, <2>1 DEF Ongoing, Settled, Final, ToldTrue
  <2>5. poll'[c].job = j /\ poll'[c].seen = file[j]
    BY <2>1
  <2>6. \A d \in Clients : d # c => poll'[d] = poll[d]
    BY <2>1
  <2>7. UNCHANGED file
    BY <2>1
  <2> HIDE DEF j
  <2>8. Asked'
    <3>1. SUFFICES ASSUME NEW d \in Clients, (poll[d] # NoPoll)'
                   PROVE  /\ worker'[poll'[d].job] \in Over
                          /\ poll'[d].seen \in {Final(poll[d].job)', Absent}
                          /\ file'[poll'[d].job] # "running"
      BY DEF Asked
    <3>2. CASE d = c
      BY <1>0, <2>2, <2>3, <2>5, <2>7, <3>2 DEF Final
    <3>3. CASE d # c
      BY <1>0, <2>6, <2>7, <3>1, <3>3 DEF Asked, Final
    <3> QED
      BY <3>2, <3>3
  <2> QED
    BY <2>4, <2>8
<1>3. CASE Answer(c)
  <2> DEFINE j == poll[c].job
             seen == poll[c].seen
  <2>1. /\ poll[c] # NoPoll /\ j \in Jobs /\ seen \in Status \cup {Absent}
        /\ poll' = [poll EXCEPT ![c] = NoPoll]
        /\ told' = [told EXCEPT ![c][j] = seen]
        /\ \/ seen # Absent /\ Keep([mem EXCEPT ![j] = seen])
           \/ seen = Absent /\ UNCHANGED <<mem, file>>
    BY <1>3 DEF Answer
  <2>2. worker[j] \in Over /\ seen \in {Final(j), Absent} /\ file[j] # "running"
    BY <2>1 DEF Asked
  <2>3. \A d \in Clients : poll'[d] # NoPoll => d # c /\ poll'[d] = poll[d]
    BY <2>1
  <2> HIDE DEF j, seen
  <2>4. \A k \in Jobs :
           \/ mem'[k] = mem[k] /\ file'[k] = file[k]
           \/ k = j /\ mem'[k] = seen /\ file'[k] = file[k]
           \/ /\ mem[k] \in Terminal \/ (k = j /\ seen \in Terminal)
              /\ mem'[k] = Absent /\ file'[k] = Absent
    <3>1. CASE seen # Absent /\ Keep([mem EXCEPT ![j] = seen])
      <4>1. [mem EXCEPT ![j] = seen] \in [Jobs -> Status \cup {Absent}]
        BY <2>1
      <4>2. \A k \in Jobs :
              \/ mem'[k] = [mem EXCEPT ![j] = seen][k] /\ file'[k] = file[k]
              \/ /\ [mem EXCEPT ![j] = seen][k] \in Terminal
                 /\ mem'[k] = Absent /\ file'[k] = Absent
        BY <3>1, <4>1, KeepKeeps
      <4> QED
        BY <2>1, <4>2
    <3>2. CASE UNCHANGED <<mem, file>>
      BY <3>2
    <3> QED
      BY <2>1, <3>1, <3>2
  <2>5. Ongoing'
    <3>1. worker[j] \notin {"unborn", "prepare", "persist", "start", "read", "write",
                            "finish"}
      BY <2>2 DEF Over
    <3> QED
      BY <1>0, <2>4, <3>1 DEF Ongoing, Terminal
  <2>6. Settled'
    BY <1>0, <1>00, <2>2, <2>4 DEF Settled
  <2>7. Asked'
    <3>1. \A d \in Clients : poll[d] # NoPoll => poll[d].job \in Jobs
      OBVIOUS
    <3>2. \A k \in Jobs : file[k] # "running" => file'[k] # "running"
      BY <2>4
    <3> QED
      BY <1>0, <1>00, <2>3, <3>1, <3>2 DEF Asked
  <2>8. ToldTrue'
    <3>1. seen \in Terminal =>
              seen = outcome[j] \/ (worker[j] = "killed" /\ seen = "failed")
      BY <2>2 DEF Final, Terminal
    <3> QED
      BY <1>0, <2>1, <2>2, <3>1 DEF ToldTrue
  <2> QED
    BY <2>5, <2>6, <2>7, <2>8
<1> QED
  BY <1>1, <1>2, <1>3

\* A restart: the files tell how the jobs that were over ended, and that the others
\* failed.
LEMMA AdvanceRestart ==
    TypeOK /\ AdvanceInv /\ "update" \notin Mishaps /\ Restart => AdvanceInv'
<1> SUFFICES ASSUME TypeOK, AdvanceInv, "update" \notin Mishaps, Restart
             PROVE  AdvanceInv'
  OBVIOUS
<1> USE DEF TypeOK, AdvanceInv, Absent
<1>1. \A k \in Jobs : mem'[k] \in {Recovered(file[k]), Absent}
                      /\ (file[k] = Absent => mem'[k] = Absent)
  <2>1. PICK kept \in Loaded(file) :
          mem' = [j \in Jobs |-> IF j \in kept THEN Recovered(file[j]) ELSE Absent]
    BY DEF Restart
  <2>2. \A j \in kept : file[j] # Absent
    BY DEF Loaded, Held
  <2> QED
    BY <2>1, <2>2
<1>2. \A k \in Jobs : file'[k] = Recovered(file[k])
  BY DEF Restart, Held, Recovered
<1>3. \A k \in Jobs :
        worker'[k] = IF worker[k] \in Ended THEN worker[k]
                     ELSE IF IdGiven(k) THEN "killed" ELSE "lost"
  BY DEF Restart
<1>4. UNCHANGED <<outcome, told>> /\ \A c \in Clients : poll'[c] = NoPoll
  BY DEF Restart
<1>5. \A k \in Jobs : worker'[k] \notin {"prepare", "persist", "start", "read", "write",
                                         "finish", "persist_outcome"}
  BY <1>3 DEF Ended
<1>6. Ongoing'
  BY <1>1, <1>2, <1>3, <1>4, <1>5 DEF Ongoing, Recovered
<1>7. ASSUME NEW k \in Jobs, worker'[k] \in Over
      PROVE  mem'[k] \in {Final(k)', Absent} /\ file'[k] \in {Final(k)', Absent}
  <2>1. CASE worker[k] \in {"finished", "killed"}
    <3>1. worker'[k] = worker[k] /\ Final(k)' = Final(k)
      BY <1>3, <1>4, <2>1 DEF Ended, Final
    <3>2. file[k] \in {Final(k), Absent}
      BY <2>1 DEF Settled, Over
    <3>3. Final(k) # "running"
      BY <2>1 DEF Final, Ongoing, Terminal
    <3> QED
      BY <1>1, <1>2, <3>1, <3>2, <3>3 DEF Recovered
  <2>2. CASE worker[k] \notin {"finished", "killed"}
    <3>1. worker'[k] = "killed" /\ worker[k] \in {"read", "write", "finish",
                                                  "persist_outcome"}
      BY <1>3, <1>7, <2>2 DEF Over, Ended, IdGiven, Ending
    <3>2. file[k] \in {"running", Absent}
      BY <3>1 DEF Ongoing, Settled, Over
    <3> QED
      BY <1>1, <1>2, <3>1, <3>2 DEF Recovered, Final
  <2> QED
    BY <2>1, <2>2
<1>8. Settled'
  BY <1>5, <1>7 DEF Settled
<1>9. Asked'
  BY <1>4 DEF Asked
<1>10. ToldTrue'
  <2>1. \A k \in Jobs : worker[k] \in Over =>
            worker'[k] \in Over /\ (worker[k] = "killed" => worker'[k] = "killed")
    BY <1>3 DEF Over, Ended, IdGiven, Ending
  <2> QED
    BY <1>4, <2>1 DEF ToldTrue
<1> QED
  BY <1>6, <1>8, <1>9, <1>10

LEMMA AdvanceStep ==
    ASSUME "update" \notin Mishaps
    PROVE  TypeOK /\ AdvanceInv /\ [Next]_vars => AdvanceInv'
<1> SUFFICES ASSUME TypeOK, AdvanceInv, [Next]_vars PROVE AdvanceInv'
  OBVIOUS
<1>1. CASE UNCHANGED <<worker, mem, file, outcome, poll, told>>
  BY <1>1 DEF AdvanceInv, Ongoing, Settled, Final, Asked, ToldTrue
<1>2. RefreshUniverse => UNCHANGED <<worker, mem, file, outcome, poll, told>>
  BY DEF RefreshUniverse, jobVars, clientVars
<1>3. \A a \in Admins : RebuildLock(a) \/ Rebuild(a) =>
          UNCHANGED <<worker, mem, file, outcome, poll, told>>
  BY DEF RebuildLock, Rebuild, RebuildRead, RebuildWrite, RebuildFails, jobVars,
         clientVars
<1>4. UNCHANGED vars => UNCHANGED <<worker, mem, file, outcome, poll, told>>
  BY DEF vars
<1> QED
  BY "update" \notin Mishaps, <1>1, <1>2, <1>3, <1>4, AdvanceEnrich, AdvancePoll,
     AdvanceRestart DEF Next

\* What a poll answers: how the job ended, if it ended, or nothing.
LEMMA AnswersAdvance ==
    ASSUME TypeOK, AdvanceInv, [Next]_vars, told' # told,
           NEW c \in Clients, NEW j \in Jobs, told[c][j] \in Terminal
    PROVE  \/ told'[c][j] \in {told[c][j], Absent}
           \/ told'[c][j] = "failed" /\ worker[j] = "killed"
<1> USE DEF TypeOK, AdvanceInv
<1>1. \E d \in Clients : Answer(d) \/ \E k \in Jobs : Ask(d, k)
  BY DEF Next, vars, RefreshUniverse, Restart, RebuildLock, Rebuild, RebuildRead,
         RebuildWrite, RebuildFails, Launch, Enrich, InfoFails, Register, Persist,
         StartThread, ThreadFails, ReadPool, WritePool, EnrichFails, Finish,
         PersistOutcome, ReadFile, clientVars
<1>2. /\ worker[j] \in Over
      /\ told[c][j] = outcome[j] \/ (worker[j] = "killed" /\ told[c][j] = "failed")
  BY DEF ToldTrue
<1>3. \/ told'[c][j] = told[c][j]
      \/ told'[c][j] \in {Final(j), Absent}
  <2>1. ASSUME NEW d \in Clients, NEW k \in Jobs, Ask(d, k) PROVE <1>3!:
    <3>1. mem[j] \in {Final(j), Absent}
      BY <1>2 DEF Settled
    <3> QED
      BY <2>1, <3>1 DEF Ask
  <2>2. ASSUME NEW d \in Clients, Answer(d) PROVE <1>3!:
    <3>1. poll[d] # NoPoll /\ poll[d].job \in Jobs
          /\ told' = [told EXCEPT ![d][poll[d].job] = poll[d].seen]
      BY <2>2 DEF Answer
    <3>2. poll[d].seen \in {Final(poll[d].job), Absent}
      BY <3>1 DEF Asked
    <3> QED
      BY <3>1, <3>2
  <2> QED
    BY <1>1, <2>1, <2>2
<1> QED
  BY <1>2, <1>3 DEF Final

\* While the files of jobs can be updated and removed, what a client has been told of
\* a job that was over is not taken back, whatever max_jobs is and whatever restarts
\* and evictions come between two polls: the outcome, nothing any more, or "failed"
\* after a restart before it was written.
THEOREM AnswersStay ==
    ASSUME "update" \notin Mishaps
    PROVE  Spec => ReportsAdvance
<1>1. Init => TypeOK /\ AdvanceInv
  <2>1. Init => AdvanceInv
    BY DEF Init, AdvanceInv, Ongoing, Settled, Asked, ToldTrue, Over, Absent, Terminal
  <2> QED
    BY <2>1, TypeInit
<1>2. TypeOK /\ AdvanceInv /\ [Next]_vars => (TypeOK /\ AdvanceInv)'
  BY "update" \notin Mishaps, TypeStep, AdvanceStep
<1>3. TypeOK /\ AdvanceInv /\ [Next]_vars =>
        [\A c \in Clients, j \in Jobs :
            told[c][j] \in Terminal =>
                \/ told'[c][j] \in {told[c][j], Absent}
                \/ told'[c][j] = "failed" /\ worker[j] = "killed"]_told
  BY AnswersAdvance
<1> QED
  BY <1>1, <1>2, <1>3, PTL DEF Spec, ReportsAdvance

=============================================================================
