-------------------------- MODULE RunManagerProofs --------------------------
(***************************************************************************)
(* What a run manager promises of its jobs, for any number of runs and     *)
(* clients, at the limit of max_jobs, with a disk that may fail.           *)
(***************************************************************************)
EXTENDS RunManager, FiniteSetTheorems, TLAPS

-----------------------------------------------------------------------------
(* The inductive invariant.                                                  *)

\* The run has no outcome yet.
Before == {"unborn", "persist_queued", "begin", "persist_running", "run"}

\* Until a run is over no one says that it is: neither the dictionary nor the file,
\* nor a poll that is under way.  So nothing evicts it.
Undecided ==
    \A j \in Jobs : worker[j] \in Before =>
        /\ mem[j] \notin Terminal
        /\ file[j] \notin Terminal
        /\ \A c \in Clients :
               /\ told[c][j] \notin Terminal
               /\ Asked(c, j) => poll[c].seen \notin Terminal

\* Nothing is known of a job that has not been started.
Unborn ==
    \A j \in Jobs : worker[j] = "unborn" =>
        file[j] = Absent /\ \A c \in Clients : ~Asked(c, j) /\ told[c][j] = Absent

KeptInv == TypeOK /\ Undecided /\ Unborn /\ ActiveJobKept

\* A status that may be told of job j.
Warranted(j, status) ==
    /\ status = "completed" => outcome[j] = "completed"
    /\ status = "error" =>
           \/ outcome[j] = "error"
           \/ restarts > 0 /\ (worker[j] = "killed" \/ DiskFails)

AllWarranted ==
    /\ \A j \in Jobs :
           worker[j] # "lost" => Warranted(j, mem[j]) /\ Warranted(j, file[j])
    /\ \A c \in Clients, j \in Jobs :
           Asked(c, j) => Warranted(j, poll[c].seen) /\ worker[j] # "lost"
    /\ ReportsTrue

\* Only jobs whose id was given are asked about.
IdKnown ==
    \A c \in Clients, j \in Jobs :
        Asked(c, j) => worker[j] \notin {"unborn", "persist_queued", "lost"}

\* A run that is over has its outcome in its file, if the disk takes it.
Recorded ==
    \A j \in Jobs :
        /\ worker[j] = "persist_outcome" => outcome[j] \in Terminal
        /\ worker[j] = "finished" /\ ~DiskFails => file[j] \in Terminal \cup {Absent}

TrueInv == KeptInv /\ AllWarranted /\ IdKnown /\ Recorded

-----------------------------------------------------------------------------
(* Types.                                                                    *)

Statuses == [Jobs -> Status \cup {Absent}]

\* What trimming does to the dictionary and to the files.
LEMMA KeepTrims ==
    ASSUME NEW dict \in Statuses, TypeOK, Keep(dict)
    PROVE  /\ mem' \in Statuses /\ file' \in Statuses
           /\ \A j \in Jobs :
                  /\ mem'[j] \in {dict[j], Absent}
                  /\ dict[j] \notin Terminal => mem'[j] = dict[j]
                  /\ file'[j] \in {file[j], Absent}
<1>1. PICK gone \in Trims(dict, Evictable(dict)) :
        /\ mem' = Without(dict, gone)
        /\ \E removed \in IF DiskFails THEN SUBSET gone ELSE {gone} :
               file' = Without(file, removed)
  BY DEF Keep
<1>2. PICK removed : file' = Without(file, removed)
  BY <1>1
<1>3. gone \subseteq Evictable(dict)
  BY <1>1 DEF Trims
<1>4. \A j \in gone : dict[j] \in Terminal
  BY <1>3 DEF Evictable
<1> QED
  BY <1>1, <1>2, <1>4 DEF Without, Statuses, TypeOK

\* What a change of job j does to the polls: to those that share the job.
LEMMA UpdateType ==
    ASSUME TypeOK, NEW j \in Jobs, NEW status \in Status, NEW next, NEW otherwise,
           Update(j, status, next, otherwise)
    PROVE  /\ mem' \in Statuses
           /\ poll' \in [Clients -> {NoPoll} \cup Polls]
           /\ worker' = [worker EXCEPT ![j] = worker'[j]]
           /\ worker'[j] \in {next, otherwise}
           /\ mem[j] # Absent => mem' = [mem EXCEPT ![j] = status] /\ worker'[j] = next
           /\ \A k \in Jobs \ {j} : mem'[k] = mem[k]
           /\ \A c \in Clients, k \in Jobs : Asked(c, k)' =>
                  /\ Asked(c, k)
                  /\ \/ poll'[c].seen = poll[c].seen
                     \/ k = j /\ poll'[c].seen = status
<1> USE DEF TypeOK, Statuses
<1>1. CASE mem[j] = Absent
  <2>1. UNCHANGED <<mem, poll>> /\ worker' = [worker EXCEPT ![j] = otherwise]
    BY <1>1 DEF Update
  <2> QED
    BY <1>1, <2>1 DEF Asked
<1>2. CASE mem[j] # Absent
  <2>1. /\ mem' = [mem EXCEPT ![j] = status]
        /\ poll' = [c \in Clients |-> IF Shares(c, j)
                                      THEN [poll[c] EXCEPT !.seen = status] ELSE poll[c]]
        /\ worker' = [worker EXCEPT ![j] = next]
    BY <1>2 DEF Update
  <2>2. ASSUME NEW c \in Clients, Shares(c, j)
        PROVE  /\ poll'[c] \in Polls
               /\ poll[c] # NoPoll /\ poll[c].job = j
               /\ poll'[c].job = j /\ poll'[c].seen = status
    <3>1. poll'[c] = [poll[c] EXCEPT !.seen = status] /\ poll[c] \in Polls
      BY <2>1, <2>2 DEF Shares, Asked
    <3> QED
      BY <2>2, <3>1 DEF Shares, Asked, Polls
  <2>3. \A c \in Clients : ~Shares(c, j) => poll'[c] = poll[c]
    BY <2>1
  <2>4. poll' \in [Clients -> {NoPoll} \cup Polls]
    BY <2>1, <2>2, <2>3
  <2>5. \A c \in Clients, k \in Jobs : Asked(c, k)' =>
            /\ Asked(c, k)
            /\ \/ poll'[c].seen = poll[c].seen
               \/ k = j /\ poll'[c].seen = status
    BY <2>2, <2>3 DEF Asked
  <2> QED
    BY <1>2, <2>1, <2>4, <2>5
<1> QED
  BY <1>1, <1>2

\* What a poll does that puts the job it has read in the dictionary.
LEMMA InstallEffect ==
    ASSUME TypeOK, NEW c \in Clients, Install(c)
    PROVE  LET j == poll[c].job
               seen == poll[c].seen
           IN  /\ j \in Jobs /\ seen \in Status /\ Asked(c, j) /\ poll[c].at = "read"
               /\ mem' \in Statuses /\ file' \in Statuses
               /\ mem'[j] \in {seen, Absent} /\ (seen \notin Terminal => mem'[j] = seen)
               /\ \A k \in Jobs \ {j} :
                      /\ mem'[k] \in {mem[k], Absent}
                      /\ mem[k] \notin Terminal => mem'[k] = mem[k]
               /\ \A k \in Jobs : file'[k] \in {file[k], Absent}
               /\ poll' \in [Clients -> {NoPoll} \cup Polls]
               /\ \A b \in Clients, k \in Jobs :
                      Asked(b, k)' => Asked(b, k) /\ poll'[b].seen = poll[b].seen
<1> USE DEF TypeOK
<1> DEFINE j == poll[c].job
           seen == poll[c].seen
           dict == [mem EXCEPT ![j] = seen]
<1>1. /\ j \in Jobs /\ seen \in Status /\ Asked(c, j) /\ poll[c].at = "read"
      /\ poll[c] \in Polls
  BY DEF Install, Asked, Polls
<1>2. dict \in Statuses /\ dict[j] = seen /\ \A k \in Jobs \ {j} : dict[k] = mem[k]
  BY <1>1 DEF Statuses
<1>3. Keep(dict)
  BY DEF Install
<1> HIDE DEF dict
<1>4. /\ mem' \in Statuses /\ file' \in Statuses
      /\ \A k \in Jobs :
             /\ mem'[k] \in {dict[k], Absent}
             /\ dict[k] \notin Terminal => mem'[k] = dict[k]
             /\ file'[k] \in {file[k], Absent}
  BY <1>2, <1>3, KeepTrims
<1>5. poll' = [b \in Clients |->
           IF b = c THEN [poll[c] EXCEPT !.at = "shared"]
           ELSE IF Shares(b, j) THEN [poll[b] EXCEPT !.at = "apart"]
           ELSE poll[b]]
  BY DEF Install
<1>6. ASSUME NEW b \in Clients
      PROVE  /\ poll'[b] \in {NoPoll} \cup Polls
             /\ \/ poll'[b] = poll[b]
                \/ /\ poll[b] # NoPoll
                   /\ poll'[b].job = poll[b].job /\ poll'[b].seen = poll[b].seen
  <2>1. CASE b = c
    BY <1>1, <1>5, <2>1 DEF Asked, Polls
  <2>2. CASE b # c /\ Shares(b, j)
    <3>1. poll[b] \in Polls /\ poll[b] # NoPoll
      BY <2>2 DEF Shares, Asked
    <3>2. poll'[b] = [poll[b] EXCEPT !.at = "apart"]
      BY <1>5, <2>2
    <3> QED
      BY <3>1, <3>2 DEF Polls
  <2>3. CASE b # c /\ ~Shares(b, j)
    BY <1>5, <2>3
  <2> QED
    BY <2>1, <2>2, <2>3
<1>7. poll' \in [Clients -> {NoPoll} \cup Polls]
  BY <1>5, <1>6
<1>8. \A b \in Clients, k \in Jobs :
          Asked(b, k)' => Asked(b, k) /\ poll'[b].seen = poll[b].seen
  BY <1>6 DEF Asked
<1> HIDE DEF j, seen
<1>9. /\ mem'[j] \in {seen, Absent} /\ (seen \notin Terminal => mem'[j] = seen)
      /\ \A k \in Jobs \ {j} :
             /\ mem'[k] \in {mem[k], Absent}
             /\ mem[k] \notin Terminal => mem'[k] = mem[k]
  BY <1>1, <1>2, <1>4
<1>10. \A k \in Jobs : file'[k] \in {file[k], Absent}
  BY <1>4
<1>11. mem' \in Statuses /\ file' \in Statuses
  BY <1>4
<1> QED
  BY <1>1, <1>7, <1>8, <1>9, <1>10, <1>11 DEF j, seen

\* What an answer does.
LEMMA TellEffect ==
    ASSUME TypeOK, NEW c \in Clients, AnswerRead(c) \/ AnswerHeld(c)
    PROVE  LET j == poll[c].job
               seen == poll[c].seen
           IN  /\ j \in Jobs /\ seen \in Status \cup {Absent} /\ Asked(c, j)
               /\ UNCHANGED <<mem, file, worker, outcome, restarts>>
               /\ told' \in [Clients -> Statuses] /\ early' \in [Clients -> [Jobs -> BOOLEAN]]
               /\ poll' \in [Clients -> {NoPoll} \cup Polls]
               /\ \A b \in Clients, k \in Jobs :
                      \/ told'[b][k] = told[b][k] /\ early'[b][k] = early[b][k]
                      \/ /\ b = c /\ k = j
                         /\ told'[b][k] \in {seen, mem[k]}
                         /\ seen # Absent => told'[b][k] = seen
                         /\ early'[b][k] = ~Follows(told'[b][k], file[k])
               /\ \A b \in Clients, k \in Jobs :
                      Asked(b, k)' => b # c /\ Asked(b, k) /\ poll'[b] = poll[b]
<1> USE DEF TypeOK
<1> DEFINE j == poll[c].job
           seen == poll[c].seen
<1>1. PICK status \in {seen, mem[j]} : Tell(c, status) /\ (seen # Absent => status = seen)
  BY DEF AnswerRead, AnswerHeld
<1>2. j \in Jobs /\ seen \in Status \cup {Absent} /\ Asked(c, j)
  BY DEF AnswerRead, AnswerHeld, Asked, Polls
<1>3. /\ told' = [told EXCEPT ![c][j] = status]
      /\ early' = [early EXCEPT ![c][j] = ~Follows(status, file[j])]
      /\ poll' = [poll EXCEPT ![c] = NoPoll]
      /\ UNCHANGED <<mem, file, worker, outcome, restarts>>
  BY <1>1 DEF Tell
<1> HIDE DEF j, seen
<1>4. status \in Status \cup {Absent}
  BY <1>2
<1>5. told' \in [Clients -> Statuses]
  BY <1>2, <1>3, <1>4 DEF Statuses
<1>6. Follows(status, file[j]) \in BOOLEAN
  BY DEF Follows
<1>7. early' \in [Clients -> [Jobs -> BOOLEAN]]
  BY <1>2, <1>3, <1>6
<1>8. poll' \in [Clients -> {NoPoll} \cup Polls]
  BY <1>3
<1>9. \A b \in Clients, k \in Jobs :
          \/ told'[b][k] = told[b][k] /\ early'[b][k] = early[b][k]
          \/ /\ b = c /\ k = j
             /\ told'[b][k] \in {seen, mem[k]}
             /\ seen # Absent => told'[b][k] = seen
             /\ early'[b][k] = ~Follows(told'[b][k], file[k])
  <2>1. told'[c][j] = status
    BY <1>2, <1>3
  <2>2. early'[c][j] = ~Follows(status, file[j])
    BY <1>2, <1>3
  <2>3. \A b \in Clients, k \in Jobs :
            ~(b = c /\ k = j) => told'[b][k] = told[b][k] /\ early'[b][k] = early[b][k]
    BY <1>2, <1>3
  <2> QED
    BY <1>1, <2>1, <2>2, <2>3
<1>10. \A b \in Clients, k \in Jobs :
          Asked(b, k)' => b # c /\ Asked(b, k) /\ poll'[b] = poll[b]
  BY <1>3 DEF Asked
<1> QED
  BY ONLY <1>2, <1>3, <1>5, <1>7, <1>8, <1>9, <1>10 DEF j, seen

LEMMA TypeStep == TypeOK /\ [Next]_vars => TypeOK'
<1> SUFFICES ASSUME TypeOK, [Next]_vars PROVE TypeOK'
  OBVIOUS
<1> USE DEF TypeOK, WorkerSteps
<1>1. ASSUME NEW j \in Jobs, StartJob(j) PROVE TypeOK'
  <2>1. [mem EXCEPT ![j] = "queued"] \in Statuses
    BY DEF Statuses, Status
  <2>2. mem' \in Statuses /\ file' \in Statuses
    BY <1>1, <2>1, KeepTrims DEF StartJob
  <2> QED
    BY <1>1, <2>2 DEF StartJob, Statuses
<1>2. ASSUME NEW j \in Jobs, PersistQueued(j) \/ PersistRunning(j) \/ PersistOutcome(j)
      PROVE  TypeOK'
  BY <1>2 DEF PersistQueued, PersistRunning, PersistOutcome, Written, Status
<1>3. ASSUME NEW j \in Jobs, Begin(j) PROVE TypeOK'
  <2>1. Update(j, "running", "persist_running", "run") /\ "running" \in Status
    BY <1>3 DEF Begin, Status
  <2> QED
    BY <1>3, <2>1, UpdateType DEF Begin, Statuses
<1>4. ASSUME NEW j \in Jobs, Run(j) PROVE TypeOK'
  <2>1. PICK status \in Terminal :
          /\ outcome' = [outcome EXCEPT ![j] = status]
          /\ Update(j, status, "persist_outcome", "finished")
    BY <1>4 DEF Run
  <2> QED
    <3>1. status \in Status
      BY DEF Status
    <3>2. /\ mem' \in Statuses
          /\ poll' \in [Clients -> {NoPoll} \cup Polls]
          /\ worker' = [worker EXCEPT ![j] = worker'[j]]
          /\ worker'[j] \in {"persist_outcome", "finished"}
      BY <2>1, <3>1, UpdateType
    <3> QED
      BY <1>4, <2>1, <3>2 DEF Run, Statuses
<1>5. ASSUME NEW c \in Clients, NEW j \in Jobs, Poll(c, j) PROVE TypeOK'
  BY <1>5 DEF Poll, Polls
<1>6. ASSUME NEW c \in Clients, Install(c) PROVE TypeOK'
  <2>1. UNCHANGED <<worker, outcome, told, early, restarts>>
    BY <1>6 DEF Install
  <2>2. /\ mem' \in Statuses /\ file' \in Statuses
        /\ poll' \in [Clients -> {NoPoll} \cup Polls]
    BY <1>6, InstallEffect
  <2> QED
    BY <2>1, <2>2 DEF Statuses
<1>7. ASSUME NEW c \in Clients, AnswerRead(c) \/ AnswerHeld(c) PROVE TypeOK'
  <2>1. /\ UNCHANGED <<mem, file, worker, outcome, restarts>>
        /\ told' \in [Clients -> Statuses] /\ early' \in [Clients -> [Jobs -> BOOLEAN]]
        /\ poll' \in [Clients -> {NoPoll} \cup Polls]
    BY <1>7, TellEffect
  <2> QED
    BY <2>1 DEF Statuses
<1>8. CASE Restart
  <2>1. \A j \in Jobs : file[j] # Absent => Recovered(file[j]) \in Status
    BY DEF Recovered, Status, Terminal
  <2>2. PICK kept \in Loaded(file) :
          mem' = [j \in Jobs |-> IF j \in kept THEN Recovered(file[j]) ELSE Absent]
    BY <1>8 DEF Restart
  <2>3. PICK corrected \in SUBSET Held(file) :
          file' = [j \in Jobs |-> IF j \in corrected THEN Recovered(file[j])
                                                     ELSE file[j]]
    BY <1>8 DEF Restart
  <2>4. \A j \in kept \cup corrected : file[j] # Absent
    BY DEF Loaded, Held
  <2>5. mem' \in Statuses /\ file' \in Statuses
    BY <2>1, <2>2, <2>3, <2>4 DEF Statuses
  <2>6. restarts' \in 0..MaxRestarts
    BY <1>8, MaxRestartsAssumption DEF Restart
  <2> QED
    BY <1>8, <2>5, <2>6 DEF Restart, Statuses
<1>9. CASE UNCHANGED vars
  BY <1>9 DEF vars
<1> QED
  BY <1>1, <1>2, <1>3, <1>4, <1>5, <1>6, <1>7, <1>8, <1>9 DEF Next, Worker, Answer

LEMMA TypeInit == Init => TypeOK
BY MaxRestartsAssumption DEF Init, TypeOK, WorkerSteps

\* Every variable keeps its type.
THEOREM TypeCorrect == Spec => []TypeOK
BY TypeInit, TypeStep, PTL DEF Spec

-----------------------------------------------------------------------------
(* An active job is kept.                                                    *)

\* What a restart makes of the statuses: what was in the files, or an error.
LEMMA RestartRecovers ==
    ASSUME TypeOK, Restart
    PROVE  /\ \A j \in Jobs :
                  /\ mem'[j] \in {Absent, Recovered(file[j])}
                  /\ file[j] = Absent => mem'[j] = Absent
                  /\ file'[j] \in {file[j], Recovered(file[j])}
                  /\ file[j] = Absent => file'[j] = Absent
                  /\ ~DiskFails /\ file[j] # Absent => file'[j] = Recovered(file[j])
                  /\ worker'[j] \notin Before \ {"unborn"}
                  /\ worker'[j] = "unborn" => worker[j] = "unborn"
<1>1. PICK kept \in Loaded(file) :
        mem' = [j \in Jobs |-> IF j \in kept THEN Recovered(file[j]) ELSE Absent]
  BY DEF Restart
<1>2. PICK corrected \in SUBSET Held(file) :
        /\ ~DiskFails => corrected = Held(file)
        /\ file' = [j \in Jobs |-> IF j \in corrected THEN Recovered(file[j])
                                                      ELSE file[j]]
  BY DEF Restart
<1>3. kept \subseteq Held(file)
  BY DEF Loaded
<1>4. \A j \in Jobs : j \in Held(file) <=> file[j] # Absent
  BY DEF Held
<1>5. \A j \in Jobs :
        /\ worker'[j] \notin Before \ {"unborn"}
        /\ worker'[j] = "unborn" => worker[j] = "unborn"
  BY DEF Restart, Before, Unfinished, TypeOK, WorkerSteps
<1> QED
  BY <1>1, <1>2, <1>3, <1>4, <1>5

LEMMA KeptStep ==
    KeptInv /\ [Next]_vars => Undecided' /\ ActiveJobKept' /\ Unborn'
<1> SUFFICES ASSUME KeptInv, [Next]_vars
             PROVE  Undecided' /\ ActiveJobKept' /\ Unborn'
  OBVIOUS
<1> USE DEF KeptInv, TypeOK, Before, Asked
<1>0. "queued" \notin Terminal /\ "running" \notin Terminal /\ Absent \notin Terminal
  BY DEF Terminal, Absent
<1>1. ASSUME NEW j \in Jobs, StartJob(j)
      PROVE  Undecided' /\ ActiveJobKept' /\ Unborn'
  <2> DEFINE dict == [mem EXCEPT ![j] = "queued"]
  <2>1. dict \in Statuses
    BY DEF Statuses, Status
  <2>2. dict[j] = "queued" /\ \A k \in Jobs \ {j} : dict[k] = mem[k]
    OBVIOUS
  <2> HIDE DEF dict
  <2>3. \A k \in Jobs : /\ mem'[k] \in {dict[k], Absent}
                        /\ dict[k] \notin Terminal => mem'[k] = dict[k]
                        /\ file'[k] \in {file[k], Absent}
    BY <1>1, <2>1, KeepTrims DEF StartJob, dict
  <2>4. /\ worker' = [worker EXCEPT ![j] = "persist_queued"]
        /\ worker[j] = "unborn"
        /\ UNCHANGED <<poll, told>>
    BY <1>1 DEF StartJob
  <2>5. Undecided'
    BY <1>0, <2>2, <2>3, <2>4 DEF Undecided
  <2>6. ActiveJobKept'
    BY <1>0, <2>2, <2>3, <2>4 DEF ActiveJobKept, Undecided, Absent
  <2>7. Unborn'
    BY <2>3, <2>4 DEF Unborn
  <2> QED
    BY <2>5, <2>6, <2>7
<1>2. ASSUME NEW j \in Jobs, PersistQueued(j) \/ PersistRunning(j)
      PROVE  Undecided' /\ ActiveJobKept' /\ Unborn'
  <2>1. /\ worker[j] \in {"persist_queued", "persist_running"}
        /\ worker' = [worker EXCEPT ![j] = worker'[j]]
        /\ worker'[j] \in {"begin", "lost", "run"}
        /\ UNCHANGED <<mem, poll, told>>
        /\ \/ file' = file
           \/ file' = [file EXCEPT ![j] = "queued"]
           \/ file' = [file EXCEPT ![j] = "running"]
    BY <1>2 DEF PersistQueued, PersistRunning, Written
  <2>2. Undecided'
    BY <1>0, <2>1 DEF Undecided
  <2>3. ActiveJobKept' /\ Unborn'
    BY <2>1 DEF ActiveJobKept, Unborn
  <2> QED
    BY <2>2, <2>3
<1>3. ASSUME NEW j \in Jobs, Begin(j)
      PROVE  Undecided' /\ ActiveJobKept' /\ Unborn'
  <2>1. /\ worker[j] = "begin" /\ mem[j] # Absent
        /\ UNCHANGED <<file, told>>
        /\ Update(j, "running", "persist_running", "run") /\ "running" \in Status
    BY <1>3 DEF Begin, ActiveJobKept, Status
  <2>2. /\ mem' = [mem EXCEPT ![j] = "running"]
        /\ worker' = [worker EXCEPT ![j] = "persist_running"]
        /\ \A c \in Clients, k \in Jobs : Asked(c, k)' =>
               /\ Asked(c, k)
               /\ \/ poll'[c].seen = poll[c].seen
                  \/ k = j /\ poll'[c].seen = "running"
    BY <2>1, UpdateType
  <2>3. Undecided'
    BY <1>0, <2>1, <2>2 DEF Undecided
  <2> QED
    BY <2>1, <2>2, <2>3 DEF ActiveJobKept, Unborn, Absent
<1>4. ASSUME NEW j \in Jobs, Run(j) \/ PersistOutcome(j)
      PROVE  Undecided' /\ ActiveJobKept' /\ Unborn'
  <2>1. /\ worker[j] \in {"run", "persist_outcome"}
        /\ worker' = [worker EXCEPT ![j] = worker'[j]]
        /\ worker'[j] \in {"persist_outcome", "finished"}
        /\ told' = told
        /\ \A k \in Jobs \ {j} : mem'[k] = mem[k] /\ file'[k] = file[k]
        /\ \A c \in Clients, k \in Jobs \ {j} :
               Asked(c, k)' => Asked(c, k) /\ poll'[c].seen = poll[c].seen
    <3>1. CASE Run(j)
      <4>1. PICK status \in Terminal : Update(j, status, "persist_outcome", "finished")
        BY <3>1 DEF Run
      <4>2. status \in Status
        BY DEF Status
      <4>3. worker[j] = "run" /\ file' = file /\ told' = told
        BY <3>1 DEF Run
      <4> QED
        BY <4>1, <4>2, <4>3, UpdateType
    <3>2. CASE PersistOutcome(j)
      BY <3>2 DEF PersistOutcome, Written
    <3> QED
      BY <1>4, <3>1, <3>2
  <2>2. \A k \in Jobs : worker'[k] \in Before => k # j /\ worker'[k] = worker[k]
    BY <2>1
  <2>3. ASSUME NEW k \in Jobs, worker'[k] \in Before
        PROVE  /\ mem'[k] \notin Terminal /\ file'[k] \notin Terminal
               /\ \A c \in Clients :
                      /\ told'[c][k] \notin Terminal
                      /\ Asked(c, k)' => poll'[c].seen \notin Terminal
    <3>1. k \in Jobs \ {j} /\ worker[k] \in Before
      BY <2>2, <2>3
    <3>2. /\ mem[k] \notin Terminal /\ file[k] \notin Terminal
          /\ \A c \in Clients :
                 /\ told[c][k] \notin Terminal
                 /\ Asked(c, k) => poll[c].seen \notin Terminal
      BY <3>1 DEF Undecided
    <3>3. \A c \in Clients : Asked(c, k)' => Asked(c, k) /\ poll'[c].seen = poll[c].seen
      BY <2>1, <3>1
    <3> QED
      BY <2>1, <3>1, <3>2, <3>3
  <2>4. ActiveJobKept' /\ Undecided'
    BY <2>1, <2>2, <2>3 DEF ActiveJobKept, Undecided
  <2>5. Unborn'
    BY <2>1, <2>2 DEF Unborn
  <2> QED
    BY <2>3, <2>4, <2>5
<1>5. ASSUME NEW c \in Clients, NEW j \in Jobs, Poll(c, j)
      PROVE  Undecided' /\ ActiveJobKept' /\ Unborn'
  <2>1. /\ worker[j] \notin {"unborn", "persist_queued", "lost"}
        /\ poll' = [poll EXCEPT ![c] = [job |-> j, seen |-> file[j], at |-> "read"]]
        /\ UNCHANGED <<mem, file, worker, told>>
    BY <1>5 DEF Poll
  <2>2. /\ poll'[c].job = j /\ poll'[c].seen = file[j]
        /\ \A b \in Clients \ {c} : poll'[b] = poll[b]
    BY <2>1
  <2>3. Undecided'
    BY <2>1, <2>2 DEF Undecided
  <2> QED
    BY <2>1, <2>2, <2>3 DEF ActiveJobKept, Unborn
<1>6. ASSUME NEW c \in Clients, Install(c)
      PROVE  Undecided' /\ ActiveJobKept' /\ Unborn'
  <2> DEFINE j == poll[c].job
             seen == poll[c].seen
  <2>1. worker' = worker /\ told' = told
    BY <1>6 DEF Install
  <2>2. /\ j \in Jobs /\ seen \in Status /\ Asked(c, j)
        /\ mem'[j] \in {seen, Absent} /\ (seen \notin Terminal => mem'[j] = seen)
        /\ \A k \in Jobs \ {j} :
               /\ mem'[k] \in {mem[k], Absent}
               /\ mem[k] \notin Terminal => mem'[k] = mem[k]
        /\ \A k \in Jobs : file'[k] \in {file[k], Absent}
        /\ \A b \in Clients, k \in Jobs :
               Asked(b, k)' => Asked(b, k) /\ poll'[b].seen = poll[b].seen
    BY <1>6, InstallEffect
  <2>3. worker[j] \in Before => seen \notin Terminal
    BY <2>2 DEF Undecided
  <2>4. worker[j] # "unborn" /\ seen # Absent
    BY <1>6, <2>2 DEF Unborn, Install
  <2> HIDE DEF j, seen
  <2>5. Undecided'
    <3> SUFFICES ASSUME NEW k \in Jobs, worker'[k] \in Before
                 PROVE  /\ mem'[k] \notin Terminal /\ file'[k] \notin Terminal
                        /\ \A b \in Clients :
                               /\ told'[b][k] \notin Terminal
                               /\ Asked(b, k)' => poll'[b].seen \notin Terminal
      BY DEF Undecided
    <3>1. /\ worker[k] \in Before
          /\ mem[k] \notin Terminal
          /\ file[k] \notin Terminal
          /\ \A b \in Clients :
                 /\ told[b][k] \notin Terminal
                 /\ Asked(b, k) => poll[b].seen \notin Terminal
      BY <2>1 DEF Undecided
    <3>2. mem'[k] \notin Terminal
      BY <1>0, <2>2, <2>3, <3>1
    <3>3. file'[k] \notin Terminal
      BY <1>0, <2>2, <3>1
    <3>4. \A b \in Clients : Asked(b, k)' => poll'[b].seen \notin Terminal
      BY <2>2, <3>1
    <3> QED
      BY <2>1, <3>1, <3>2, <3>3, <3>4
  <2>6. ActiveJobKept'
    <3> SUFFICES ASSUME NEW k \in Jobs,
                        worker[k] \in {"persist_queued", "begin", "persist_running", "run"}
                 PROVE  mem'[k] # Absent
      BY <2>1 DEF ActiveJobKept
    <3>1. mem[k] # Absent /\ mem[k] \notin Terminal
      BY DEF ActiveJobKept, Undecided
    <3> QED
      BY <2>2, <2>3, <2>4, <3>1
  <2>7. Unborn'
    BY <2>1, <2>2, <2>4 DEF Unborn
  <2> QED
    BY <2>5, <2>6, <2>7
<1>7. ASSUME NEW c \in Clients, AnswerRead(c) \/ AnswerHeld(c)
      PROVE  Undecided' /\ ActiveJobKept' /\ Unborn'
  <2> DEFINE j == poll[c].job
             seen == poll[c].seen
  <2>1. /\ j \in Jobs /\ Asked(c, j)
        /\ UNCHANGED <<mem, file, worker>>
        /\ \A b \in Clients, k \in Jobs :
               \/ told'[b][k] = told[b][k]
               \/ b = c /\ k = j /\ told'[b][k] \in {seen, mem[k]}
        /\ \A b \in Clients, k \in Jobs : Asked(b, k)' => Asked(b, k) /\ poll'[b] = poll[b]
    BY <1>7, TellEffect
  <2>2. worker[j] # "unborn" /\ (worker[j] \in Before => seen \notin Terminal)
    BY <2>1 DEF Unborn, Undecided
  <2> HIDE DEF j, seen
  <2>3. Undecided'
    BY <2>1, <2>2 DEF Undecided
  <2>4. ActiveJobKept' /\ Unborn'
    BY <2>1, <2>2 DEF ActiveJobKept, Unborn
  <2> QED
    BY <2>3, <2>4
<1>8. CASE Restart
  <2>1. \A j \in Jobs :
          /\ worker'[j] \notin Before \ {"unborn"}
          /\ worker'[j] = "unborn" => worker[j] = "unborn"
          /\ file[j] = Absent => mem'[j] = Absent /\ file'[j] = Absent
    BY <1>8, RestartRecovers
  <2>2. told' = told /\ \A c \in Clients, j \in Jobs : ~Asked(c, j)'
    BY <1>8 DEF Restart
  <2>3. Unborn'
    BY <2>1, <2>2 DEF Unborn
  <2>4. Undecided'
    BY <1>0, <2>1, <2>2 DEF Undecided, Unborn
  <2> QED
    BY <2>1, <2>3, <2>4 DEF ActiveJobKept
<1>9. CASE UNCHANGED vars
  BY <1>9 DEF vars, Undecided, ActiveJobKept, Unborn
<1> QED
  BY <1>1, <1>2, <1>3, <1>4, <1>5, <1>6, <1>7, <1>8, <1>9 DEF Next, Worker, Answer

LEMMA KeptInit == Init => KeptInv
<1> SUFFICES ASSUME Init PROVE KeptInv
  OBVIOUS
<1>1. Undecided /\ ActiveJobKept /\ Unborn
  BY DEF Init, Undecided, ActiveJobKept, Unborn, Asked, Absent, Terminal
<1> QED
  BY <1>1, TypeInit DEF KeptInv

\* The worker of a run always finds its job in the dictionary, for any number of runs,
\* clients and restarts, however small max_jobs is and whatever the disk does.
THEOREM ActiveJobsKept == Spec => []ActiveJobKept
<1>1. KeptInv /\ [Next]_vars => KeptInv'
  BY TypeStep, KeptStep DEF KeptInv
<1>2. KeptInv => ActiveJobKept
  BY DEF KeptInv
<1> QED
  BY <1>1, <1>2, KeptInit, PTL DEF Spec

-----------------------------------------------------------------------------
(* Clients are told the truth.                                               *)

\* The steps of a run: what is told of it stays warranted, and so does what is new.
LEMMA TrueWorker ==
    ASSUME TrueInv, KeptInv', NEW j \in Jobs, Worker(j)
    PROVE  AllWarranted' /\ IdKnown' /\ Recorded'
<1> USE DEF TrueInv, KeptInv, TypeOK, Asked
<1>0. UNCHANGED <<told, restarts>>
  BY DEF Worker, PersistQueued, Begin, PersistRunning, Run, PersistOutcome
<1>1. CASE PersistQueued(j) \/ PersistRunning(j)
  <2>1. /\ poll' = poll
        /\ worker[j] \in {"persist_queued", "persist_running"}
        /\ worker' = [worker EXCEPT ![j] = worker'[j]]
        /\ worker'[j] \in {"begin", "lost", "run"}
        /\ worker'[j] = "lost" => worker[j] = "persist_queued"
        /\ UNCHANGED <<mem, outcome>>
        /\ \A k \in Jobs \ {j} : file'[k] = file[k]
        /\ file'[j] \in {file[j], "queued", "running"}
    BY <1>1 DEF PersistQueued, PersistRunning, Written
  <2>2. IdKnown'
    BY <1>0, <2>1 DEF IdKnown
  <2>3. Recorded'
    BY <2>1 DEF Recorded
  <2>4. AllWarranted'
    BY <1>0, <2>1, <2>2 DEF AllWarranted, Warranted, ReportsTrue, IdKnown
  <2> QED
    BY <2>2, <2>3, <2>4
<1>2. CASE Begin(j)
  <2>1. /\ worker[j] = "begin"
        /\ worker' = [worker EXCEPT ![j] = "persist_running"]
        /\ mem' = [mem EXCEPT ![j] = "running"]
        /\ UNCHANGED <<file, outcome>>
        /\ \A c \in Clients, k \in Jobs : Asked(c, k)' =>
               /\ Asked(c, k)
               /\ \/ poll'[c].seen = poll[c].seen
                  \/ k = j /\ poll'[c].seen = "running"
    <3>1. /\ worker[j] = "begin" /\ mem[j] # Absent
          /\ UNCHANGED <<file, outcome>>
          /\ Update(j, "running", "persist_running", "run") /\ "running" \in Status
      BY <1>2 DEF Begin, ActiveJobKept, Status
    <3> QED
      BY <3>1, UpdateType
  <2>2. IdKnown' /\ Recorded'
    BY <1>0, <2>1 DEF IdKnown, Recorded
  <2>3. \A k \in Jobs :
          worker'[k] # "lost" => Warranted(k, mem[k])' /\ Warranted(k, file[k])'
    BY <1>0, <2>1 DEF AllWarranted, Warranted
  <2>4. \A c \in Clients, k \in Jobs :
          Asked(c, k)' => Warranted(k, poll[c].seen)' /\ worker'[k] # "lost"
    <3> SUFFICES ASSUME NEW c \in Clients, NEW k \in Jobs, Asked(c, k)'
                 PROVE  Warranted(k, poll[c].seen)' /\ worker'[k] # "lost"
      OBVIOUS
    <3>1. /\ Asked(c, k)
          /\ \/ poll'[c].seen = poll[c].seen
             \/ poll'[c].seen = "running"
      BY <2>1
    <3>2. Warranted(k, poll[c].seen) /\ worker[k] # "lost"
      BY <3>1 DEF AllWarranted
    <3>3. Warranted(k, poll[c].seen)'
      BY <1>0, <2>1, <3>1, <3>2 DEF Warranted
    <3> QED
      BY <2>1, <3>2, <3>3
  <2>5. ReportsTrue'
    BY <1>0, <2>1 DEF AllWarranted, ReportsTrue
  <2> QED
    BY <2>2, <2>3, <2>4, <2>5 DEF AllWarranted
<1>3. CASE Run(j)
  <2>1. PICK status \in Terminal :
            /\ outcome' = [outcome EXCEPT ![j] = status]
            /\ mem' = [mem EXCEPT ![j] = status]
            /\ worker' = [worker EXCEPT ![j] = "persist_outcome"]
            /\ \A c \in Clients, k \in Jobs : Asked(c, k)' =>
                   /\ Asked(c, k)
                   /\ \/ poll'[c].seen = poll[c].seen
                      \/ k = j /\ poll'[c].seen = status
    <3>1. PICK status \in Terminal :
              /\ outcome' = [outcome EXCEPT ![j] = status]
              /\ Update(j, status, "persist_outcome", "finished")
      BY <1>3 DEF Run
    <3>2. status \in Status /\ mem[j] # Absent
      BY <1>3 DEF Run, ActiveJobKept, Status
    <3>3. /\ mem' = [mem EXCEPT ![j] = status]
          /\ worker' = [worker EXCEPT ![j] = "persist_outcome"]
          /\ \A c \in Clients, k \in Jobs : Asked(c, k)' =>
                 /\ Asked(c, k)
                 /\ \/ poll'[c].seen = poll[c].seen
                    \/ k = j /\ poll'[c].seen = status
      BY <3>1, <3>2, UpdateType
    <3> QED
      BY <3>1, <3>3
  <2>2. worker[j] = "run" /\ file' = file
    BY <1>3 DEF Run
  <2>3. /\ file[j] \notin Terminal
        /\ \A c \in Clients :
               /\ told[c][j] \notin Terminal
               /\ Asked(c, j) => poll[c].seen \notin Terminal
    BY <2>2 DEF Undecided, Before
  <2>4. IdKnown' /\ Recorded'
    BY <1>0, <2>1, <2>2 DEF IdKnown, Recorded
  <2>5. \A k \in Jobs :
          worker'[k] # "lost" => Warranted(k, mem[k])' /\ Warranted(k, file[k])'
    BY <1>0, <2>1, <2>2, <2>3 DEF AllWarranted, Warranted, Terminal
  <2>6. \A c \in Clients, k \in Jobs :
          Asked(c, k)' => Warranted(k, poll[c].seen)' /\ worker'[k] # "lost"
    <3> SUFFICES ASSUME NEW c \in Clients, NEW k \in Jobs, Asked(c, k)'
                 PROVE  Warranted(k, poll[c].seen)' /\ worker'[k] # "lost"
      OBVIOUS
    <3>1. /\ Asked(c, k)
          /\ \/ poll'[c].seen = poll[c].seen
             \/ k = j /\ poll'[c].seen = status
      BY <2>1
    <3>2. Warranted(k, poll[c].seen) /\ worker[k] # "lost"
      BY <3>1 DEF AllWarranted
    <3>3. CASE k = j
      <4>1. poll[c].seen \notin Terminal /\ outcome'[k] = status
        BY <2>1, <2>3, <3>1, <3>3
      <4>2. Warranted(k, poll[c].seen)'
        BY <3>1, <4>1 DEF Warranted, Terminal
      <4> QED
        BY <2>1, <3>3, <4>2
    <3>4. CASE k # j
      BY <1>0, <2>1, <3>1, <3>2, <3>4 DEF Warranted
    <3> QED
      BY <3>3, <3>4
  <2>7. ReportsTrue'
    <3> SUFFICES ASSUME NEW c \in Clients, NEW k \in Jobs
                 PROVE  Warranted(k, told[c][k])'
      BY DEF ReportsTrue, Warranted
    <3>1. Warranted(k, told[c][k]) /\ told'[c][k] = told[c][k]
      BY <1>0 DEF AllWarranted, ReportsTrue, Warranted
    <3>2. CASE k = j
      <4>1. told[c][k] \notin Terminal
        BY <2>3, <3>2
      <4> QED
        BY <3>1, <4>1 DEF Warranted, Terminal
    <3>3. CASE k # j
      BY <1>0, <2>1, <3>1, <3>3 DEF Warranted
    <3> QED
      BY <3>2, <3>3
  <2> QED
    BY <2>4, <2>5, <2>6, <2>7 DEF AllWarranted
<1>4. CASE PersistOutcome(j)
  <2>1. /\ poll' = poll
        /\ worker[j] = "persist_outcome"
        /\ worker' = [worker EXCEPT ![j] = "finished"]
        /\ UNCHANGED <<mem, outcome>>
        /\ \A k \in Jobs \ {j} : file'[k] = file[k]
        /\ file'[j] \in {file[j], outcome[j]}
        /\ ~DiskFails => file'[j] = outcome[j]
    BY <1>4 DEF PersistOutcome, Written
  <2>2. IdKnown' /\ Recorded'
    BY <1>0, <2>1 DEF IdKnown, Recorded
  <2>3. AllWarranted'
    BY <1>0, <2>1 DEF AllWarranted, Warranted, ReportsTrue
  <2> QED
    BY <2>2, <2>3
<1> QED
  BY <1>1, <1>2, <1>3, <1>4 DEF Worker

\* What was read from the file goes back into the dictionary.
LEMMA TrueInstall ==
    ASSUME TrueInv, NEW c \in Clients, Install(c)
    PROVE  AllWarranted' /\ IdKnown' /\ Recorded'
<1> USE DEF TrueInv, KeptInv
<1> DEFINE j == poll[c].job
           seen == poll[c].seen
<1>1. UNCHANGED <<worker, outcome, told, restarts>>
  BY DEF Install
<1>2. /\ j \in Jobs /\ seen \in Status /\ Asked(c, j)
      /\ mem'[j] \in {seen, Absent}
      /\ \A k \in Jobs \ {j} : mem'[k] \in {mem[k], Absent}
      /\ \A k \in Jobs : file'[k] \in {file[k], Absent}
      /\ \A b \in Clients, k \in Jobs :
             Asked(b, k)' => Asked(b, k) /\ poll'[b].seen = poll[b].seen
  BY InstallEffect
<1>3. worker[j] # "lost" /\ Warranted(j, seen)
  BY <1>2 DEF AllWarranted
<1> HIDE DEF j, seen
<1>4. IdKnown' /\ Recorded'
  BY <1>1, <1>2 DEF IdKnown, Recorded
<1>5. \A k \in Jobs :
        worker'[k] # "lost" => Warranted(k, mem[k])' /\ Warranted(k, file[k])'
  <2>1. \A k \in Jobs : k = j => Warranted(k, mem[k])'
    BY <1>1, <1>2, <1>3 DEF Warranted, Absent
  <2>2. \A k \in Jobs : k # j /\ worker[k] # "lost" => Warranted(k, mem[k])'
    BY <1>1, <1>2 DEF AllWarranted, Warranted, Absent
  <2>3. \A k \in Jobs : worker[k] # "lost" => Warranted(k, file[k])'
    BY <1>1, <1>2 DEF AllWarranted, Warranted, Absent
  <2> QED
    BY <1>1, <2>1, <2>2, <2>3
<1>6. \A b \in Clients, k \in Jobs :
        Asked(b, k)' => Warranted(k, poll[b].seen)' /\ worker'[k] # "lost"
  BY <1>1, <1>2 DEF AllWarranted, Warranted
<1>7. ReportsTrue'
  BY <1>1 DEF AllWarranted, ReportsTrue
<1> QED
  BY <1>4, <1>5, <1>6, <1>7 DEF AllWarranted

\* What was read, as it is by now, or what the dictionary says, is told.
LEMMA TrueAnswer ==
    ASSUME TrueInv, NEW c \in Clients, AnswerRead(c) \/ AnswerHeld(c)
    PROVE  AllWarranted' /\ IdKnown' /\ Recorded'
<1> USE DEF TrueInv, KeptInv
<1> DEFINE j == poll[c].job
           seen == poll[c].seen
<1>1. /\ j \in Jobs /\ Asked(c, j)
      /\ UNCHANGED <<mem, file, worker, outcome, restarts>>
      /\ \A b \in Clients, k \in Jobs :
             \/ told'[b][k] = told[b][k]
             \/ b = c /\ k = j /\ told'[b][k] \in {seen, mem[k]}
      /\ \A b \in Clients, k \in Jobs : Asked(b, k)' => Asked(b, k) /\ poll'[b] = poll[b]
  BY TellEffect
<1>2. worker[j] # "lost" /\ Warranted(j, seen) /\ Warranted(j, mem[j])
  BY <1>1 DEF AllWarranted
<1> HIDE DEF j, seen
<1>3. IdKnown' /\ Recorded'
  BY <1>1 DEF IdKnown, Recorded
<1>4. /\ \A k \in Jobs :
            worker'[k] # "lost" => Warranted(k, mem[k])' /\ Warranted(k, file[k])'
      /\ \A b \in Clients, k \in Jobs :
            Asked(b, k)' => Warranted(k, poll[b].seen)' /\ worker'[k] # "lost"
  BY <1>1 DEF AllWarranted, Warranted
<1>5. ReportsTrue'
  <2>1. \A b \in Clients, k \in Jobs : Warranted(k, told'[b][k])
    BY <1>1, <1>2 DEF AllWarranted, ReportsTrue, Warranted
  <2> QED
    BY <1>1, <2>1 DEF Warranted, ReportsTrue
<1> QED
  BY <1>3, <1>4, <1>5 DEF AllWarranted

\* A restart turns into an error only what was killed or did not reach the disk.
LEMMA TrueRestart ==
    ASSUME TrueInv, Restart
    PROVE  AllWarranted' /\ IdKnown' /\ Recorded'
<1> USE DEF TrueInv, KeptInv, TypeOK
<1>1. \A j \in Jobs :
        /\ mem'[j] \in {Absent, Recovered(file[j])}
        /\ file[j] = Absent => mem'[j] = Absent
        /\ file'[j] \in {file[j], Recovered(file[j])}
        /\ file[j] = Absent => file'[j] = Absent
        /\ ~DiskFails /\ file[j] # Absent => file'[j] = Recovered(file[j])
  BY RestartRecovers
<1>2. /\ UNCHANGED <<outcome, told>>
      /\ restarts' = restarts + 1
      /\ \A c \in Clients, j \in Jobs : ~Asked(c, j)'
  BY DEF Restart, Asked
<1>3. \A j \in Jobs :
        /\ worker[j] = "killed" => worker'[j] = "killed"
        /\ worker'[j] # "lost" => worker[j] \notin {"lost", "persist_queued"}
        /\ worker'[j] # "persist_outcome"
        /\ worker'[j] = "finished" => worker[j] = "finished"
        /\ worker'[j] \notin {"lost", "killed"} => worker[j] \in {"unborn", "finished"}
  BY DEF Restart, Unfinished, WorkerSteps
<1>4. \A j \in Jobs :
        file[j] # Absent => \/ Recovered(file[j]) = file[j] /\ file[j] \in Terminal
                            \/ Recovered(file[j]) = "error" /\ file[j] \notin Terminal
  BY DEF Recovered, Terminal, Status
<1>5. IdKnown'
  BY <1>2 DEF IdKnown
<1>6. Recorded'
  BY <1>1, <1>3, <1>4 DEF Recorded, Terminal
<1>7. ASSUME NEW j \in Jobs, worker'[j] # "lost"
      PROVE  Warranted(j, mem[j])' /\ Warranted(j, file[j])'
  <2>1. Warranted(j, file[j]) /\ Warranted(j, file[j])'
    <3>1. Warranted(j, file[j])
      BY <1>3, <1>7 DEF AllWarranted
    <3>2. CASE file'[j] = file[j]
      BY <1>2, <1>3, <3>1, <3>2 DEF Warranted
    <3>3. CASE file'[j] # file[j]
      <4>1. file[j] # Absent /\ file[j] \notin Terminal /\ file'[j] = "error"
        BY <1>1, <1>4, <3>3
      <4>2. worker'[j] = "killed" \/ DiskFails
        BY <1>3, <1>7, <4>1 DEF Recorded, Unborn
      <4> QED
        BY <1>2, <3>1, <4>1, <4>2 DEF Warranted
    <3> QED
      BY <3>1, <3>2, <3>3
  <2>2. Warranted(j, mem[j])'
    <3>1. CASE mem'[j] = Absent
      BY <3>1 DEF Warranted, Absent
    <3>2. CASE mem'[j] # Absent /\ file[j] \in Terminal
      <4>1. mem'[j] = file[j]
        BY <1>1, <1>4, <3>2
      <4> QED
        BY <1>2, <1>3, <2>1, <4>1 DEF Warranted
    <3>3. CASE mem'[j] # Absent /\ file[j] \notin Terminal
      <4>1. file[j] # Absent /\ mem'[j] = "error"
        BY <1>1, <1>4, <3>3
      <4>2. worker'[j] = "killed" \/ DiskFails
        BY <1>3, <1>7, <3>3, <4>1 DEF Recorded, Unborn
      <4> QED
        BY <1>2, <4>1, <4>2 DEF Warranted
    <3> QED
      BY <3>1, <3>2, <3>3
  <2> QED
    BY <2>1, <2>2
<1>8. ReportsTrue'
  BY <1>2, <1>3 DEF AllWarranted, ReportsTrue
<1> QED
  BY <1>2, <1>5, <1>6, <1>7, <1>8 DEF AllWarranted

LEMMA TrueStep == TrueInv /\ [Next]_vars => TrueInv'
<1> SUFFICES ASSUME TrueInv, [Next]_vars PROVE TrueInv'
  OBVIOUS
<1>0. KeptInv'
  BY TypeStep, KeptStep DEF TrueInv, KeptInv
<1>1. ASSUME NEW j \in Jobs, StartJob(j)
      PROVE  AllWarranted' /\ IdKnown' /\ Recorded'
  <2> USE DEF TrueInv, KeptInv, TypeOK
  <2> DEFINE dict == [mem EXCEPT ![j] = "queued"]
  <2>1. dict \in Statuses
    BY DEF Statuses, Status
  <2>2. dict[j] = "queued" /\ \A k \in Jobs \ {j} : dict[k] = mem[k]
    OBVIOUS
  <2> HIDE DEF dict
  <2>3. \A k \in Jobs : mem'[k] \in {dict[k], Absent} /\ file'[k] \in {file[k], Absent}
    BY <1>1, <2>1, KeepTrims DEF StartJob, dict
  <2>4. /\ worker' = [worker EXCEPT ![j] = "persist_queued"]
        /\ worker[j] = "unborn"
        /\ UNCHANGED <<poll, told, outcome, restarts>>
    BY <1>1 DEF StartJob
  <2>5. IdKnown' /\ Recorded'
    BY <2>3, <2>4 DEF IdKnown, Recorded, Asked
  <2>6. \A k \in Jobs :
          worker'[k] # "lost" => Warranted(k, mem[k])' /\ Warranted(k, file[k])'
    BY <2>2, <2>3, <2>4 DEF AllWarranted, Warranted, Absent
  <2>7. /\ \A c \in Clients, k \in Jobs :
              Asked(c, k)' => Warranted(k, poll[c].seen)' /\ worker'[k] # "lost"
        /\ ReportsTrue'
    BY <2>4 DEF AllWarranted, Warranted, ReportsTrue, Asked
  <2> QED
    BY <2>5, <2>6, <2>7 DEF AllWarranted
<1>2. ASSUME NEW c \in Clients, NEW j \in Jobs, Poll(c, j)
      PROVE  AllWarranted' /\ IdKnown' /\ Recorded'
  <2> USE DEF TrueInv, KeptInv, TypeOK, Asked
  <2>1. /\ worker[j] \notin {"unborn", "persist_queued", "lost"}
        /\ poll' = [poll EXCEPT ![c] = [job |-> j, seen |-> file[j], at |-> "read"]]
        /\ UNCHANGED <<mem, file, worker, outcome, told, restarts>>
    BY <1>2 DEF Poll
  <2>2. /\ poll'[c].job = j /\ poll'[c].seen = file[j]
        /\ \A b \in Clients \ {c} : poll'[b] = poll[b]
    BY <2>1
  <2>3. IdKnown' /\ Recorded'
    BY <2>1, <2>2 DEF IdKnown, Recorded
  <2>4. AllWarranted'
    BY <2>1, <2>2 DEF AllWarranted, Warranted, ReportsTrue
  <2> QED
    BY <2>3, <2>4
<1>3. CASE UNCHANGED vars
  BY <1>0, <1>3 DEF vars, TrueInv, AllWarranted, Warranted, ReportsTrue, Asked, IdKnown,
                    Recorded
<1> QED
  BY <1>0, <1>1, <1>2, <1>3, TrueWorker, TrueInstall, TrueAnswer, TrueRestart
  DEF Next, Answer, TrueInv

\* A client is told that a run completed only when it did, and that it failed only when
\* it did, was killed, or did not reach the disk before a restart.
THEOREM ReportsAreTrue == Spec => []ReportsTrue
<1>1. Init => TrueInv
  <2>1. Init => AllWarranted /\ IdKnown /\ Recorded
    BY DEF Init, AllWarranted, Warranted, ReportsTrue, IdKnown, Recorded, Asked, Absent
  <2> QED
    BY <2>1, KeptInit DEF TrueInv
<1>2. TrueInv => ReportsTrue
  BY DEF TrueInv, AllWarranted
<1> QED
  BY <1>1, <1>2, TrueStep, PTL DEF Spec

-----------------------------------------------------------------------------
(* What was told is not taken back, when no job need go and the disk takes   *)
(* every write: then every answer is of a job that was read from a file,     *)
(* and files only advance.  What the thread does to that job before it is    *)
(* copied may be told early; of the outcome only when the run has one.       *)

Unknown == {"unborn", "persist_queued", "lost"}

Ran == {"running"} \cup Terminal

\* A job whose id was given has a file, which says that it ran when it did; of the
\* others nothing was told.
Filed ==
    \A j \in Jobs :
        /\ worker[j] \notin Unknown => file[j] # Absent
        /\ worker[j] \in {"run", "persist_outcome", "finished", "killed"} => file[j] \in Ran
        /\ worker[j] \in Unknown => \A c \in Clients : told[c][j] = Absent

\* What was told follows into the file and into what a poll has read, unless it was
\* early.  No outcome is told but that of the file or of the run.
FileAhead ==
    \A c \in Clients, j \in Jobs :
        /\ ~early[c][j] => Follows(told[c][j], file[j])
        /\ early[c][j] /\ told[c][j] \in Terminal => told[c][j] = outcome[j]
        /\ told[c][j] \in Terminal => file[j] \in Ran

ReadAhead ==
    \A c \in Clients, j \in Jobs : Asked(c, j) =>
        /\ poll[c].seen # Absent
        /\ ~early[c][j] => Follows(told[c][j], poll[c].seen)
        /\ told[c][j] \in Terminal => poll[c].seen \in Ran
        /\ poll[c].seen \in Terminal => poll[c].seen \in {file[j], outcome[j]}

\* An outcome that is yet to be written is not in the file.
Outstanding == \A j \in Jobs : worker[j] = "persist_outcome" => file[j] \notin Terminal

AdvanceInv == TrueInv /\ Filed /\ FileAhead /\ ReadAhead /\ Outstanding

\* With room for every job nothing is evicted.
LEMMA RoomKeeps ==
    ASSUME ~DiskFails, IsFiniteSet(Jobs), Cardinality(Jobs) <= MaxJobs,
           NEW dict \in Statuses, TypeOK, Keep(dict)
    PROVE  file' = file
<1>1. PICK gone \in Trims(dict, Evictable(dict)) : file' = Without(file, gone)
  BY DEF Keep
<1>2. gone = {}
  <2>1. Held(dict) \in SUBSET Jobs
    BY DEF Held
  <2>2. Cardinality(Held(dict)) <= Cardinality(Jobs)
    BY <2>1, FS_Subset
  <2>3. IsFiniteSet(Held(dict))
    BY <2>1, FS_Subset
  <2>4. Cardinality(Held(dict)) \in Nat /\ Cardinality(Jobs) \in Nat
    BY <2>3, FS_CardinalityType
  <2>5. Cardinality(Held(dict)) - MaxJobs <= 0
    BY <2>2, <2>4, MaxJobsAssumption
  <2> QED
    BY <2>5 DEF Trims
<1> QED
  BY <1>1, <1>2 DEF Without, TypeOK

\* The thread of a job moves its file on, and what was read from it.
LEMMA AdvanceWorker ==
    ASSUME ~DiskFails, AdvanceInv, NEW j \in Jobs, Worker(j)
    PROVE  Filed' /\ FileAhead' /\ ReadAhead' /\ Outstanding'
<1> USE DEF AdvanceInv, TrueInv, KeptInv, TypeOK
<1>0. UNCHANGED <<told, early>>
  BY DEF Worker, PersistQueued, Begin, PersistRunning, Run, PersistOutcome
<1>1. worker' = [worker EXCEPT ![j] = worker'[j]]
  BY DEF Worker, PersistQueued, Begin, PersistRunning, Run, PersistOutcome, Update
<1>2. \A k \in Jobs \ {j} :
          worker'[k] = worker[k] /\ file'[k] = file[k] /\ outcome'[k] = outcome[k]
  BY <1>1
  DEF Worker, PersistQueued, Begin, PersistRunning, Run, PersistOutcome, Update, Written
<1>3. CASE PersistQueued(j)
  <2>1. /\ worker[j] = "persist_queued" /\ worker'[j] \in {"begin", "lost"}
        /\ file'[j] = "queued" /\ UNCHANGED <<poll, outcome>>
    BY <1>3 DEF PersistQueued, Written
  <2>2. \A c \in Clients : told[c][j] = Absent /\ ~Asked(c, j)
    BY <2>1 DEF Filed, Unknown, IdKnown
  <2>3. Filed' /\ Outstanding'
    BY <1>0, <1>2, <2>1, <2>2 DEF Filed, Outstanding, Unknown, Absent
  <2>4. FileAhead' /\ ReadAhead'
    BY <1>0, <1>2, <2>1, <2>2
    DEF FileAhead, ReadAhead, Follows, Absent, Terminal, Asked
  <2> QED
    BY <2>3, <2>4
<1>4. CASE PersistRunning(j)
  <2>1. /\ worker[j] = "persist_running" /\ worker'[j] = "run"
        /\ file'[j] = "running" /\ UNCHANGED <<poll, outcome>>
    BY <1>4 DEF PersistRunning, Written
  <2>2. \A c \in Clients : /\ told[c][j] \notin Terminal
                           /\ Asked(c, j) => poll[c].seen \notin Terminal
    BY <2>1 DEF Undecided, Before
  <2>3. Filed' /\ Outstanding'
    BY <1>0, <1>2, <2>1, <2>2 DEF Filed, Outstanding, Unknown, Absent, Ran
  <2>4. FileAhead'
    BY <1>0, <1>2, <2>1, <2>2 DEF FileAhead, Follows
  <2>5. ReadAhead'
    BY <1>0, <1>2, <2>1, <2>2 DEF ReadAhead, Asked
  <2> QED
    BY <2>3, <2>4, <2>5
<1>5. CASE Begin(j)
  <2>1. /\ worker[j] = "begin" /\ mem[j] # Absent
        /\ UNCHANGED <<file, outcome>>
        /\ Update(j, "running", "persist_running", "run") /\ "running" \in Status
    BY <1>5 DEF Begin, ActiveJobKept, Status
  <2>2. /\ worker'[j] = "persist_running"
        /\ \A c \in Clients, k \in Jobs : Asked(c, k)' =>
               /\ Asked(c, k)
               /\ \/ poll'[c].seen = poll[c].seen
                  \/ k = j /\ poll'[c].seen = "running"
    BY <2>1, UpdateType
  <2>3. \A c \in Clients : told[c][j] \notin Terminal
    BY <2>1 DEF Undecided, Before
  <2>4. Filed' /\ FileAhead' /\ Outstanding'
    BY <1>0, <1>2, <2>1, <2>2 DEF Filed, FileAhead, Outstanding, Unknown
  <2>5. ReadAhead'
    <3> SUFFICES ASSUME NEW c \in Clients, NEW k \in Jobs, Asked(c, k)'
                 PROVE  /\ poll'[c].seen # Absent
                        /\ ~early[c][k] => Follows(told[c][k], poll'[c].seen)
                        /\ told[c][k] \in Terminal => poll'[c].seen \in Ran
                        /\ poll'[c].seen \in Terminal =>
                               poll'[c].seen \in {file[k], outcome[k]}
      BY <1>0, <2>1 DEF ReadAhead
    <3>1. CASE poll'[c].seen = poll[c].seen
      BY <2>2, <3>1 DEF ReadAhead
    <3>2. CASE k = j /\ poll'[c].seen = "running"
      BY <2>3, <3>2 DEF Follows, Ran, Absent, Terminal
    <3> QED
      BY <2>2, <3>1, <3>2
  <2> QED
    BY <2>4, <2>5
<1>6. CASE Run(j)
  <2>1. PICK status \in Terminal :
            /\ outcome' = [outcome EXCEPT ![j] = status]
            /\ Update(j, status, "persist_outcome", "finished")
    BY <1>6 DEF Run
  <2>2. worker[j] = "run" /\ file' = file /\ mem[j] # Absent /\ status \in Status
    BY <1>6 DEF Run, ActiveJobKept, Status
  <2>3. /\ worker'[j] = "persist_outcome" /\ outcome'[j] = status
        /\ \A c \in Clients, k \in Jobs : Asked(c, k)' =>
               /\ Asked(c, k)
               /\ \/ poll'[c].seen = poll[c].seen
                  \/ k = j /\ poll'[c].seen = status
    BY <2>1, <2>2, UpdateType
  <2>4. /\ file[j] \notin Terminal /\ file[j] \in Ran /\ file[j] # Absent
        /\ \A c \in Clients : /\ told[c][j] \notin Terminal
                              /\ Asked(c, j) => poll[c].seen \notin Terminal
    BY <2>2 DEF Undecided, Before, Filed, Unknown
  <2>5. Filed' /\ Outstanding'
    BY <1>0, <1>2, <2>2, <2>3, <2>4 DEF Filed, Outstanding, Unknown
  <2>6. FileAhead'
    BY <1>0, <1>2, <2>2, <2>4 DEF FileAhead
  <2>7. ReadAhead'
    <3> SUFFICES ASSUME NEW c \in Clients, NEW k \in Jobs, Asked(c, k)'
                 PROVE  /\ poll'[c].seen # Absent
                        /\ ~early[c][k] => Follows(told[c][k], poll'[c].seen)
                        /\ told[c][k] \in Terminal => poll'[c].seen \in Ran
                        /\ poll'[c].seen \in Terminal =>
                               poll'[c].seen \in {file[k], outcome'[k]}
      BY <1>0, <2>2 DEF ReadAhead
    <3>1. Asked(c, k)
      BY <2>3
    <3>2. CASE k # j
      BY <1>2, <2>3, <3>1, <3>2 DEF ReadAhead
    <3>3. CASE k = j /\ poll'[c].seen = poll[c].seen
      BY <2>4, <3>1, <3>3 DEF ReadAhead
    <3>4. CASE k = j /\ poll'[c].seen = status
      BY <2>3, <2>4, <3>4 DEF Follows, Ran, Absent, Terminal
    <3> QED
      BY <2>3, <3>2, <3>3, <3>4
  <2> QED
    BY <2>5, <2>6, <2>7
<1>7. CASE PersistOutcome(j)
  <2>1. /\ worker[j] = "persist_outcome" /\ worker'[j] = "finished"
        /\ file'[j] = outcome[j] /\ UNCHANGED <<poll, outcome>>
    BY <1>7 DEF PersistOutcome, Written
  <2>2. outcome[j] \in Terminal /\ file[j] \notin Terminal
    BY <2>1 DEF Recorded, Outstanding
  <2>3. \A c \in Clients :
            /\ told[c][j] \in Terminal => early[c][j]
            /\ Asked(c, j) /\ poll[c].seen \in Terminal => poll[c].seen = outcome[j]
    BY <2>2 DEF FileAhead, ReadAhead, Follows
  <2>4. outcome[j] # Absent /\ outcome[j] \in Ran
    BY <2>2 DEF Terminal, Absent, Ran
  <2>5. Filed' /\ Outstanding'
    BY <1>0, <1>2, <2>1, <2>4 DEF Filed, Outstanding, Unknown
  <2>6. FileAhead'
    BY <1>0, <1>2, <2>1, <2>2, <2>3, <2>4 DEF FileAhead, Follows
  <2>7. ReadAhead'
    BY <1>0, <1>2, <2>1, <2>3 DEF ReadAhead, Asked
  <2> QED
    BY <2>5, <2>6, <2>7
<1> QED
  BY <1>3, <1>4, <1>5, <1>6, <1>7 DEF Worker

\* A poll that answers tells what it has read.
LEMMA AdvanceAnswer ==
    ASSUME AdvanceInv, ReportsTrue', NEW c \in Clients,
           AnswerRead(c) \/ AnswerHeld(c)
    PROVE  /\ Filed' /\ FileAhead' /\ ReadAhead' /\ Outstanding'
           /\ \A b \in Clients, k \in Jobs :
                  \/ Follows(told[b][k], told'[b][k])
                  \/ early[b][k] /\ TakenBack(told[b][k], told'[b][k])
<1> USE DEF AdvanceInv, TrueInv, KeptInv
<1> DEFINE j == poll[c].job
           seen == poll[c].seen
<1>1. /\ j \in Jobs /\ seen \in Status \cup {Absent} /\ Asked(c, j)
      /\ UNCHANGED <<mem, file, worker, outcome>>
      /\ \A b \in Clients, k \in Jobs :
             \/ told'[b][k] = told[b][k] /\ early'[b][k] = early[b][k]
             \/ /\ b = c /\ k = j
                /\ seen # Absent => told'[b][k] = seen
                /\ early'[b][k] = ~Follows(told'[b][k], file[k])
      /\ \A b \in Clients, k \in Jobs :
             Asked(b, k)' => b # c /\ Asked(b, k) /\ poll'[b] = poll[b]
  BY TellEffect
<1>2. /\ seen # Absent
      /\ ~early[c][j] => Follows(told[c][j], seen)
      /\ told[c][j] \in Terminal => seen \in Ran
      /\ seen \in Terminal => seen \in {file[j], outcome[j]}
      /\ early[c][j] /\ told[c][j] \in Terminal => told[c][j] = outcome[j]
      /\ worker[j] \notin Unknown
  BY <1>1 DEF ReadAhead, FileAhead, IdKnown, Unknown
<1>3. seen \in Terminal => file[j] \in Ran
  <2>1. seen \in Terminal => worker[j] \notin Before
    BY <1>1 DEF Undecided
  <2> QED
    BY <1>1, <1>2, <2>1 DEF Filed, Before, Unknown, TypeOK, WorkerSteps
<1>4. \A k \in Jobs : k = j => k \in Jobs /\ file[k] = file[j] /\ outcome[k] = outcome[j]
  OBVIOUS
<1> HIDE DEF j, seen
<1>5. ASSUME NEW b \in Clients, NEW k \in Jobs, b = c, k = j, told'[b][k] = seen
      PROVE  \/ Follows(told[b][k], told'[b][k])
             \/ early[b][k] /\ TakenBack(told[b][k], told'[b][k])
  <2>1. CASE ~early[c][j]
    BY <1>2, <1>5, <2>1
  <2>2. CASE told[c][j] \notin Terminal
    BY <1>1, <1>2, <1>5, <2>1, <2>2 DEF Follows, TakenBack, Status, Terminal, TypeOK
  <2>3. CASE early[c][j] /\ told[c][j] \in Terminal
    <3>1. told[c][j] = outcome[j] /\ seen \in {"running", "completed", "error"}
      BY <1>2, <2>3 DEF Ran, Terminal
    <3>2. CASE seen \in {"running", "error"}
      BY <1>5, <2>3, <3>2 DEF TakenBack
    <3>3. CASE seen = "completed"
      <4>1. outcome[j] = "completed"
        BY <1>1, <1>5, <3>3 DEF ReportsTrue
      <4>2. told[b][k] = told'[b][k] /\ told[b][k] = "completed"
        BY <1>5, <3>1, <3>3, <4>1
      <4> QED
        BY <4>2 DEF Follows
    <3> QED
      BY <3>1, <3>2, <3>3
  <2> QED
    BY <2>1, <2>2, <2>3 DEF TypeOK
<1>6. \A b \in Clients, k \in Jobs :
          \/ Follows(told[b][k], told'[b][k])
          \/ early[b][k] /\ TakenBack(told[b][k], told'[b][k])
  <2>1. \A s : Follows(s, s)
    BY DEF Follows
  <2> QED
    BY <1>1, <1>2, <1>5, <2>1
<1>7. FileAhead'
  <2> SUFFICES ASSUME NEW b \in Clients, NEW k \in Jobs
               PROVE  /\ ~early'[b][k] => Follows(told'[b][k], file[k])
                      /\ early'[b][k] /\ told'[b][k] \in Terminal =>
                             told'[b][k] = outcome[k]
                      /\ told'[b][k] \in Terminal => file[k] \in Ran
    BY <1>1 DEF FileAhead
  <2>1. CASE told'[b][k] = told[b][k] /\ early'[b][k] = early[b][k]
    BY <2>1 DEF FileAhead
  <2>2. CASE /\ k = j /\ told'[b][k] = seen
             /\ early'[b][k] = ~Follows(told'[b][k], file[k])
    <3>1. early'[b][k] /\ seen \in Terminal => seen # file[j]
      BY <2>2 DEF Follows, Terminal
    <3> QED
      BY <1>2, <1>3, <2>2, <3>1
  <2> QED
    BY <1>1, <1>2, <2>1, <2>2
<1>8. ReadAhead'
  BY <1>1 DEF ReadAhead
<1>9. Filed' /\ Outstanding'
  BY <1>1, <1>2 DEF Filed, Outstanding
<1> QED
  BY <1>6, <1>7, <1>8, <1>9

LEMMA AdvanceStep ==
    ASSUME ~DiskFails, IsFiniteSet(Jobs), Cardinality(Jobs) <= MaxJobs,
           AdvanceInv, [Next]_vars
    PROVE  /\ AdvanceInv'
           /\ \A c \in Clients, j \in Jobs :
                  \/ Follows(told[c][j], told'[c][j])
                  \/ early[c][j] /\ TakenBack(told[c][j], told'[c][j])
<1>0. TrueInv /\ TrueInv' /\ TypeOK /\ ReportsTrue'
  BY TrueStep DEF AdvanceInv, TrueInv, KeptInv, AllWarranted
<1> DEFINE Advanced == /\ Filed' /\ FileAhead' /\ ReadAhead' /\ Outstanding'
                       /\ \A c \in Clients, j \in Jobs :
                              \/ Follows(told[c][j], told'[c][j])
                              \/ early[c][j] /\ TakenBack(told[c][j], told'[c][j])
<1> SUFFICES Advanced
  BY <1>0 DEF AdvanceInv
<1>1. \A s : Follows(s, s)
  BY DEF Follows
<1>2. ASSUME NEW j \in Jobs, Worker(j) PROVE Advanced
  <2>1. told' = told
    BY <1>2 DEF Worker, PersistQueued, Begin, PersistRunning, Run, PersistOutcome
  <2> QED
    BY <1>1, <1>2, <2>1, AdvanceWorker
<1>3. ASSUME NEW j \in Jobs, StartJob(j) PROVE Advanced
  <2>1. [mem EXCEPT ![j] = "queued"] \in Statuses
    BY <1>0 DEF Statuses, Status, TypeOK
  <2>2. file' = file
    BY <1>0, <1>3, <2>1, RoomKeeps DEF StartJob
  <2>3. /\ worker' = [worker EXCEPT ![j] = "persist_queued"] /\ worker[j] = "unborn"
        /\ UNCHANGED <<poll, told, early, outcome>>
    BY <1>3 DEF StartJob
  <2>4. Filed' /\ Outstanding'
    BY <1>0, <2>2, <2>3 DEF AdvanceInv, Filed, Outstanding, Unknown, TypeOK
  <2>5. FileAhead' /\ ReadAhead'
    BY <2>2, <2>3 DEF AdvanceInv, FileAhead, ReadAhead, Asked
  <2> QED
    BY <1>1, <2>3, <2>4, <2>5
<1>4. ASSUME NEW c \in Clients, NEW j \in Jobs, Poll(c, j) PROVE Advanced
  <2>1. /\ worker[j] \notin Unknown
        /\ poll' = [poll EXCEPT ![c] = [job |-> j, seen |-> file[j], at |-> "read"]]
        /\ UNCHANGED <<file, worker, told, early, outcome>>
    BY <1>4 DEF Poll, Unknown
  <2>2. /\ poll'[c].job = j /\ poll'[c].seen = file[j] /\ file[j] # Absent
        /\ \A b \in Clients \ {c} : poll'[b] = poll[b]
    BY <1>0, <2>1 DEF AdvanceInv, Filed, TypeOK
  <2>3. ReadAhead'
    BY <2>1, <2>2 DEF AdvanceInv, FileAhead, ReadAhead, Asked
  <2> QED
    BY <1>1, <2>1, <2>3 DEF AdvanceInv, Filed, FileAhead, Outstanding
<1>5. ASSUME NEW c \in Clients, Install(c) PROVE Advanced
  <2>1. UNCHANGED <<worker, outcome, told, early>>
    BY <1>5 DEF Install
  <2>2. \A b \in Clients, k \in Jobs :
            Asked(b, k)' => Asked(b, k) /\ poll'[b].seen = poll[b].seen
    BY <1>0, <1>5, InstallEffect
  <2>3. file' = file
    <3>1. [mem EXCEPT ![poll[c].job] = poll[c].seen] \in Statuses
      BY <1>0, <1>5, InstallEffect DEF Statuses, TypeOK
    <3> QED
      BY <1>0, <1>5, <3>1, RoomKeeps DEF Install
  <2>4. Filed' /\ FileAhead' /\ Outstanding'
    BY <2>1, <2>3 DEF AdvanceInv, Filed, FileAhead, Outstanding
  <2>5. ReadAhead'
    BY <2>1, <2>2, <2>3 DEF AdvanceInv, ReadAhead
  <2> QED
    BY <1>1, <2>1, <2>4, <2>5
<1>6. ASSUME NEW c \in Clients, AnswerRead(c) \/ AnswerHeld(c) PROVE Advanced
  BY <1>0, <1>6, AdvanceAnswer
<1>7. CASE Restart
  <2>1. \A j \in Jobs :
          /\ file[j] = Absent => file'[j] = Absent
          /\ file[j] # Absent => file'[j] = Recovered(file[j])
    BY <1>0, <1>7, RestartRecovers
  <2>2. /\ UNCHANGED <<told, early, outcome>>
        /\ \A c \in Clients, j \in Jobs : ~Asked(c, j)'
    BY <1>7 DEF Restart, Asked
  <2>3. \A j \in Jobs : /\ worker[j] \in Unknown <=> worker'[j] \in Unknown
                        /\ worker'[j] \notin {"run", "persist_outcome"}
    BY <1>0, <1>7 DEF Restart, Unknown, Unfinished, TypeOK, WorkerSteps
  <2>4. \A j \in Jobs : /\ Follows(file[j], file'[j])
                        /\ file[j] # Absent => file'[j] # Absent /\ file'[j] \in Terminal
                        /\ file[j] \in Ran => file'[j] \in Ran
    <3> SUFFICES ASSUME NEW j \in Jobs
                 PROVE  /\ Follows(file[j], file'[j])
                        /\ file[j] # Absent => file'[j] # Absent /\ file'[j] \in Terminal
                        /\ file[j] \in Ran => file'[j] \in Ran
      OBVIOUS
    <3>1. file[j] \in Status \cup {Absent}
      BY <1>0 DEF TypeOK
    <3> QED
      BY <2>1, <3>1 DEF Follows, Recovered, Terminal, Absent, Ran, Status
  <2>5. FileAhead'
    BY <2>2, <2>4 DEF AdvanceInv, FileAhead, Follows, Ran, Terminal
  <2>6. Filed'
    <3> SUFFICES ASSUME NEW j \in Jobs
                 PROVE  /\ worker'[j] \notin Unknown => file'[j] # Absent /\ file'[j] \in Ran
                        /\ worker'[j] \in Unknown =>
                               \A c \in Clients : told'[c][j] = Absent
      BY DEF Filed, Unknown
    <3> QED
      BY <2>2, <2>3, <2>4 DEF AdvanceInv, Filed, Ran
  <2>7. ReadAhead' /\ Outstanding'
    BY <2>2, <2>3 DEF ReadAhead, Outstanding
  <2> QED
    BY <1>1, <2>2, <2>5, <2>6, <2>7
<1>8. CASE UNCHANGED vars
  BY <1>1, <1>8 DEF vars, AdvanceInv, Filed, FileAhead, ReadAhead, Outstanding, Asked
<1> QED
  BY <1>2, <1>3, <1>4, <1>5, <1>6, <1>7, <1>8 DEF Next, Answer

\* With room for every job and a disk that takes every write, what get_job told a client
\* is taken back only if it was told early, between the thread's change of the job and
\* its write of the file; then the file may still have the status before, or a restart
\* make an error of it.  No failure becomes a success, and no run is queued again that
\* was over, however stale the polls and however often the server restarts.
THEOREM ReportsStay ==
    ASSUME ~DiskFails, IsFiniteSet(Jobs), Cardinality(Jobs) <= MaxJobs
    PROVE  Spec => ReportsAdvance
<1> DEFINE Advance == \A c \in Clients, j \in Jobs :
                          \/ Follows(told[c][j], told'[c][j])
                          \/ early[c][j] /\ TakenBack(told[c][j], told'[c][j])
<1>1. Init => AdvanceInv
  <2> SUFFICES ASSUME Init PROVE AdvanceInv
    OBVIOUS
  <2>1. AllWarranted /\ IdKnown /\ Recorded
    BY DEF Init, AllWarranted, Warranted, ReportsTrue, IdKnown, Recorded, Asked, Absent
  <2>2. Filed /\ FileAhead /\ ReadAhead /\ Outstanding
    BY DEF Init, Filed, FileAhead, ReadAhead, Outstanding, Follows, Unknown, Asked, Absent,
           Terminal
  <2> QED
    BY <2>1, <2>2, KeptInit DEF AdvanceInv, TrueInv
<1>2. AdvanceInv /\ [Next]_vars => AdvanceInv'
  BY AdvanceStep
<1>3. AdvanceInv /\ [Next]_vars => [Advance]_told
  BY AdvanceStep
<1> HIDE DEF Advance
<1>4. Spec => [][Advance]_told
  BY <1>1, <1>2, <1>3, PTL DEF Spec
<1> QED
  BY <1>4 DEF Advance, ReportsAdvance

=============================================================================
