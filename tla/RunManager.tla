----------------------------- MODULE RunManager -----------------------------
(***************************************************************************)
(* Background runs: a screener or backtest request starts a thread, and    *)
(* the browser polls for its status (api/services/screener_run_manager.py, *)
(* which backtest_run_manager.py mirrors line by line).                    *)
(*                                                                         *)
(* A job is kept twice: in the manager's dictionary, under its lock, and   *)
(* in one file per job, which is written after the lock is released and    *)
(* read before it is taken.  The request that starts the job, its worker   *)
(* thread and the polls therefore interleave between dictionary and file.  *)
(* What a poll read becomes the job of the dictionary, and the poll copies *)
(* its answer from that job when it no longer has the lock: what the       *)
(* thread makes of it meanwhile is answered before it is in the file.      *)
(* A failed write of the file is logged and otherwise ignored.             *)
(*                                                                         *)
(* A file is replaced by renaming, so a reader sees the old or the new one.*)
(* There is one server process: heroku_start.sh forces it, because jobs    *)
(* "should not split across workers".                                      *)
(*                                                                         *)
(* Status and result of a job change in one step.  (A copy that is made    *)
(* between them has the one without the other; the browser takes it for a  *)
(* run that goes on.)                                                      *)
(***************************************************************************)
EXTENDS JobTable

CONSTANTS
    Clients,        \* browsers; each waits for an answer before it asks again
    DiskFails,      \* whether a write of a job file may fail
    MaxRestarts     \* bound: restarts of the server

ASSUME DiskFailsAssumption == DiskFails \in BOOLEAN
ASSUME MaxRestartsAssumption == MaxRestarts \in Nat

VARIABLES
    mem,            \* mem[j]: status of job j in the dictionary
    file,           \* file[j]: status in the file of job j
    worker,         \* worker[j]: the next step of the request, then the thread
    outcome,        \* outcome[j]: the status the run of job j ended with
    poll,           \* poll[c]: the poll client c is waiting for; `seen` is the status
                    \* of the job it has read
    told,           \* told[c][j]: the last status c was given for j
    early,          \* early[c][j]: whether it was ahead of the file when it was given
    restarts        \* restarts so far

vars == <<mem, file, worker, outcome, poll, told, early, restarts>>

-----------------------------------------------------------------------------
Terminal == {"completed", "error"}
Status == {"queued", "running"} \cup Terminal

NoPoll == [job |-> "none"]

\* The poll has read a file; it has put what it read in the dictionary; another poll has
\* taken its place there.
Polls == [job : Jobs, seen : Status \cup {Absent}, at : {"read", "shared", "apart"}]

\* The steps of a job: the request that starts it, then the thread.
WorkerSteps == {"unborn",
                "persist_queued",   \* start_job: the file, then the thread
                "begin",            \* _update(status="running"): the dictionary
                "persist_running",  \* ... and the file
                "run",              \* run_fn, then _update with its outcome
                "persist_outcome",  \* ... and the file
                "finished",
                "killed",           \* the process died under it
                "lost"}             \* it died, or failed to start, before any client
                                    \* had its id

Unfinished == {"begin", "persist_running", "run", "persist_outcome"}

Asked(c, j) == poll[c] # NoPoll /\ poll[c].job = j

\* The job that the poll has read is the one in the dictionary.
Shares(c, j) == Asked(c, j) /\ poll[c].at = "shared"

\* A write either happens or, if the disk may fail, leaves the old file.
Written(j, status) ==
    \/ file' = [file EXCEPT ![j] = status]
    \/ DiskFails /\ UNCHANGED file

\* A faulty form: any job may be evicted.
Evictable_All(dict) == Held(dict)

\* Only terminal jobs are evicted.
Evictable(dict) == {j \in Jobs : dict[j] \in Terminal}

\* The dictionary becomes dict, trimmed; the files of evicted jobs are removed, each
\* if it can be.
Keep(dict) ==
    \E gone \in Trims(dict, Evictable(dict)) :
        /\ mem' = Without(dict, gone)
        /\ \E removed \in IF DiskFails THEN SUBSET gone ELSE {gone} :
               file' = Without(file, removed)

-----------------------------------------------------------------------------
Init ==
    /\ mem = [j \in Jobs |-> Absent]
    /\ file = [j \in Jobs |-> Absent]
    /\ worker = [j \in Jobs |-> "unborn"]
    /\ outcome = [j \in Jobs |-> Absent]
    /\ poll = [c \in Clients |-> NoPoll]
    /\ told = [c \in Clients |-> [j \in Jobs |-> Absent]]
    /\ early = [c \in Clients |-> [j \in Jobs |-> FALSE]]
    /\ restarts = 0

\* start_job, under the lock.
StartJob(j) ==
    /\ worker[j] = "unborn"
    /\ worker' = [worker EXCEPT ![j] = "persist_queued"]
    /\ Keep([mem EXCEPT ![j] = "queued"])
    /\ UNCHANGED <<outcome, poll, told, early, restarts>>

\* start_job: the file; then the thread is started and the client has the id, or
\* the thread cannot be started and no client ever has it.
PersistQueued(j) ==
    /\ worker[j] = "persist_queued"
    /\ Written(j, "queued")
    /\ \E next \in {"begin", "lost"} : worker' = [worker EXCEPT ![j] = next]
    /\ UNCHANGED <<mem, outcome, poll, told, early, restarts>>

\* _update under the lock, then `next`, the write of the file.  It changes the job that
\* is in the dictionary, which may be the one a poll is about to copy.  A job that is
\* no longer there is left alone, and nothing is written.
Update(j, status, next, otherwise) ==
    IF mem[j] # Absent
    THEN /\ mem' = [mem EXCEPT ![j] = status]
         /\ poll' = [c \in Clients |-> IF Shares(c, j)
                                       THEN [poll[c] EXCEPT !.seen = status]
                                       ELSE poll[c]]
         /\ worker' = [worker EXCEPT ![j] = next]
    ELSE /\ worker' = [worker EXCEPT ![j] = otherwise]
         /\ UNCHANGED <<mem, poll>>

Begin(j) ==
    /\ worker[j] = "begin"
    /\ Update(j, "running", "persist_running", "run")
    /\ UNCHANGED <<file, outcome, told, early, restarts>>

PersistRunning(j) ==
    /\ worker[j] = "persist_running"
    /\ Written(j, "running")
    /\ worker' = [worker EXCEPT ![j] = "run"]
    /\ UNCHANGED <<mem, outcome, poll, told, early, restarts>>

\* run_fn returns or raises.
Run(j) ==
    /\ worker[j] = "run"
    /\ \E status \in Terminal :
        /\ outcome' = [outcome EXCEPT ![j] = status]
        /\ Update(j, status, "persist_outcome", "finished")
    /\ UNCHANGED <<file, told, early, restarts>>

PersistOutcome(j) ==
    /\ worker[j] = "persist_outcome"
    /\ Written(j, outcome[j])
    /\ worker' = [worker EXCEPT ![j] = "finished"]
    /\ UNCHANGED <<mem, outcome, poll, told, early, restarts>>

-----------------------------------------------------------------------------
\* get_job: the file is read first, without the lock.
Poll(c, j) ==
    /\ poll[c] = NoPoll
    /\ worker[j] \notin {"unborn", "persist_queued", "lost"}
    /\ poll' = [poll EXCEPT ![c] = [job |-> j, seen |-> file[j], at |-> "read"]]
    /\ UNCHANGED <<mem, file, worker, outcome, told, early, restarts>>

\* get_job, under the lock: the job that was read takes the place of the one in the
\* dictionary, which another poll may have put there.
Install(c) ==
    /\ poll[c] # NoPoll /\ poll[c].at = "read" /\ poll[c].seen # Absent
    /\ Keep([mem EXCEPT ![poll[c].job] = poll[c].seen])
    /\ poll' = [b \in Clients |->
           IF b = c THEN [poll[c] EXCEPT !.at = "shared"]
           ELSE IF Shares(b, poll[c].job) THEN [poll[b] EXCEPT !.at = "apart"]
           ELSE poll[b]]
    /\ UNCHANGED <<worker, outcome, told, early, restarts>>

\* What may be told after s.
Follows(s, t) ==
    /\ s \in Terminal => t = s
    /\ s = "running" => t \in {"running"} \cup Terminal

Tell(c, status) ==
    /\ told' = [told EXCEPT ![c][poll[c].job] = status]
    /\ early' = [early EXCEPT ![c][poll[c].job] = ~Follows(status, file[poll[c].job])]
    /\ poll' = [poll EXCEPT ![c] = NoPoll]
    /\ UNCHANGED <<mem, file, worker, outcome, restarts>>

\* get_job, without the lock again: a copy of the job that was read, as it is by now.
AnswerRead(c) ==
    /\ poll[c] # NoPoll /\ poll[c].at \in {"shared", "apart"}
    /\ Tell(c, poll[c].seen)

\* get_job, under the lock: there was no file, and the dictionary answers.
AnswerHeld(c) ==
    /\ poll[c] # NoPoll /\ poll[c].at = "read" /\ poll[c].seen = Absent
    /\ Tell(c, mem[poll[c].job])

Answer(c) == Install(c) \/ AnswerRead(c) \/ AnswerHeld(c)

-----------------------------------------------------------------------------
\* Faulty forms: the status is taken from the file as it is; every job is taken for
\* interrupted; an interrupted job is taken for complete.
Recovered_AsIs(status) == status
Recovered_All(status) == "error"
Recovered_Completed(status) ==
    IF status \in {"queued", "running"} THEN "completed" ELSE status

\* _load_jobs: a job that was not over was interrupted.
Recovered(status) == IF status \in {"queued", "running"} THEN "error" ELSE status

\* The server dies, with its threads and the polls it serves, and starts again:
\* __init__ reads the files, corrects them (each write may fail) and keeps the
\* MaxJobs that were updated last, before anything else runs.
Restart ==
    /\ restarts < MaxRestarts
    /\ restarts' = restarts + 1
    /\ \E kept \in Loaded(file) :
           mem' = [j \in Jobs |-> IF j \in kept THEN Recovered(file[j]) ELSE Absent]
    /\ \E corrected \in SUBSET Held(file) :
        /\ ~DiskFails => corrected = Held(file)
        /\ file' = [j \in Jobs |-> IF j \in corrected THEN Recovered(file[j])
                                                      ELSE file[j]]
    /\ worker' = [j \in Jobs |->
           IF worker[j] = "persist_queued" THEN "lost"
           ELSE IF worker[j] \in Unfinished THEN "killed"
           ELSE worker[j]]
    /\ poll' = [c \in Clients |-> NoPoll]
    /\ UNCHANGED <<outcome, told, early>>

Worker(j) ==
    \/ PersistQueued(j) \/ Begin(j) \/ PersistRunning(j) \/ Run(j)
    \/ PersistOutcome(j)

Next ==
    \/ \E j \in Jobs : StartJob(j) \/ Worker(j)
    \/ \E c \in Clients : Answer(c) \/ \E j \in Jobs : Poll(c, j)
    \/ Restart

Spec == Init /\ [][Next]_vars

\* A thread that is alive is scheduled, and run_fn returns (its loops are over
\* finite lists, its requests time out); a client is answered, and asks again
\* until it is told that the job it waits for is over.
Waiting(c, j) == told[c][j] \in {"queued", "running"}

Fairness ==
    /\ \A j \in Jobs : WF_vars(Worker(j))
    /\ \A c \in Clients : WF_vars(Answer(c))
    /\ \A c \in Clients, j \in Jobs :
           SF_vars(Waiting(c, j) /\ Poll(c, j))

FairSpec == Spec /\ Fairness

-----------------------------------------------------------------------------
(* Properties *)

TypeOK ==
    /\ mem \in [Jobs -> Status \cup {Absent}]
    /\ file \in [Jobs -> Status \cup {Absent}]
    /\ worker \in [Jobs -> WorkerSteps]
    /\ outcome \in [Jobs -> Terminal \cup {Absent}]
    /\ poll \in [Clients -> {NoPoll} \cup Polls]
    /\ told \in [Clients -> [Jobs -> Status \cup {Absent}]]
    /\ early \in [Clients -> [Jobs -> BOOLEAN]]
    /\ restarts \in 0..MaxRestarts

\* The comment in _trim_jobs_locked: evicting an active job "would drop its
\* result mid-flight and 404 the client polling it".  So the worker of a job that
\* is not over always finds its job in the dictionary, whatever polls have put
\* there from the files, and however many jobs there are.
ActiveJobKept ==
    \A j \in Jobs :
        worker[j] \in {"persist_queued", "begin", "persist_running", "run"}
            => mem[j] # Absent

\* What a client has been told and was in the file is not taken back: a job that was
\* over is over the same way, and one that ran is not queued again, across stale reads
\* of the file and restarts.  What was told early, from a job that the thread changed
\* under the poll, may be taken back by one status, which the file still has, or by the
\* error of a restart; so who was told of a failure is not told of a success, and who
\* was told of either not that the run is queued.  (At the limit of max_jobs this is
\* lost: an eviction between the two halves of get_job lets a stale status back in.)
TakenBack(s, t) ==
    \/ s \in Terminal /\ t \in {"running", "error"}
    \/ s = "running" /\ t = "queued"

ReportsAdvance ==
    [][\A c \in Clients, j \in Jobs :
          \/ Follows(told[c][j], told'[c][j])
          \/ early[c][j] /\ TakenBack(told[c][j], told'[c][j])]_told

\* A client is told that a job completed only when it did, and that it failed
\* only when it did, was killed, or ended without reaching the disk before a
\* restart: dictionary and file never mix two jobs or two outcomes.
ReportsTrue ==
    \A c \in Clients, j \in Jobs :
        /\ told[c][j] = "completed" => outcome[j] = "completed"
        /\ told[c][j] = "error" =>
               \/ outcome[j] = "error"
               \/ restarts > 0 /\ (worker[j] = "killed" \/ DiskFails)

\* A client that keeps polling a job is, in the end, told that it is over (or
\* gone, if its file was never written): whatever stale status a poll has put in
\* the dictionary, the file prevails.
PollingEnds ==
    \A c \in Clients, j \in Jobs : Waiting(c, j) ~> ~Waiting(c, j)

=============================================================================
