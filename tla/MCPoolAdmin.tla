---------------------------- MODULE MCPoolAdmin -----------------------------
(* Pool administration on small instances, one or the other moving: with     *)
(* room for every job, and with room for one, where every file that is       *)
(* created may fail.  And a comment that TLC refutes.                         *)
EXTENDS PoolAdmin, TLC

CONSTANTS FewJobs, Pollers      \* the jobs and the clients of the second

\* Of the second alone: the first has liveness properties.
Interchangeable == Permutations(FewJobs) \cup Permutations(Pollers)

VARIABLES part, fUniverse, fPool, fHolder, fRebuild, fWorker, fCopy, fMem, fFile,
          fOutcome, fPoll, fTold, fRestarts

full == <<fUniverse, fPool, fHolder, fRebuild, fWorker, fCopy, fMem, fFile,
          fOutcome, fPoll, fTold, fRestarts>>

Full == INSTANCE PoolAdmin WITH
    Jobs <- FewJobs, MaxJobs <- 1, Symbols <- {}, Admins <- {},
    Clients <- Pollers, Mishaps <- {"create"}, MaxRestarts <- 1,
    universe <- fUniverse, pool <- fPool, holder <- fHolder, rebuild <- fRebuild,
    worker <- fWorker, copy <- fCopy, mem <- fMem, file <- fFile,
    outcome <- fOutcome, poll <- fPoll, told <- fTold, restarts <- fRestarts

MCInit == Init /\ Full!Init /\ part \in {"roomy", "full"}

MCNext ==
    \/ part = "roomy" /\ Next /\ UNCHANGED <<part, full>>
    \/ part = "full" /\ Full!Next /\ UNCHANGED <<part, vars>>

MCSpec == MCInit /\ [][MCNext]_<<part, vars, full>> /\ Fairness

\* PoolAdmin's properties, where there is room for one job.
FullReportsAdvance == Full!ReportsAdvance

\* start_enrich_job: the lock is "released by the worker thread when enrichment
\* finishes (success or failure)", and a request that finds it held is told that
\* "A pool operation is already in progress."  So while it is held, one is.
BusyIsTrue ==
    holder # Free =>
        \/ \E a \in Admins : rebuild[a] # "idle"
        \/ \E j \in Jobs : worker[j] \in Working

=============================================================================
