---------------------------- MODULE MCRunManager ----------------------------
(* The run manager on small instances, one or the other moving: with little  *)
(* room and a disk that may fail, and with a disk that takes every write.    *)
EXTENDS RunManager

CONSTANTS Runs, Pollers     \* the jobs and the clients of the second

VARIABLES part, gMem, gFile, gWorker, gOutcome, gPoll, gTold, gEarly, gRestarts

good == <<gMem, gFile, gWorker, gOutcome, gPoll, gTold, gEarly, gRestarts>>

\* With room for every job, runs do not affect each other: one is enough.
Good == INSTANCE RunManager WITH
    Jobs <- Runs, MaxJobs <- 1, Clients <- Pollers, DiskFails <- FALSE,
    MaxRestarts <- 2, mem <- gMem, file <- gFile, worker <- gWorker,
    outcome <- gOutcome, poll <- gPoll, told <- gTold, early <- gEarly,
    restarts <- gRestarts

MCInit == Init /\ Good!Init /\ part \in {"failing", "good"}

MCNext ==
    \/ part = "failing" /\ Next /\ UNCHANGED <<part, good>>
    \/ part = "good" /\ Good!Next /\ UNCHANGED <<part, vars>>

MCSpec == MCInit /\ [][MCNext]_<<part, vars, good>> /\ Good!Fairness

\* RunManager's properties, where the disk takes every write.
GoodReportsAdvance == Good!ReportsAdvance
GoodPollingEnds == Good!PollingEnds

=============================================================================
