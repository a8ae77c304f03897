\* One process, as deployed.  Two jobs, room for one, and writes that may fail;
\* and a run, two clients that ask about it, and two restarts.  No symmetry:
\* one of the properties is liveness.
SPECIFICATION MCSpec
CONSTANTS
    Jobs = {j1, j2}
    Clients = {c1}
    MaxJobs = 1
    DiskFails = TRUE
    MaxRestarts = 1
    Runs = {j1}
    Pollers = {c1, c2}
INVARIANTS ActiveJobKept ReportsTrue
PROPERTIES GoodReportsAdvance GoodPollingEnds
\* Every job has run and every client may go away.
CHECK_DEADLOCK FALSE
