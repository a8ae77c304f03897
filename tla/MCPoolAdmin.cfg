\* A rebuild and two enrichments at once, room for both jobs, and updates of job
\* files that may fail; and two clients that poll while there is room for one job.
\* The symmetry is of the second part; liveness is of the first.
SPECIFICATION MCSpec
CONSTANTS
    Jobs = {j1, j2}
    MaxJobs = 2
    Symbols = {s1}
    Admins = {a1}
    Clients = {c1}
    Mishaps = {"thread", "update"}
    MaxRestarts = 1
    FewJobs = {k1, k2}
    Pollers = {d1, d2}
SYMMETRY Interchangeable
INVARIANTS LockMatches
PROPERTIES NothingClobbered FullReportsAdvance PollingEnds
\* Every job has run and every client may go away.
CHECK_DEADLOCK FALSE
