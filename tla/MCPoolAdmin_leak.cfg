\* One process; the provider may fail to be built.
SPECIFICATION MCSpec
CONSTANTS
    Jobs = {j1, j2}
    MaxJobs = 2
    Symbols = {s1}
    Admins = {a1}
    Clients = {c1}
    Mishaps = {"info"}
    MaxRestarts = 1
    FewJobs = {}
    Pollers = {}
INVARIANTS BusyIsTrue
CHECK_DEADLOCK FALSE
