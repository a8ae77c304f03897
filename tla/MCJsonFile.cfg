\* Three requests edit a file and two read it, with one crash; and two requests are for
\* a company's figures of two ages, with one mishap.
SPECIFICATION MCSpec
CONSTANTS
    Readers = {r1, r2}
    Updaters = {u1, u2, u3}
    Savers = {}
    Exists = TRUE
    MaxCrashes = 1
    Askers = {a1, a2}
    Ttl = 1
    MaxMishaps = 1
SYMMETRY Interchangeable
INVARIANTS AcknowledgedKept NoTornRead
PROPERTIES CreationAloneLoses FiguresKept FiguresReturn
\* Every request for a file is served once.
CHECK_DEADLOCK FALSE
