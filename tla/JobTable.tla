------------------------------ MODULE JobTable ------------------------------
(***************************************************************************)
(* The dictionary of jobs that the screener, backtest and enrichment run   *)
(* managers of api/services each keep, and how it is kept to max_jobs.     *)
(***************************************************************************)
EXTENDS Integers, FiniteSets

CONSTANTS
    Jobs,           \* job ids (uuid4) that may ever be drawn
    MaxJobs         \* max_jobs

ASSUME MaxJobsAssumption == MaxJobs \in Nat

\* Not in the dictionary, no file, or (in an answer) a 404.
Absent == "absent"

Held(dict) == {j \in Jobs : dict[j] # Absent}

\* Which of the jobs in `evictable` may go when dict has to shrink to MaxJobs.  The
\* oldest go first; updated_at counts whole seconds, so any of them may be it.
Trims(dict, evictable) ==
    LET excess == Cardinality(Held(dict)) - MaxJobs
    IN  {gone \in SUBSET evictable :
            IF excess <= 0 THEN gone = {}
            ELSE \/ Cardinality(gone) = excess
                 \/ gone = evictable /\ Cardinality(gone) < excess}

\* Which of the jobs with a file a new process loads: the MaxJobs newest.
Loaded(files) ==
    {kept \in SUBSET Held(files) :
        \/ Cardinality(kept) = MaxJobs
        \/ kept = Held(files) /\ Cardinality(kept) < MaxJobs}

\* dict or files without the jobs that are gone.
Without(dict, gone) == [j \in Jobs |-> IF j \in gone THEN Absent ELSE dict[j]]

=============================================================================
