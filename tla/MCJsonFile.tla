----------------------------- MODULE MCJsonFile -----------------------------
(* JSON files on small instances, one part moving at a time: a file that     *)
(* exists and is updated under one lock; a file that the first requests find *)
(* missing and that the same requests edit in two steps on the event loop;   *)
(* and the file of a company's figures, which requests fetch while others    *)
(* ask for them.                                                             *)
EXTENDS JsonFile, TLC

CONSTANTS Askers, Ttl, MaxMishaps

ASSUME FiguresAssumption == Ttl \in Nat /\ MaxMishaps \in Nat

VARIABLES
    part,
    newFile, newMarks, newPc, newLock, newSeen, newAnswer, newCut, newCrashes,
    stored, torn, step, forced, cached, made, disturbed, mishaps

new == <<newFile, newMarks, newPc, newLock, newSeen, newAnswer, newCut, newCrashes>>
figures == <<stored, torn, step, forced, cached, made, disturbed, mishaps>>

New == INSTANCE JsonFile WITH
    Updaters <- Savers, Savers <- Updaters, Exists <- FALSE,
    file <- newFile, marks <- newMarks, pc <- newPc, lock <- newLock,
    seen <- newSeen, answer <- newAnswer, cut <- newCut, crashes <- newCrashes

Figures == INSTANCE Fundamentals WITH pc <- step

\* Where the figures do not move, nobody may ask for them: a request that could be
\* made and never is would be unfair.
Unasked ==
    /\ stored = [kind |-> "figures", age |-> Figures!Old] /\ torn = FALSE
    /\ step = [r \in Askers |-> "gone"] /\ forced = [r \in Askers |-> FALSE]
    /\ cached = [r \in Askers |-> Figures!None] /\ made = cached
    /\ disturbed = forced /\ mishaps = 0

MCInit ==
    /\ Init /\ New!Init
    /\ \/ part \in {"updated", "missing"} /\ Unasked
       \/ part = "figures" /\ Figures!Init

MCNext ==
    \/ part = "updated" /\ Next /\ UNCHANGED <<part, new, figures>>
    \/ part = "missing" /\ New!Next /\ UNCHANGED <<part, vars, figures>>
    \/ part = "figures" /\ Figures!Next /\ UNCHANGED <<part, vars, new>>

MCSpec == MCInit /\ [][MCNext]_<<part, vars, new, figures>> /\ Figures!Fairness

\* JsonFile's OnlyCreationLoses, of the missing file; and Fundamentals' properties.
CreationAloneLoses == New!OnlyCreationLoses
FiguresKept == Figures!FiguresKept
FiguresReturn == Figures!FiguresReturn

\* Of the first two parts alone: the third has a liveness property.
Interchangeable == Permutations(Readers) \cup Permutations(Updaters)

=============================================================================
