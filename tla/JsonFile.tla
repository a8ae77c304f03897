------------------------------ MODULE JsonFile ------------------------------
(***************************************************************************)
(* One JSON file of data/ under concurrent requests                        *)
(* (src/swing_screener/utils/file_lock.py, api/utils/file_lock.py and the  *)
(* repositories that call them).                                           *)
(*                                                                         *)
(* A file is rewritten in place: under an exclusive lock it is truncated,  *)
(* then dumped.  Reads take a shared lock.  A lock is retried until a      *)
(* timeout, which is answered with a 503; a file that does not parse, an   *)
(* empty one included, is answered with a 500.  Whether there is a file at *)
(* all is looked up without any lock, and the first request to find none   *)
(* creates it.                                                             *)
(*                                                                         *)
(* Three kinds of request are served, each once: a reader; an updater,     *)
(* which reads, modifies and writes under one lock (the review queue); and *)
(* a saver, which reads under one lock and writes under another (orders,   *)
(* positions), and is an `async def` handler without an await: the event   *)
(* loop runs one at a time.  The lookup that precedes it is a dependency   *)
(* and runs in the thread pool, as readers and updaters do.                *)
(*                                                                         *)
(* What is in the file is the set of the edits that were made to it.       *)
(***************************************************************************)
EXTENDS Integers, FiniteSets

CONSTANTS
    Readers, Updaters, Savers,  \* the requests, by kind
    Exists,                     \* whether there is a file to begin with
    MaxCrashes                  \* bound: crashes of the server

Writers == Updaters \cup Savers
Requests == Readers \cup Writers

\* No file is edited both ways, and a request is of one kind.
ASSUME KindsAssumption ==
    /\ Updaters = {} \/ Savers = {}
    /\ Readers \cap Writers = {}
ASSUME ExistsAssumption == Exists \in BOOLEAN
ASSUME MaxCrashesAssumption == MaxCrashes \in Nat

VARIABLES
    file,           \* "absent", "whole", or "broken": it does not parse
    marks,          \* the edits in the file when it was last whole
    pc,             \* pc[p]: the next step of request p
    lock,           \* lock[p]: the lock p holds on the file
    seen,           \* seen[p]: the edits in the file as p read it
    answer,         \* answer[p]: what the client was told
    cut,            \* whether a rewrite was ever left unfinished
    crashes         \* crashes so far

vars == <<file, marks, pc, lock, seen, answer, cut, crashes>>

-----------------------------------------------------------------------------
\* "..._new" are the steps of a request that found no file.
Steps == {"start", "touch_new", "lock_new", "cut_new", "dump_new",
          "read", "load", "relock", "cut", "dump", "done"}

\* In a handler of the event loop.
OnLoop(p) == p \in Savers /\ pc[p] \in {"load", "relock", "cut", "dump"}

\* A faulty form: an update starts under a shared lock.
Mode_Shared(p) == IF pc[p] \in {"lock_new", "relock"} THEN "exclusive" ELSE "shared"

\* The lock that p is about to take.
Mode(p) ==
    IF pc[p] \in {"lock_new", "relock"} \/ p \in Updaters THEN "exclusive" ELSE "shared"

\* A faulty form: a shared lock does not wait for an exclusive one.
CanLock_Shared(p) == Mode(p) = "exclusive" => \A q \in Requests \ {p} : lock[q] = "none"

CanLock(p) ==
    \A q \in Requests \ {p} :
        \/ lock[q] = "none"
        \/ lock[q] = "shared" /\ Mode(p) = "shared"

\* A faulty form: the event loop runs several handlers.
LoopFree_Always(p) == TRUE

LoopFree(p) == p \in Savers => \A q \in Savers : ~OnLoop(q)

\* p is about to take a lock; the handler of a saver has to be run first.
Locking(p) ==
    \/ pc[p] \in {"lock_new", "relock"}
    \/ pc[p] = "read" /\ LoopFree(p)

Goto(p, step) == pc' = [pc EXCEPT ![p] = step]

Init ==
    /\ file = IF Exists THEN "whole" ELSE "absent"
    /\ marks = {}
    /\ pc = [p \in Requests |-> "start"]
    /\ lock = [p \in Requests |-> "none"]
    /\ seen = [p \in Requests |-> {}]
    /\ answer = [p \in Requests |-> "none"]
    /\ cut = FALSE
    /\ crashes = 0

-----------------------------------------------------------------------------
\* get_orders_repo, get_positions_repo, _ensure_file: is there a file?
Start(p) ==
    /\ pc[p] = "start"
    /\ Goto(p, IF file = "absent" THEN "touch_new" ELSE "read")
    /\ UNCHANGED <<file, marks, lock, seen, answer, cut, crashes>>

\* _prepare_path: an empty file is made, before any lock is taken on it.
Touch(p) ==
    /\ pc[p] = "touch_new"
    /\ file' = IF file = "absent" THEN "broken" ELSE file
    /\ Goto(p, "lock_new")
    /\ UNCHANGED <<marks, lock, seen, answer, cut, crashes>>

\* The step that follows a lock.
Locked(p) ==
    IF pc[p] = "lock_new" THEN "cut_new" ELSE IF pc[p] = "read" THEN "load" ELSE "cut"

Lock(p) ==
    /\ Locking(p)
    /\ CanLock(p)
    /\ lock' = [lock EXCEPT ![p] = Mode(p)]
    /\ Goto(p, Locked(p))
    /\ UNCHANGED <<file, marks, seen, answer, cut, crashes>>

\* The request ends, and leaves its `with` block if it is in one.
Reply(p, what) ==
    /\ answer' = [answer EXCEPT ![p] = what]
    /\ lock' = [lock EXCEPT ![p] = "none"]
    /\ Goto(p, "done")

\* The lock is not free for as long as the timeout: FileLockTimeoutError.
TimeOut(p) ==
    /\ Locking(p)
    /\ ~CanLock(p)
    /\ Reply(p, "unavailable")
    /\ cut' = (cut \/ pc[p] = "lock_new")
    /\ UNCHANGED <<file, marks, seen, crashes>>

\* JSONDecodeError.
LoadBroken(p) ==
    /\ pc[p] = "load"
    /\ file # "whole"
    /\ Reply(p, "invalid")
    /\ UNCHANGED <<file, marks, seen, cut, crashes>>

\* A reader has its answer; an updater goes on under its lock; a saver lets go of
\* its lock and will take another.
Load(p) ==
    /\ pc[p] = "load"
    /\ file = "whole"
    /\ seen' = [seen EXCEPT ![p] = marks]
    /\ \/ p \in Readers /\ Reply(p, "ok")
       \/ p \in Updaters /\ Goto(p, "cut") /\ UNCHANGED <<lock, answer>>
       \/ /\ p \in Savers
          /\ lock' = [lock EXCEPT ![p] = "none"]
          /\ Goto(p, "relock")
          /\ UNCHANGED answer
    /\ UNCHANGED <<file, marks, cut, crashes>>

\* _dump_json: seek and truncate ...
Cut(p) ==
    /\ pc[p] \in {"cut", "cut_new"}
    /\ file' = "broken"
    /\ Goto(p, IF pc[p] = "cut" THEN "dump" ELSE "dump_new")
    /\ UNCHANGED <<marks, lock, seen, answer, cut, crashes>>

\* ... and json.dump of the edited document,
Dump(p) ==
    /\ pc[p] = "dump"
    /\ file' = "whole"
    /\ marks' = seen[p] \cup {p}
    /\ Reply(p, "ok")
    /\ UNCHANGED <<seen, cut, crashes>>

\* or of the empty one, after which the request itself begins;
DumpNew(p) ==
    /\ pc[p] = "dump_new"
    /\ file' = "whole"
    /\ marks' = {}
    /\ lock' = [lock EXCEPT ![p] = "none"]
    /\ Goto(p, "read")
    /\ UNCHANGED <<seen, answer, cut, crashes>>

\* or the dump raises (the disk is full), and what was there is gone.
DumpFails(p) ==
    /\ pc[p] \in {"dump", "dump_new"}
    /\ cut' = TRUE
    /\ Reply(p, "failed")
    /\ UNCHANGED <<file, marks, seen, crashes>>

\* The server dies.  The system releases its locks; the file stays as it is.
Crash ==
    /\ crashes < MaxCrashes
    /\ crashes' = crashes + 1
    /\ cut' = (cut \/ file = "broken")
    /\ pc' = [p \in Requests |-> IF pc[p] = "start" THEN "start" ELSE "done"]
    /\ lock' = [p \in Requests |-> "none"]
    /\ UNCHANGED <<file, marks, seen, answer>>

Serve(p) ==
    \/ Start(p) \/ Touch(p) \/ Lock(p) \/ TimeOut(p) \/ LoadBroken(p) \/ Load(p)
    \/ Cut(p) \/ Dump(p) \/ DumpNew(p) \/ DumpFails(p)

Next == Crash \/ \E p \in Requests : Serve(p)

Spec == Init /\ [][Next]_vars

-----------------------------------------------------------------------------
(* Properties *)

TypeOK ==
    /\ file \in {"absent", "whole", "broken"}
    /\ marks \in SUBSET Writers
    /\ pc \in [Requests -> Steps]
    /\ lock \in [Requests -> {"none", "shared", "exclusive"}]
    /\ seen \in [Requests -> SUBSET Writers]
    /\ answer \in [Requests -> {"none", "ok", "unavailable", "invalid", "failed"}]
    /\ cut \in BOOLEAN
    /\ crashes \in 0..MaxCrashes

\* "File access is guarded by api/utils/file_lock.py to avoid concurrent write races"
\* (api/README.md): an edit that was acknowledged is in the file from then on, for
\* as long as the file can be read.  (When the file exists to begin with.)
AcknowledgedKept ==
    file = "whole" => \A p \in Writers : answer[p] = "ok" => p \in marks

\* A request is told that the file does not parse only once a rewrite was left
\* unfinished: no one sees a rewrite under way.  (When the file exists.)
NoTornRead == \A p \in Requests : answer[p] = "invalid" => cut

\* Also while the first requests create the file, only its creation loses edits:
\* no update is written over another, acknowledged or not.
OnlyCreationLoses ==
    [][marks \subseteq marks' \/ \E p \in Requests : DumpNew(p)]_marks

\* Every way out of a request releases its lock.
LocksReleased == \A p \in Requests : pc[p] = "done" => lock[p] = "none"

=============================================================================
