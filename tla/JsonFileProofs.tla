--------------------------- MODULE JsonFileProofs ---------------------------
(***************************************************************************)
(* What the locks of one JSON file guarantee, for any number of readers,   *)
(* updaters, savers and crashes.                                           *)
(***************************************************************************)
EXTENDS MCJsonFile, TLAPS

-----------------------------------------------------------------------------
(* The inductive invariant.                                                  *)

\* The lock a request holds follows from the step it is at.
LockOf(p) ==
    IF pc[p] \in {"cut_new", "dump_new", "cut", "dump"} THEN "exclusive"
    ELSE IF pc[p] = "load" THEN IF p \in Updaters THEN "exclusive" ELSE "shared"
    ELSE "none"

LocksFollow == \A p \in Requests : lock[p] = LockOf(p)

\* Who holds the lock exclusively holds it alone.
Exclusion ==
    \A p, q \in Requests : p # q /\ lock[p] = "exclusive" => lock[q] = "none"

\* The event loop runs one handler at a time.
OneOnLoop == \A p, q \in Requests : OnLoop(p) /\ OnLoop(q) => p = q

\* Who is about to write has read every edit there is.
NothingMissed ==
    \A p \in Requests : pc[p] \in {"relock", "cut", "dump"} => marks \subseteq seen[p]

\* Only who edits the document rewrites it, and only a saver under a second lock.
Editing ==
    \A p \in Requests :
        /\ pc[p] \in {"relock", "cut", "dump"} => p \in Writers
        /\ pc[p] = "relock" => p \in Savers

FileInv == TypeOK /\ LocksFollow /\ Exclusion /\ OneOnLoop /\ NothingMissed /\ Editing

\* When the file exists to begin with it is never created, and does not parse only
\* while it is dumped or after a dump was given up.
NeverCreated ==
    /\ file # "absent"
    /\ \A p \in Requests :
           pc[p] \notin {"touch_new", "lock_new", "cut_new", "dump_new"}

BrokenByDump == file = "broken" => cut \/ \E p \in Requests : pc[p] = "dump"

KeptInv ==
    /\ NeverCreated
    /\ BrokenByDump
    /\ NoTornRead
    /\ \A p \in Writers : answer[p] = "ok" => p \in marks

-----------------------------------------------------------------------------
(* The invariant is inductive.                                               *)

LEMMA FileInvInit == Init => FileInv
<1> SUFFICES ASSUME Init PROVE FileInv
  OBVIOUS
<1>1. file \in {"absent", "whole", "broken"}
  BY ExistsAssumption DEF Init
<1>2. crashes \in 0..MaxCrashes
  BY MaxCrashesAssumption DEF Init
<1>3. /\ pc \in [Requests -> Steps]
      /\ lock \in [Requests -> {"none", "shared", "exclusive"}]
      /\ seen \in [Requests -> SUBSET Writers]
      /\ answer \in [Requests -> {"none", "ok", "unavailable", "invalid", "failed"}]
  BY DEF Init, Steps
<1>4. TypeOK
  BY <1>1, <1>2, <1>3 DEF Init, TypeOK
<1>5. LocksFollow /\ Exclusion
  BY DEF Init, LocksFollow, LockOf, Exclusion
<1>6. OneOnLoop /\ NothingMissed /\ Editing
  BY DEF Init, OneOnLoop, OnLoop, NothingMissed, Editing
<1> QED
  BY <1>4, <1>5, <1>6 DEF FileInv

\* Types, request by request and for a crash.
LEMMA TypeServe ==
    ASSUME NEW p \in Requests, TypeOK, Editing, Serve(p)
    PROVE  TypeOK'
<1> USE DEF TypeOK, Goto, Reply
<1>1. CASE Start(p)
  BY <1>1 DEF Start, Steps
<1>2. CASE Touch(p)
  BY <1>2 DEF Touch, Steps
<1>3. CASE Lock(p)
  <2>1. Locked(p) \in Steps
    BY DEF Locked, Steps
  <2>2. Mode(p) \in {"none", "shared", "exclusive"}
    BY DEF Mode
  <2> QED
    BY <1>3, <2>1, <2>2 DEF Lock
<1>4. CASE TimeOut(p)
  <2>1. cut' \in BOOLEAN
    BY <1>4, Zenon DEF TimeOut
  <2> QED
    BY <1>4, <2>1 DEF TimeOut, Steps
<1>5. CASE LoadBroken(p)
  BY <1>5 DEF LoadBroken, Steps
<1>6. CASE Load(p)
  BY <1>6 DEF Load, Steps
<1>7. CASE Cut(p)
  BY <1>7 DEF Cut, Steps
<1>8. CASE Dump(p)
  <2>1. p \in Writers
    BY <1>8 DEF Dump, Editing
  <2> QED
    BY <1>8, <2>1 DEF Dump, Steps
<1>9. CASE DumpNew(p)
  BY <1>9 DEF DumpNew, Steps
<1>10. CASE DumpFails(p)
  BY <1>10 DEF DumpFails, Steps
<1> QED
  BY <1>1, <1>2, <1>3, <1>4, <1>5, <1>6, <1>7, <1>8, <1>9, <1>10 DEF Serve

\* The lock of a request follows its step, and the steps of the others are untouched.
LEMMA LocksServe ==
    ASSUME NEW p \in Requests, TypeOK, Editing, LocksFollow, Exclusion, Serve(p)
    PROVE  LocksFollow' /\ Exclusion'
<1> USE DEF TypeOK
<1>0. /\ pc' = [pc EXCEPT ![p] = pc'[p]]
      /\ lock' = [lock EXCEPT ![p] = lock'[p]]
  BY DEF Serve, Start, Touch, Lock, TimeOut, LoadBroken, Load, Cut, Dump, DumpNew,
         DumpFails, Goto, Reply
<1>1. \A q \in Requests \ {p} : pc'[q] = pc[q] /\ lock'[q] = lock[q]
  BY <1>0
<1>2. lock'[p] = LockOf(p)'
  <2>0. lock[p] = LockOf(p)
    BY DEF LocksFollow
  <2>1. CASE Start(p)
    BY <2>0, <2>1 DEF Start, Goto, LockOf
  <2>2. CASE Touch(p)
    BY <2>0, <2>2 DEF Touch, Goto, LockOf
  <2>3. CASE Lock(p)
    <3>1. pc[p] = "relock" => p \in Writers
      BY DEF Editing
    <3> QED
      BY <2>0, <2>3, <3>1 DEF Lock, Locking, Locked, Mode, Goto, LockOf
  <2>4. CASE TimeOut(p)
    BY <2>4 DEF TimeOut, Reply, Goto, LockOf
  <2>5. CASE LoadBroken(p)
    BY <2>5 DEF LoadBroken, Reply, Goto, LockOf
  <2>6. CASE Load(p)
    <3>1. CASE p \in Readers /\ Reply(p, "ok")
      BY <3>1 DEF Reply, Goto, LockOf
    <3>2. CASE p \in Updaters /\ Goto(p, "cut") /\ UNCHANGED <<lock, answer>>
      BY <2>0, <2>6, <3>2 DEF Load, Goto, LockOf
    <3>3. CASE lock' = [lock EXCEPT ![p] = "none"] /\ Goto(p, "relock")
      BY <3>3 DEF Goto, LockOf
    <3> QED
      BY <2>6, <3>1, <3>2, <3>3 DEF Load
  <2>7. CASE Cut(p)
    BY <2>0, <2>7 DEF Cut, Goto, LockOf
  <2>8. CASE Dump(p)
    BY <2>8 DEF Dump, Reply, Goto, LockOf
  <2>9. CASE DumpNew(p)
    BY <2>9 DEF DumpNew, Goto, LockOf
  <2>10. CASE DumpFails(p)
    BY <2>10 DEF DumpFails, Reply, Goto, LockOf
  <2> QED
    BY <2>1, <2>2, <2>3, <2>4, <2>5, <2>6, <2>7, <2>8, <2>9, <2>10 DEF Serve
<1>3. LocksFollow'
  BY <1>1, <1>2 DEF LocksFollow, LockOf
<1>4. Exclusion'
  <2>1. CASE Lock(p)
    <3>1. \A q \in Requests \ {p} :
              \/ lock[q] = "none"
              \/ lock[q] = "shared" /\ Mode(p) = "shared"
      <4>1. CanLock(p)
        BY <2>1 DEF Lock
      <4> QED
        BY <4>1 DEF CanLock
    <3>2. lock'[p] = Mode(p)
      BY <2>1 DEF Lock
    <3>3. \A q \in Requests \ {p} : lock[q] # "exclusive"
      BY <3>1
    <3>4. \A q \in Requests \ {p} : Mode(p) = "exclusive" => lock[q] = "none"
      BY <3>1
    <3> QED
      BY <1>1, <3>2, <3>3, <3>4 DEF Exclusion
  <2>2. CASE ~Lock(p)
    <3>1. lock'[p] \in {lock[p], "none"}
      BY <2>2 DEF Serve, Start, Touch, TimeOut, LoadBroken, Load, Cut, Dump, DumpNew,
                  DumpFails, Goto, Reply
    <3> QED
      BY <1>1, <3>1 DEF Exclusion
  <2> QED
    BY <2>1, <2>2
<1> QED
  BY <1>3, <1>4

\* Whoever is about to write has read every edit: an updater because it holds the lock
\* from its read on, a saver because the event loop runs no other.
LEMMA DataServe ==
    ASSUME NEW p \in Requests, FileInv, Serve(p), LocksFollow'
    PROVE  OneOnLoop' /\ NothingMissed' /\ Editing'
<1> USE DEF FileInv, TypeOK
<1>0. pc' = [pc EXCEPT ![p] = pc'[p]]
  BY DEF Serve, Start, Touch, Lock, TimeOut, LoadBroken, Load, Cut, Dump, DumpNew,
         DumpFails, Goto, Reply
<1>1. \A q \in Requests \ {p} : pc'[q] = pc[q]
  BY <1>0
<1>2. OneOnLoop'
  <2>1. CASE Lock(p) /\ pc[p] = "read"
    <3>1. p \in Savers => \A q \in Savers : ~OnLoop(q)
      BY <2>1 DEF Lock, Locking, LoopFree
    <3> QED
      BY <1>1, <3>1 DEF OneOnLoop, OnLoop
  <2>2. CASE ~(Lock(p) /\ pc[p] = "read")
    <3>1. OnLoop(p)' => OnLoop(p)
      BY <2>2 DEF Serve, Start, Touch, Lock, Locking, Locked, TimeOut, LoadBroken, Load,
                  Cut, Dump, DumpNew, DumpFails, Goto, Reply, OnLoop
    <3>2. \A q \in Requests : OnLoop(q)' => OnLoop(q)
      BY <1>1, <3>1 DEF OnLoop
    <3> QED
      BY <3>2 DEF OneOnLoop
  <2> QED
    BY <2>1, <2>2
<1>3. Editing'
  <2>1. /\ pc'[p] \in {"relock", "cut", "dump"} => p \in Writers
        /\ pc'[p] = "relock" => p \in Savers
    <3>1. CASE Load(p)
      BY <3>1 DEF Load, Goto, Reply, Writers
    <3>2. CASE ~Load(p)
      <4>1. /\ pc'[p] \in {"relock", "cut", "dump"} => pc[p] \in {"relock", "cut", "dump"}
            /\ pc'[p] = "relock" => pc[p] = "relock"
        BY <3>2 DEF Serve, Start, Touch, Lock, Locking, Locked, TimeOut, LoadBroken,
                    Cut, Dump, DumpNew, DumpFails, Goto, Reply
      <4> QED
        BY <4>1 DEF Editing
    <3> QED
      BY <3>1, <3>2
  <2> QED
    BY <1>1, <2>1 DEF Editing
<1>4. NothingMissed'
  <2>1. CASE Load(p)
    <3>1. marks' = marks /\ seen' = [seen EXCEPT ![p] = marks]
      BY <2>1 DEF Load
    <3> QED
      BY <1>1, <3>1 DEF NothingMissed
  <2>2. CASE Dump(p)
    <3>1. pc[p] = "dump" /\ seen' = seen /\ pc'[p] = "done"
      BY <2>2 DEF Dump, Reply, Goto
    <3>2. p \in Writers /\ lock[p] = "exclusive"
      BY <3>1 DEF Editing, LocksFollow, LockOf
    <3>3. ASSUME NEW q \in Requests \ {p}, pc[q] \in {"relock", "cut", "dump"}
          PROVE  FALSE
      <4>1. q \in Writers
        BY <3>3 DEF Editing
      <4>2. CASE q \in Updaters
        <5>1. pc[q] # "relock" => lock[q] = "exclusive"
          BY <3>3 DEF LocksFollow, LockOf
        <5>2. CASE pc[q] = "relock"
          BY <4>2, <5>2, KindsAssumption DEF Editing
        <5> QED
          BY <3>2, <5>1, <5>2 DEF Exclusion
      <4>3. CASE q \in Savers /\ p \in Savers
        BY <3>1, <3>3, <4>3 DEF OneOnLoop, OnLoop
      <4> QED
        BY <3>2, <4>1, <4>2, <4>3, KindsAssumption DEF Writers
    <3> QED
      BY <1>1, <3>1, <3>3 DEF NothingMissed
  <2>3. CASE DumpNew(p)
    BY <1>1, <2>3 DEF DumpNew, Goto, NothingMissed
  <2>4. CASE ~Load(p) /\ ~Dump(p) /\ ~DumpNew(p)
    <3>1. marks' = marks /\ seen' = seen
      BY <2>4 DEF Serve, Start, Touch, Lock, TimeOut, LoadBroken, Cut, DumpFails
    <3>2. pc'[p] \in {"relock", "cut", "dump"} => pc[p] \in {"relock", "cut", "dump"}
      BY <2>4 DEF Serve, Start, Touch, Lock, Locking, Locked, TimeOut, LoadBroken,
                  Cut, DumpFails, Goto, Reply
    <3> QED
      BY <1>1, <3>1, <3>2 DEF NothingMissed
  <2> QED
    BY <2>1, <2>2, <2>3, <2>4
<1> QED
  BY <1>2, <1>3, <1>4

LEMMA FileInvStep == FileInv /\ [Next]_vars => FileInv'
<1> SUFFICES ASSUME FileInv, [Next]_vars PROVE FileInv'
  OBVIOUS
<1>1. ASSUME NEW p \in Requests, Serve(p) PROVE FileInv'
  <2>1. TypeOK'
    BY <1>1, TypeServe DEF FileInv
  <2>2. LocksFollow' /\ Exclusion'
    BY <1>1, LocksServe DEF FileInv
  <2>3. OneOnLoop' /\ NothingMissed' /\ Editing'
    BY <1>1, <2>2, DataServe
  <2> QED
    BY <2>1, <2>2, <2>3 DEF FileInv
<1>2. CASE Crash
  <2>1. cut' \in BOOLEAN
    BY <1>2, Zenon DEF Crash
  <2>2. crashes' \in 0..MaxCrashes
    BY <1>2, MaxCrashesAssumption DEF Crash, FileInv, TypeOK
  <2>3. /\ pc' \in [Requests -> Steps]
        /\ lock' \in [Requests -> {"none", "shared", "exclusive"}]
    BY <1>2 DEF Crash, Steps
  <2>4. TypeOK'
    BY <1>2, <2>1, <2>2, <2>3 DEF Crash, FileInv, TypeOK
  <2>5. \A p \in Requests : pc'[p] \in {"start", "done"} /\ lock'[p] = "none"
    BY <1>2 DEF Crash
  <2>6. LocksFollow' /\ Exclusion'
    BY <2>5 DEF LocksFollow, LockOf, Exclusion
  <2>7. OneOnLoop' /\ NothingMissed' /\ Editing'
    BY <2>5 DEF OneOnLoop, OnLoop, NothingMissed, Editing, Requests, Writers
  <2> QED
    BY <2>4, <2>6, <2>7 DEF FileInv
<1>3. CASE UNCHANGED vars
  BY <1>3 DEF vars, FileInv, TypeOK, LocksFollow, LockOf, Exclusion, OneOnLoop, OnLoop,
              NothingMissed, Editing
<1> QED
  BY <1>1, <1>2, <1>3 DEF Next

-----------------------------------------------------------------------------
(* What follows from it.                                                     *)

\* Every state of every instance is of the types the model gives it.
THEOREM TypeCorrect == Spec => []TypeOK
<1>1. Init => FileInv
  BY FileInvInit
<1>2. FileInv /\ [Next]_vars => FileInv'
  BY FileInvStep
<1>3. FileInv => TypeOK
  BY DEF FileInv
<1> QED
  BY <1>1, <1>2, <1>3, PTL DEF Spec

\* Every way out of a request of file_lock.py releases its lock, for any number of
\* requests of every kind.
THEOREM LocksAreReleased == Spec => []LocksReleased
<1>1. Init => FileInv
  BY FileInvInit
<1>2. FileInv /\ [Next]_vars => FileInv'
  BY FileInvStep
<1>3. FileInv => LocksReleased
  BY DEF FileInv, LocksFollow, LockOf, LocksReleased
<1> QED
  BY <1>1, <1>2, <1>3, PTL DEF Spec

\* Only the creation of the file loses edits; an update is never written over
\* another, whether the file existed to begin with or not.
THEOREM UpdatesAccumulate == Spec => OnlyCreationLoses
<1> DEFINE Step == marks \subseteq marks' \/ \E p \in Requests : DumpNew(p)
<1>1. Init => FileInv
  BY FileInvInit
<1>2. FileInv /\ [Next]_vars => FileInv'
  BY FileInvStep
<1>3. FileInv /\ [Next]_vars => [Step]_marks
  <2> SUFFICES ASSUME FileInv, [Next]_vars PROVE Step \/ UNCHANGED marks
    OBVIOUS
  <2>1. ASSUME NEW p \in Requests, Dump(p) PROVE marks \subseteq marks'
    BY <2>1 DEF Dump, FileInv, NothingMissed
  <2>2. ASSUME NEW p \in Requests, Serve(p), ~Dump(p), ~DumpNew(p) PROVE UNCHANGED marks
    BY <2>2 DEF Serve, Start, Touch, Lock, TimeOut, LoadBroken, Load, Cut, DumpFails
  <2>3. Crash => UNCHANGED marks
    BY DEF Crash
  <2> QED
    BY <2>1, <2>2, <2>3 DEF Next, vars
<1> HIDE DEF Step
<1>4. Spec => [][Step]_marks
  BY <1>1, <1>2, <1>3, PTL DEF Spec
<1> QED
  BY <1>4 DEF Step, OnlyCreationLoses

-----------------------------------------------------------------------------
(* When the file exists to begin with.                                       *)

LEMMA KeptInvInit == Exists /\ Init => KeptInv
  BY DEF Init, KeptInv, NeverCreated, BrokenByDump, NoTornRead, Requests, Writers

LEMMA KeptInvStep == FileInv /\ KeptInv /\ FileInv' /\ [Next]_vars => KeptInv'
<1> SUFFICES ASSUME FileInv, KeptInv, FileInv', [Next]_vars PROVE KeptInv'
  OBVIOUS
<1> USE DEF KeptInv
<1>1. ASSUME NEW p \in Requests, Serve(p) PROVE KeptInv'
  <2> USE <1>1 DEF FileInv, TypeOK
  <2>0. pc' = [pc EXCEPT ![p] = pc'[p]]
    BY DEF Serve, Start, Touch, Lock, TimeOut, LoadBroken, Load, Cut, Dump, DumpNew,
           DumpFails, Goto, Reply
  <2>1. \A q \in Requests \ {p} : pc'[q] = pc[q]
    BY <2>0
  <2>2. NeverCreated'
    <3>1. ~Touch(p) /\ ~DumpNew(p)
      BY DEF NeverCreated, Touch, DumpNew
    <3>2. file' # "absent"
      BY <3>1 DEF NeverCreated, Serve, Start, Lock, TimeOut, LoadBroken, Load, Cut, Dump,
                  DumpFails
    <3>3. pc'[p] \notin {"touch_new", "lock_new", "cut_new", "dump_new"}
      BY <3>1 DEF NeverCreated, Serve, Start, Lock, Locked, TimeOut, LoadBroken, Load, Cut,
                  Dump, DumpFails, Goto, Reply
    <3> QED
      BY <2>1, <3>2, <3>3 DEF NeverCreated
  <2>3. cut => cut'
    BY Zenon DEF Serve, Start, Touch, Lock, TimeOut, LoadBroken, Load, Cut, Dump, DumpNew,
                 DumpFails
  <2>4. BrokenByDump'
    <3>1. CASE Cut(p)
      <4>1. pc[p] = "cut"
        BY <3>1 DEF Cut, NeverCreated
      <4> QED
        BY <3>1, <4>1 DEF Cut, Goto, BrokenByDump
    <3>2. CASE Dump(p)
      BY <3>2 DEF Dump, BrokenByDump
    <3>3. CASE DumpFails(p)
      BY <3>3 DEF DumpFails, BrokenByDump
    <3>4. CASE ~Cut(p) /\ ~Dump(p) /\ ~DumpFails(p)
      <4>1. ~Touch(p) /\ ~DumpNew(p)
        BY DEF NeverCreated, Touch, DumpNew
      <4>2. file' = file /\ pc[p] # "dump"
        BY <3>4, <4>1 DEF Serve, Start, Lock, Locking, TimeOut, LoadBroken, Load
      <4> QED
        BY <2>1, <2>3, <4>2 DEF BrokenByDump
    <3> QED
      BY <3>1, <3>2, <3>3, <3>4
  <2>5. NoTornRead'
    <3>1. CASE LoadBroken(p)
      <4>1. file = "broken" /\ lock[p] # "none"
        BY <3>1 DEF LoadBroken, NeverCreated, LocksFollow, LockOf
      <4>2. \A q \in Requests : pc[q] # "dump"
        BY <3>1, <4>1 DEF LoadBroken, LocksFollow, LockOf, Exclusion
      <4> QED
        BY <2>3, <4>1, <4>2 DEF BrokenByDump, NoTornRead
    <3>2. CASE ~LoadBroken(p)
      <4>1. \A q \in Requests : answer'[q] = "invalid" => answer[q] = "invalid"
        BY <3>2 DEF Serve, Start, Touch, Lock, TimeOut, Load, Cut, Dump, DumpNew,
                    DumpFails, Reply
      <4> QED
        BY <2>3, <4>1 DEF NoTornRead
    <3> QED
      BY <3>1, <3>2
  <2>6. \A q \in Writers : answer'[q] = "ok" => q \in marks'
    <3>1. CASE Dump(p)
      <4>1. marks' = seen[p] \cup {p} /\ marks \subseteq seen[p]
        BY <3>1 DEF Dump, NothingMissed
      <4>2. \A q \in Requests \ {p} : answer'[q] = answer[q]
        BY <3>1 DEF Dump, Reply
      <4> QED
        BY <4>1, <4>2 DEF Requests
    <3>2. CASE ~Dump(p)
      <4>1. ~DumpNew(p)
        BY DEF NeverCreated, DumpNew
      <4>2. marks' = marks
        BY <3>2, <4>1 DEF Serve, Start, Touch, Lock, TimeOut, LoadBroken, Load, Cut,
                          DumpFails
      <4>3. \A q \in Writers : answer'[q] = "ok" => answer[q] = "ok"
        <5>1. CASE Load(p)
          BY <5>1, KindsAssumption DEF Load, Reply, Requests, Writers
        <5>2. CASE ~Load(p)
          BY <3>2, <4>1, <5>2 DEF Serve, Start, Touch, Lock, TimeOut, LoadBroken, Cut,
                                  DumpFails, Reply, Requests
        <5> QED
          BY <5>1, <5>2
      <4> QED
        BY <4>2, <4>3
    <3> QED
      BY <3>1, <3>2
  <2> QED
    BY <2>2, <2>4, <2>5, <2>6
<1>2. CASE Crash
  <2>1. NeverCreated'
    BY <1>2 DEF Crash, NeverCreated
  <2>2. (cut => cut') /\ (file = "broken" => cut')
    BY <1>2, Zenon DEF Crash
  <2>3. BrokenByDump' /\ NoTornRead'
    BY <1>2, <2>2 DEF Crash, BrokenByDump, NoTornRead
  <2> QED
    BY <1>2, <2>1, <2>3 DEF Crash
<1>3. CASE UNCHANGED vars
  BY <1>3 DEF vars, NeverCreated, BrokenByDump, NoTornRead
<1> QED
  BY <1>1, <1>2, <1>3 DEF Next

\* An edit that was acknowledged is in the file from then on: the locks of
\* file_lock.py and the event loop are enough, whatever the number of requests, once
\* the file exists.
THEOREM AcknowledgedEditsKept == ASSUME Exists PROVE Spec => []AcknowledgedKept
<1>1. Init => FileInv /\ KeptInv
  BY Exists, FileInvInit, KeptInvInit
<1>2. FileInv /\ KeptInv /\ [Next]_vars => (FileInv /\ KeptInv)'
  BY FileInvStep, KeptInvStep
<1>3. KeptInv => AcknowledgedKept
  BY DEF KeptInv, AcknowledgedKept
<1> QED
  BY <1>1, <1>2, <1>3, PTL DEF Spec

\* No request sees a rewrite under way: only one that was given up, or fell to a
\* crash, leaves a file that does not parse.
THEOREM ReadsAreWhole == ASSUME Exists PROVE Spec => []NoTornRead
<1>1. Init => FileInv /\ KeptInv
  BY Exists, FileInvInit, KeptInvInit
<1>2. FileInv /\ KeptInv /\ [Next]_vars => (FileInv /\ KeptInv)'
  BY FileInvStep, KeptInvStep
<1>3. KeptInv => NoTornRead
  BY DEF KeptInv
<1> QED
  BY <1>1, <1>2, <1>3, PTL DEF Spec

-----------------------------------------------------------------------------
(* The figures of a company.                                                 *)

\* The request has looked at the file.
Past(r) == step[r] \in {"fetch", "save", "dump"}

FiguresType ==
    /\ stored \in Figures!Snapshots /\ torn \in BOOLEAN
    /\ step \in [Askers -> {"idle", "load", "fetch", "save", "dump"}]
    /\ cached \in [Askers -> Figures!Snapshots]
    /\ made \in [Askers -> Figures!Snapshots]
    /\ disturbed \in [Askers -> BOOLEAN]
    /\ forced \in [Askers -> BOOLEAN]

\* While a request is left alone the file is whole, but for its own dump, and what the
\* request loaded is what is stored, grown as old.
Unmoved ==
    \A r \in Askers : ~disturbed[r] =>
        /\ step[r] \in {"load", "fetch", "save"} => ~torn
        /\ Past(r) => cached[r] = stored

\* What a request will store: figures not older than what it loaded, or an error when
\* it loaded nothing.
Making ==
    \A r \in Askers : step[r] \in {"save", "dump"} =>
        \/ made[r].kind = "figures" /\ made[r].age <= cached[r].age
        \/ cached[r] = Figures!None

\* One request dumps at a time, and has cut the file.
DumpedAlone ==
    \A r \in Askers : step[r] = "dump" =>
        torn /\ \A q \in Askers : step[q] = "dump" => q = r

FiguresInv == FiguresType /\ Unmoved /\ Making /\ DumpedAlone

\* How snapshots grow old.
LEMMA Ageing ==
    /\ \A s \in Figures!Snapshots :
           s.age \in Nat /\ Figures!Older(s) \in Figures!Snapshots
    /\ \A s \in Figures!Snapshots : Figures!Older(s).kind = s.kind
    /\ \A s, t \in Figures!Snapshots :
           s.age <= t.age => Figures!Older(s).age <= Figures!Older(t).age
    /\ Figures!None \in Figures!Snapshots
    /\ Figures!Older(Figures!None) = Figures!None
<1> USE FiguresAssumption DEF Figures!Old
<1>1. Figures!None \in Figures!Snapshots /\ Figures!None.age = Ttl + 1
  BY DEF Figures!Snapshots, Figures!None
<1>2. ASSUME NEW s \in Figures!Snapshots
      PROVE  /\ s = [kind |-> s.kind, age |-> s.age] /\ s.age \in 0..(Ttl + 1)
             /\ s = Figures!None \/ s.kind \in {"figures", "error", "legacy"}
  BY DEF Figures!Snapshots, Figures!None
<1>3. ASSUME NEW s \in Figures!Snapshots
      PROVE  Figures!Older(s) =
                 [kind |-> s.kind, age |-> IF s.age < Ttl + 1 THEN s.age + 1 ELSE s.age]
  BY <1>2 DEF Figures!Older
<1>4. Figures!Older(Figures!None) = Figures!None
  BY <1>1 DEF Figures!Older
<1>5. ASSUME NEW s \in Figures!Snapshots
      PROVE  Figures!Older(s) \in Figures!Snapshots
  <2>1. CASE s = Figures!None
    BY <1>1, <1>4, <2>1
  <2>2. CASE s.kind \in {"figures", "error", "legacy"}
    <3>1. (IF s.age < Ttl + 1 THEN s.age + 1 ELSE s.age) \in 0..(Ttl + 1)
      BY <1>2
    <3> QED
      BY <1>3, <2>2, <3>1 DEF Figures!Snapshots
  <2> QED
    BY <1>2, <2>1, <2>2
<1>6. ASSUME NEW s \in Figures!Snapshots, NEW t \in Figures!Snapshots, s.age <= t.age
      PROVE  Figures!Older(s).age <= Figures!Older(t).age
  BY <1>2, <1>3, <1>6
<1> QED
  BY <1>1, <1>2, <1>3, <1>4, <1>5, <1>6

LEMMA FiguresStart == Figures!Init => FiguresInv
<1> SUFFICES ASSUME Figures!Init PROVE FiguresInv
  OBVIOUS
<1> USE Ageing
<1>1. FiguresType
  BY DEF Figures!Init, FiguresType
<1> QED
  BY <1>1 DEF Figures!Init, FiguresInv, Unmoved, Past, Making, DumpedAlone

\* A request ends.
LEMMA FiguresEnd ==
    ASSUME FiguresInv, NEW r \in Askers, Figures!End(r)
    PROVE  /\ step' = [step EXCEPT ![r] = "idle"]
           /\ step' \in [Askers -> {"idle", "load", "fetch", "save", "dump"}]
           /\ cached' \in [Askers -> Figures!Snapshots]
           /\ made' \in [Askers -> Figures!Snapshots]
           /\ forced' \in [Askers -> BOOLEAN]
           /\ \A q \in Askers \ {r} : cached'[q] = cached[q] /\ made'[q] = made[q]
BY Ageing DEF Figures!End, Figures!Goto, FiguresInv, FiguresType

LEMMA FiguresStep == FiguresInv /\ [Figures!Next]_(Figures!vars) => FiguresInv'
<1> SUFFICES ASSUME FiguresInv, [Figures!Next]_(Figures!vars) PROVE FiguresInv'
  OBVIOUS
<1> USE Ageing
<1>0. FiguresType /\ Unmoved /\ Making /\ DumpedAlone
  BY DEF FiguresInv
<1>1. CASE Figures!Crash
  BY <1>0, <1>1
  DEF Figures!Crash, FiguresInv, FiguresType, Unmoved, Past, Making, DumpedAlone
<1>2. CASE Figures!Tick
  <2>1. /\ stored' = Figures!Older(stored) /\ torn' = torn /\ step' = step
        /\ forced' = forced /\ disturbed' = disturbed
        /\ \A r \in Askers : /\ made'[r] = Figures!Older(made[r])
                             /\ cached'[r] = Figures!Older(cached[r])
    BY <1>2 DEF Figures!Tick
  <2>2. FiguresType'
    BY <1>0, <1>2 DEF Figures!Tick, FiguresType
  <2>3. Unmoved' /\ DumpedAlone'
    BY <1>0, <2>1 DEF Unmoved, Past, DumpedAlone
  <2>4. Making'
    <3> SUFFICES ASSUME NEW r \in Askers, step[r] \in {"save", "dump"}
                 PROVE  \/ made'[r].kind = "figures" /\ made'[r].age <= cached'[r].age
                        \/ cached'[r] = Figures!None
      BY <2>1 DEF Making
    <3>1. made[r] \in Figures!Snapshots /\ cached[r] \in Figures!Snapshots
      BY <1>0 DEF FiguresType
    <3> QED
      BY <1>0, <2>1, <3>1 DEF Making
  <2> QED
    BY <2>2, <2>3, <2>4 DEF FiguresInv
<1>3. ASSUME NEW r \in Askers, NEW force \in BOOLEAN, Figures!Ask(r, force)
      PROVE  FiguresInv'
  <2>1. /\ step' = [step EXCEPT ![r] = "load"]
        /\ disturbed' = [disturbed EXCEPT ![r] = torn]
        /\ forced' = [forced EXCEPT ![r] = force]
        /\ UNCHANGED <<stored, torn, cached, made>>
    BY <1>3 DEF Figures!Ask, Figures!Goto
  <2>2. FiguresType'
    BY <1>0, <2>1 DEF FiguresType
  <2>3. \A q \in Askers : /\ step'[q] = IF q = r THEN "load" ELSE step[q]
                          /\ disturbed'[q] = IF q = r THEN torn ELSE disturbed[q]
    BY <1>0, <2>1 DEF FiguresType
  <2> QED
    BY <1>0, <2>1, <2>2, <2>3 DEF FiguresInv, Unmoved, Past, Making, DumpedAlone
<1>4. ASSUME NEW r \in Askers, Figures!Load(r) PROVE FiguresInv'
  <2>0. step[r] = "load" /\ UNCHANGED <<stored, torn, disturbed>>
    BY <1>4 DEF Figures!Load
  <2>1. CASE Figures!End(r)
    <3>1. \A q \in Askers : step'[q] = IF q = r THEN "idle" ELSE step[q]
      BY <1>0, <2>1, FiguresEnd DEF FiguresType
    <3>2. FiguresType'
      BY <1>0, <2>0, <2>1, FiguresEnd DEF FiguresType
    <3>3. \A q \in Askers \ {r} : cached'[q] = cached[q] /\ made'[q] = made[q]
      BY <2>1, FiguresEnd
    <3> QED
      BY <1>0, <2>0, <3>1, <3>2, <3>3 DEF FiguresInv, Unmoved, Past, Making, DumpedAlone
  <2>2. CASE /\ cached' = [cached EXCEPT ![r] = Figures!Loaded]
             /\ Figures!Goto(r, "fetch") /\ UNCHANGED <<forced, made>>
    <3>1. Figures!Loaded \in Figures!Snapshots /\ (~torn => Figures!Loaded = stored)
      BY <1>0 DEF Figures!Loaded, FiguresType
    <3>2. FiguresType'
      BY <1>0, <2>0, <2>2, <3>1 DEF FiguresType, Figures!Goto
    <3>3. \A q \in Askers : /\ step'[q] = IF q = r THEN "fetch" ELSE step[q]
                            /\ cached'[q] = IF q = r THEN Figures!Loaded ELSE cached[q]
      BY <1>0, <2>2 DEF FiguresType, Figures!Goto
    <3> QED
      BY <1>0, <2>0, <2>2, <3>1, <3>2, <3>3
      DEF FiguresInv, Unmoved, Past, Making, DumpedAlone
  <2> QED
    BY <1>4, <2>1, <2>2 DEF Figures!Load
<1>5. ASSUME NEW r \in Askers, Figures!LoadTimesOut(r) PROVE FiguresInv'
  <2>1. /\ step[r] = "load" /\ step' = [step EXCEPT ![r] = "fetch"]
        /\ UNCHANGED <<stored, torn, forced, cached, made, disturbed>>
        /\ \E q \in Askers : step[q] = "dump"
    BY <1>5 DEF Figures!LoadTimesOut, Figures!Goto, Figures!Locked
  <2>2. FiguresType'
    BY <1>0, <2>1 DEF FiguresType
  <2>3. \A q \in Askers : step'[q] = IF q = r THEN "fetch" ELSE step[q]
    BY <1>0, <2>1 DEF FiguresType
  <2>4. disturbed[r]
    BY <1>0, <2>1 DEF Unmoved, DumpedAlone
  <2> QED
    BY <1>0, <2>1, <2>2, <2>3, <2>4 DEF FiguresInv, Unmoved, Past, Making, DumpedAlone
<1>6. ASSUME NEW r \in Askers, Figures!Fetch(r) PROVE FiguresInv'
  <2> DEFINE fresh == [kind |-> "figures", age |-> 0]
  <2>1. /\ step[r] = "fetch" /\ step' = [step EXCEPT ![r] = "save"]
        /\ made' = [made EXCEPT ![r] = fresh]
        /\ UNCHANGED <<stored, torn, forced, cached, disturbed>>
    BY <1>6 DEF Figures!Fetch, Figures!Goto
  <2>2. fresh \in Figures!Snapshots
    BY FiguresAssumption DEF Figures!Snapshots, Figures!Old
  <2>3. fresh.kind = "figures" /\ fresh.age <= cached[r].age
    BY <1>0 DEF FiguresType
  <2> HIDE DEF fresh
  <2>4. FiguresType'
    BY <1>0, <2>1, <2>2 DEF FiguresType
  <2>5. \A q \in Askers : /\ step'[q] = IF q = r THEN "save" ELSE step[q]
                          /\ made'[q] = IF q = r THEN fresh ELSE made[q]
    BY <1>0, <2>1 DEF FiguresType
  <2> QED
    BY <1>0, <2>1, <2>3, <2>4, <2>5 DEF FiguresInv, Unmoved, Past, Making, DumpedAlone
<1>7. ASSUME NEW r \in Askers, Figures!FetchFails(r) PROVE FiguresInv'
  <2>0. step[r] = "fetch" /\ UNCHANGED <<stored, torn, disturbed>>
    BY <1>7 DEF Figures!FetchFails
  <2>1. CASE Figures!End(r)
    <3>1. \A q \in Askers : step'[q] = IF q = r THEN "idle" ELSE step[q]
      BY <1>0, <2>1, FiguresEnd DEF FiguresType
    <3>2. FiguresType'
      BY <1>0, <2>0, <2>1, FiguresEnd DEF FiguresType
    <3>3. \A q \in Askers \ {r} : cached'[q] = cached[q] /\ made'[q] = made[q]
      BY <2>1, FiguresEnd
    <3> QED
      BY <1>0, <2>0, <3>1, <3>2, <3>3 DEF FiguresInv, Unmoved, Past, Making, DumpedAlone
  <2>2. CASE ~ Figures!End(r)
    <3> DEFINE wrong == [kind |-> "error", age |-> 0]
    <3>1. /\ cached[r] = Figures!None
          /\ made' = [made EXCEPT ![r] = wrong]
          /\ step' = [step EXCEPT ![r] = "save"]
          /\ UNCHANGED <<forced, cached>>
      BY <1>7, <2>2 DEF Figures!FetchFails, Figures!Goto
    <3>2. wrong \in Figures!Snapshots
      BY FiguresAssumption DEF Figures!Snapshots, Figures!Old
    <3> HIDE DEF wrong
    <3>3. FiguresType'
      BY <1>0, <2>0, <3>1, <3>2 DEF FiguresType
    <3>4. \A q \in Askers : /\ step'[q] = IF q = r THEN "save" ELSE step[q]
                            /\ made'[q] = IF q = r THEN wrong ELSE made[q]
      BY <1>0, <3>1 DEF FiguresType
    <3> QED
      BY <1>0, <2>0, <3>1, <3>3, <3>4 DEF FiguresInv, Unmoved, Past, Making, DumpedAlone
  <2> QED
    BY <2>1, <2>2
<1>8. ASSUME NEW r \in Askers, Figures!Open(r) PROVE FiguresInv'
  <2>1. /\ step[r] = "save" /\ step' = [step EXCEPT ![r] = "dump"]
        /\ torn' = TRUE
        /\ disturbed' = [q \in Askers |-> disturbed[q] \/ (q # r /\ step[q] # "idle")]
        /\ \A q \in Askers : step[q] # "dump"
        /\ UNCHANGED <<stored, forced, cached, made>>
    BY <1>8 DEF Figures!Open, Figures!Goto, Figures!Locked
  <2>2. FiguresType'
    BY <1>0, <2>1 DEF FiguresType
  <2>3. \A q \in Askers :
          /\ step'[q] = IF q = r THEN "dump" ELSE step[q]
          /\ disturbed'[q] = (disturbed[q] \/ (q # r /\ step[q] # "idle"))
    BY <1>0, <2>1 DEF FiguresType
  <2>4. \A q \in Askers :
          ~(disturbed'[q]) => ~disturbed[q] /\ (q = r \/ step[q] = "idle")
    BY <2>3, Zenon
  <2>5. Unmoved'
    BY <1>0, <2>1, <2>3, <2>4 DEF Unmoved, Past
  <2>6. Making' /\ DumpedAlone'
    BY <1>0, <2>1, <2>3 DEF Making, DumpedAlone
  <2> QED
    BY <2>2, <2>5, <2>6 DEF FiguresInv
<1>9. ASSUME NEW r \in Askers,
             Figures!SaveTimesOut(r) \/ Figures!DumpFails(r) \/ Figures!Dump(r)
      PROVE  FiguresInv'
  <2>1. Figures!End(r)
    BY <1>9 DEF Figures!SaveTimesOut, Figures!DumpFails, Figures!Dump
  <2>2. \A q \in Askers : step'[q] = IF q = r THEN "idle" ELSE step[q]
    BY <1>0, <2>1, FiguresEnd DEF FiguresType
  <2>3. \A q \in Askers \ {r} : cached'[q] = cached[q] /\ made'[q] = made[q]
    BY <2>1, FiguresEnd
  <2>4. CASE UNCHANGED <<stored, torn, disturbed>>
    <3>1. FiguresType'
      BY <1>0, <2>1, <2>4, FiguresEnd DEF FiguresType
    <3> QED
      BY <1>0, <2>2, <2>3, <2>4, <3>1 DEF FiguresInv, Unmoved, Past, Making, DumpedAlone
  <2>5. CASE Figures!Dump(r)
    <3>1. /\ step[r] = "dump" /\ stored' = made[r] /\ torn' = FALSE
          /\ disturbed' = [q \in Askers |-> disturbed[q] \/ (q # r /\ step[q] # "idle")]
      BY <2>5 DEF Figures!Dump
    <3>2. FiguresType'
      BY <1>0, <2>1, <3>1, FiguresEnd DEF FiguresType
    <3>3. \A q \in Askers :
            disturbed'[q] = (disturbed[q] \/ (q # r /\ step[q] # "idle"))
      BY <3>1
    <3> QED
      BY <1>0, <2>2, <2>3, <3>1, <3>2, <3>3
      DEF FiguresInv, Unmoved, Past, Making, DumpedAlone
  <2> QED
    BY <1>9, <2>4, <2>5 DEF Figures!SaveTimesOut, Figures!DumpFails
<1>10. CASE UNCHANGED Figures!vars
  BY <1>0, <1>10
  DEF Figures!vars, FiguresInv, FiguresType, Unmoved, Past, Making, DumpedAlone
<1> QED
  BY <1>1, <1>2, <1>3, <1>4, <1>5, <1>6, <1>7, <1>8, <1>9, <1>10
  DEF Figures!Next, Figures!Serve

\* Whatever is asked for and whichever provider fails, save_snapshot puts no error and
\* no older figures in the place of figures, unless the file was cut, written or locked
\* while the request was in progress.
THEOREM FiguresStay == Figures!Spec => FiguresKept
<1> DEFINE Kept == \A r \in Askers :
                       Figures!Dump(r) /\ ~disturbed[r] /\ Figures!Told(stored) =>
                           Figures!Told(stored') /\ stored'.age <= stored.age
<1>1. FiguresInv /\ [Figures!Next]_(Figures!vars) => [Kept]_(Figures!vars)
  <2> SUFFICES ASSUME FiguresInv, NEW r \in Askers, Figures!Dump(r), ~disturbed[r],
                      Figures!Told(stored)
               PROVE  Figures!Told(stored') /\ stored'.age <= stored.age
    OBVIOUS
  <2>1. step[r] = "dump" /\ stored' = made[r]
    BY DEF Figures!Dump
  <2>2. cached[r] = stored
    BY <2>1 DEF FiguresInv, Unmoved, Past
  <2>3. stored # Figures!None
    BY DEF Figures!Told, Figures!None
  <2> QED
    BY <2>1, <2>2, <2>3 DEF FiguresInv, Making, Figures!Told
<1> HIDE DEF Kept
<1>2. Figures!Spec => [][Kept]_(Figures!vars)
  BY <1>1, FiguresStart, FiguresStep, PTL DEF Figures!Spec
<1> QED
  BY <1>2 DEF Kept, FiguresKept, Figures!FiguresKept

=============================================================================
