---------------------------- MODULE Fundamentals ----------------------------
(* The stored snapshot of one company (src/swing_screener/fundamentals/      *)
(* service.py and storage.py).                                               *)
(*                                                                           *)
(* A request loads the snapshot and answers with it while it is young.       *)
(* Otherwise it asks the providers, one after the other; what they tell is   *)
(* stored, and when none of them answers the request falls back on what it   *)
(* loaded, or stores that nothing could be learnt.  Requests run in the      *)
(* thread pool, each load and each save under a lock of its own.  A file     *)
(* that cannot be read, for whatever reason, counts as none.                 *)
EXTENDS Integers

CONSTANTS
    Askers,             \* requests in progress at once
    Ttl,                \* cache_ttl_hours: the age up to which a snapshot is young
    MaxMishaps          \* bound: crashes, failing dumps and timeouts of the lock

VARIABLES
    stored,             \* the snapshot last dumped, with its age
    torn,               \* whether the file was cut since
    pc,                 \* pc[r]: the next step of a request
    forced,             \* forced[r]: it was asked to refresh
    cached,             \* cached[r]: what it loaded
    made,               \* made[r]: what it will store
    disturbed,          \* disturbed[r]: the file was not whole and left alone meanwhile
    mishaps

vars == <<stored, torn, pc, forced, cached, made, disturbed, mishaps>>

-----------------------------------------------------------------------------
\* Ages beyond the last young one are alike.
Old == Ttl + 1

None == [kind |-> "none", age |-> Old]

\* "error": no provider answered.  "legacy": figures from before it was recorded how
\* far they can be trusted.
Snapshots == {None} \cup [kind : {"figures", "error", "legacy"}, age : 0..Old]

Told(s) == s.kind \in {"figures", "legacy"}

\* locked_write_json_cli holds the lock while it dumps.
Locked == \E r \in Askers : pc[r] = "dump"

\* A faulty form: what is loaded when it is not young is forgotten.
Loaded_Young == IF torn \/ stored.age > Ttl THEN None ELSE stored

\* load_snapshot
Loaded == IF torn THEN None ELSE stored

\* A faulty form: a snapshot that says nothing of its age is always young.
Reusable_Error(s, force) ==
    s.kind \in {"figures", "error"} /\ (s.age <= Ttl \/ s.kind = "error") /\ ~force

\* _should_reuse_cached_snapshot
Reusable(s, force) == s.kind \in {"figures", "error"} /\ s.age <= Ttl /\ ~force

Mishap == mishaps < MaxMishaps /\ mishaps' = mishaps + 1

Goto(r, step) == pc' = [pc EXCEPT ![r] = step]

\* The request ends, and what it knew is gone.
End(r) ==
    /\ Goto(r, "idle")
    /\ forced' = [forced EXCEPT ![r] = FALSE]
    /\ cached' = [cached EXCEPT ![r] = None]
    /\ made' = [made EXCEPT ![r] = None]

Init ==
    /\ stored \in {s \in Snapshots : s.kind # "error" /\ s.age = Old}
    /\ torn = FALSE
    /\ pc = [r \in Askers |-> "idle"]
    /\ forced = [r \in Askers |-> FALSE]
    /\ cached = [r \in Askers |-> None]
    /\ made = [r \in Askers |-> None]
    /\ disturbed = [r \in Askers |-> FALSE]
    /\ mishaps = 0

-----------------------------------------------------------------------------
\* The snapshot is asked for, or refreshed.
Ask(r, force) ==
    /\ pc[r] = "idle"
    /\ Goto(r, "load")
    /\ forced' = [forced EXCEPT ![r] = force]
    /\ disturbed' = [disturbed EXCEPT ![r] = torn]
    /\ UNCHANGED <<stored, torn, cached, made, mishaps>>

Load(r) ==
    /\ pc[r] = "load" /\ ~Locked
    /\ IF Reusable(Loaded, forced[r]) THEN End(r)
       ELSE /\ cached' = [cached EXCEPT ![r] = Loaded]
            /\ Goto(r, "fetch")
            /\ UNCHANGED <<forced, made>>
    /\ UNCHANGED <<stored, torn, disturbed, mishaps>>

\* The lock was not free for as long as the timeout, which is swallowed.
LoadTimesOut(r) ==
    /\ pc[r] = "load" /\ Locked
    /\ Mishap
    /\ Goto(r, "fetch")
    /\ UNCHANGED <<stored, torn, forced, cached, made, disturbed>>

\* A provider answers, perhaps after others failed.
Fetch(r) ==
    /\ pc[r] = "fetch"
    /\ made' = [made EXCEPT ![r] = [kind |-> "figures", age |-> 0]]
    /\ Goto(r, "save")
    /\ UNCHANGED <<stored, torn, forced, cached, disturbed, mishaps>>

\* Every provider fails: the answer is what was loaded, or an error snapshot.
FetchFails(r) ==
    /\ pc[r] = "fetch"
    /\ \/ cached[r] # None /\ End(r)
       \/ /\ cached[r] = None
          /\ made' = [made EXCEPT ![r] = [kind |-> "error", age |-> 0]]
          /\ Goto(r, "save")
          /\ UNCHANGED <<forced, cached>>
    /\ UNCHANGED <<stored, torn, disturbed, mishaps>>

\* save_snapshot: the file is locked and cut ...
Open(r) ==
    /\ pc[r] = "save" /\ ~Locked
    /\ torn' = TRUE
    /\ Goto(r, "dump")
    /\ disturbed' = [q \in Askers |-> disturbed[q] \/ (q # r /\ pc[q] # "idle")]
    /\ UNCHANGED <<stored, forced, cached, made, mishaps>>

\* (or it stays locked, and the request fails)
SaveTimesOut(r) ==
    /\ pc[r] = "save" /\ Locked
    /\ Mishap
    /\ End(r)
    /\ UNCHANGED <<stored, torn, disturbed>>

\* ... and dumped.
Dump(r) ==
    /\ pc[r] = "dump"
    /\ stored' = made[r]
    /\ torn' = FALSE
    /\ disturbed' = [q \in Askers |-> disturbed[q] \/ (q # r /\ pc[q] # "idle")]
    /\ End(r)
    /\ UNCHANGED mishaps

\* The disk is full, and the request fails,
DumpFails(r) ==
    /\ pc[r] = "dump"
    /\ Mishap
    /\ End(r)
    /\ UNCHANGED <<stored, torn, disturbed>>

\* or the server dies.
Crash ==
    /\ Mishap
    /\ pc' = [r \in Askers |-> "idle"]
    /\ forced' = [r \in Askers |-> FALSE]
    /\ cached' = [r \in Askers |-> None]
    /\ made' = [r \in Askers |-> None]
    /\ UNCHANGED <<stored, torn, disturbed>>

\* Snapshots age from when they are built, stored or not.
Older(s) == IF s.age < Old THEN [s EXCEPT !.age = @ + 1] ELSE s

Tick ==
    /\ stored' = Older(stored)
    /\ made' = [r \in Askers |-> Older(made[r])]
    /\ cached' = [r \in Askers |-> Older(cached[r])]
    /\ UNCHANGED <<torn, pc, forced, disturbed, mishaps>>

Serve(r) == Load(r) \/ Fetch(r) \/ FetchFails(r) \/ Open(r) \/ Dump(r)

Next ==
    \/ Crash \/ Tick
    \/ \E r \in Askers :
           \/ Serve(r) \/ LoadTimesOut(r) \/ SaveTimesOut(r) \/ DumpFails(r)
           \/ \E force \in BOOLEAN : Ask(r, force)

\* Requests are served, time passes, and a lock that is free again and again is got.
\* The rest is up to the world: the company is asked for, and of the requests that ask
\* the providers some are answered.
Fairness ==
    /\ WF_vars(Tick)
    /\ \A r \in Askers :
           /\ WF_vars(Serve(r)) /\ SF_vars(Fetch(r)) /\ SF_vars(Open(r))
           /\ WF_vars(Ask(r, FALSE))

Spec == Init /\ [][Next]_vars /\ Fairness

-----------------------------------------------------------------------------
\* Figures that are in the file outlive any outage: whatever is asked for, a request
\* does not store an error snapshot or older figures in their place, unless the file
\* was being written or was unreadable while the request was in progress.
FiguresKept ==
    [][\A r \in Askers :
           Dump(r) /\ ~disturbed[r] /\ Told(stored) =>
               Told(stored') /\ stored'.age <= stored.age]_vars

\* And an outage is forgotten: a file without figures, or one that a crash left cut,
\* has figures again, although what an outage left is young for a while, and each
\* request that finds no figures may store another error over them.
FiguresReturn == (torn \/ ~Told(stored)) ~> (~torn /\ Told(stored))
=============================================================================
