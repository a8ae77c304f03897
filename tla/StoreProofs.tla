---------------------------- MODULE StoreProofs ----------------------------
(***************************************************************************)
(* The documents that runs share with the endpoints, and the analyses that *)
(* the requests share: the sweep file of a day, the history of a ticker.   *)
(***************************************************************************)
EXTENDS MCScreener, FiniteSetTheorems, TLAPS

-----------------------------------------------------------------------------
(* The strategy document.                                                    *)

Steps == Strategies!Processes
Handler == Strategies!Handler

\* A document has these fields, and an active id that it knows, or the default one.
Document(d) ==
    /\ d = [strategies |-> d.strategies, active |-> d.active, old |-> d.old]
    /\ d.active \in DOMAIN d.strategies \cup {"default"}

\* The document says of the strategies what the endpoints answered, and of the active
\* one too unless it was overruled.
Agrees(d) ==
    /\ Strategies!Normalized(d).strategies = told.strategies
    /\ \/ Strategies!Normalized(d).active = told.active
       \/ overruled /\ Strategies!Normalized(d).active = "default"

EditsType ==
    /\ {DOMAIN spc, DOMAIN list, DOMAIN active, DOMAIN sbase} = {Steps}
    /\ Document(doc) /\ Document(first) /\ \A p \in Steps : Document(sbase[p])
    /\ told = Strategies!Normalized(told)

\* Only the document as it was found wants mending, before any edit was answered.
Mending ==
    /\ Strategies!Dirty(doc) => doc = first /\ told = Strategies!Normalized(first)
    /\ \A p \in Steps : spc[p] \in {"mend list", "mend"} =>
           /\ sbase[p] = first /\ Strategies!Dirty(first)
           /\ p = Handler => told = Strategies!Normalized(first)

\* What the endpoint has read since its request is what was last answered.
Reading ==
    /\ spc[Handler] \in {"mend list", "check", "ask", "mend", "save", "write"} =>
           list[Handler] = told.strategies
    /\ spc[Handler] \in {"write", "set"} => Agrees(sbase[Handler])

EditsInv == EditsType /\ Mending /\ (~crossed => Agrees(doc) /\ Reading)

LEMMA NormalizedType ==
    ASSUME NEW d
    PROVE  /\ Document(Strategies!Normalized(d))
           /\ Strategies!Normalized(Strategies!Normalized(d)) = Strategies!Normalized(d)
           /\ ~Strategies!Dirty(Strategies!Normalized(d))
  <1> DEFINE n == Strategies!Normalized(d)
  <1>1. /\ DOMAIN n.strategies = DOMAIN d.strategies \cup {"default"}
        /\ n.strategies = [i \in DOMAIN n.strategies |-> n.strategies[i]]
        /\ n.active \in DOMAIN n.strategies
        /\ n = [strategies |-> n.strategies, active |-> n.active, old |-> FALSE]
    BY DEF Strategies!Normalized, Strategies!IdsOf, Strategies!Default
  <1> HIDE DEF n
  <1>2. Strategies!Normalized(n) = n
    BY <1>1 DEF Strategies!Normalized, Strategies!IdsOf, Strategies!Default
  <1>3. Document(n)
    BY <1>1 DEF Document
  <1> QED
    BY <1>2, <1>3 DEF Strategies!Dirty, n

\* Normalisation reads the strategies and the active id.
LEMMA NormalizedReads ==
    ASSUME NEW c, NEW d, c.strategies = d.strategies, c.active = d.active
    PROVE  Strategies!Normalized(c) = Strategies!Normalized(d)
  BY DEF Strategies!Normalized, Strategies!IdsOf

LEMMA NormalizedActive ==
    ASSUME NEW d, Document(d)
    PROVE  Strategies!Normalized(d).active = d.active
  BY DEF Document, Strategies!Normalized, Strategies!IdsOf, Strategies!Default

LEMMA NormalizedStrategies ==
    ASSUME NEW c, NEW d, c.strategies = d.strategies
    PROVE  Strategies!Normalized(c).strategies = Strategies!Normalized(d).strategies
  BY DEF Strategies!Normalized, Strategies!IdsOf

\* Documents with the same active id agree once they hold the same strategies.
LEMMA WithStrategiesAgrees ==
    ASSUME NEW d, Document(d), NEW t, Document(t), NEW ss
    PROVE  LET a == Strategies!WithStrategies(d, ss)
               b == Strategies!WithStrategies(t, ss)
           IN  /\ a.strategies = b.strategies
               /\ d.active = t.active => a.active = b.active
               /\ d.active = "default" => a.active = "default"
  <1>1. [d EXCEPT !.strategies = ss] =
            [strategies |-> ss, active |-> d.active, old |-> d.old]
    BY DEF Document
  <1>2. [t EXCEPT !.strategies = ss] =
            [strategies |-> ss, active |-> t.active, old |-> t.old]
    BY DEF Document
  <1> QED
    BY <1>1, <1>2 DEF Strategies!WithStrategies, Strategies!Normalized,
                      Strategies!IdsOf, Strategies!Default

\* To set the active id leaves the strategies of the document as they are.
LEMMA WithActiveAgrees ==
    ASSUME NEW d, Document(d), NEW i
    PROVE  LET a == Strategies!WithActive(d, i)
               n == Strategies!Normalized(d)
           IN  /\ a.strategies = n.strategies
               /\ a.active = IF i \in DOMAIN n.strategies THEN i ELSE "default"
  <1>1. [d EXCEPT !.active = i] =
            [strategies |-> d.strategies, active |-> i, old |-> d.old]
    BY DEF Document
  <1> QED
    BY <1>1 DEF Strategies!WithActive, Strategies!Normalized, Strategies!IdsOf,
                Strategies!Default

LEMMA InitEditsInv == Strategies!Init => EditsInv
  <1> SUFFICES ASSUME Strategies!Init PROVE EditsInv
    OBVIOUS
  <1>1. PICK o \in BOOLEAN, ids \in {{}, {"default"}} :
            doc = [strategies |-> [i \in ids |-> 0], active |-> "default", old |-> o]
    BY DEF Strategies!Init, Strategies!Default
  <1>2. /\ Document(doc) /\ first = doc /\ told = Strategies!Normalized(doc)
        /\ spc = [p \in Steps |-> "idle"] /\ sbase = [p \in Steps |-> doc]
        /\ DOMAIN list = Steps /\ DOMAIN active = Steps
    BY <1>1 DEF Strategies!Init, Document, Steps
  <1>3. EditsType
    BY <1>2, NormalizedType DEF EditsType
  <1>4. Mending
    BY <1>2 DEF Mending
  <1>5. Agrees(doc)
    BY <1>2 DEF Agrees
  <1>6. Reading
    BY <1>2 DEF Reading, Handler, Steps, Strategies!Processes
  <1> QED
    BY <1>3, <1>4, <1>5, <1>6 DEF EditsInv

\* The processes: the endpoint and the threads.
LEMMA Processes == /\ Handler \in Steps /\ Handler \notin Threads
                   /\ Threads \subseteq Steps
  BY PartsAssumption DEF Handler, Steps, Strategies!Processes, Strategies!Handler

\* Reading changes what the process knows, and nothing else.
LEMMA ReadKeeps ==
    ASSUME EditsInv, NEW p \in Steps, NEW step,
           spc' = [spc EXCEPT ![p] = step],
           sbase' = [sbase EXCEPT ![p] = doc],
           DOMAIN list' = Steps /\ DOMAIN active' = Steps,
           step \in {"mend list", "mend"} => Strategies!Dirty(doc),
           \A q \in Steps \ {p} : list'[q] = list[q],
           p = Handler /\ ~crossed
                   /\ step \in {"mend list", "check", "ask", "mend", "save", "write"}
               => list'[p] = told.strategies,
           UNCHANGED <<doc, first, told, crossed, overruled>>
    PROVE  EditsInv'
  <1>1. EditsType'
    BY DEF EditsInv, EditsType
  <1>2. Mending'
    BY DEF EditsInv, EditsType, Mending
  <1>3. ~crossed' => Agrees(doc)'
    BY DEF EditsInv, Agrees
  <1>4. ASSUME ~crossed' PROVE Reading'
    <2>1. CASE p = Handler
      <3>1. sbase'[Handler] = doc /\ Agrees(doc)
        BY <1>4, <2>1, Processes DEF EditsInv, EditsType
      <3> QED
        BY <1>4, <2>1, <3>1 DEF EditsInv, EditsType, Reading, Agrees
    <2>2. CASE p # Handler
      BY <1>4, <2>2, Processes DEF EditsInv, EditsType, Reading, Agrees
    <2> QED
      BY <2>1, <2>2
  <1> QED
    BY <1>1, <1>2, <1>3, <1>4 DEF EditsInv

\* A process goes on without a look at the document.
LEMMA MoveKeeps ==
    ASSUME EditsInv, NEW p \in Steps, NEW step,
           spc' = [spc EXCEPT ![p] = step],
           step \notin {"mend list", "mend"},
           p = Handler =>
               \/ step \in {"idle", "list", "activate", "reset"}
               \/ spc[p] = "check" /\ step \in {"ask", "save"},
           UNCHANGED <<doc, list, active, sbase, first, told, crossed, overruled>>
    PROVE  EditsInv'
  <1>1. EditsType'
    BY DEF EditsInv, EditsType
  <1>2. Mending'
    BY DEF EditsInv, EditsType, Mending
  <1>3. ~crossed' => Agrees(doc)' /\ Reading'
    BY Processes DEF EditsInv, EditsType, Agrees, Reading
  <1> QED
    BY <1>1, <1>2, <1>3 DEF EditsInv

\* A document is mended once, unless a thread does it late.
LEMMA WriteBackKeeps ==
    ASSUME EditsInv, NEW p \in Steps, NEW at \in {"mend list", "mend"}, NEW next,
           Strategies!WriteBack(p, at, next),
           next \notin {"mend list", "mend", "write", "set"},
           p = Handler => <<at, next>> \in {<<"mend list", "check">>, <<"mend", "save">>}
    PROVE  EditsInv'
  <1>1. /\ spc[p] = at /\ spc' = [spc EXCEPT ![p] = next]
        /\ doc' = Strategies!Normalized(sbase[p])
        /\ crossed' = (crossed \/ (p # Handler /\ sbase[p] = first /\ sbase[p] # doc))
        /\ UNCHANGED <<list, active, sbase, first, told, overruled>>
    BY DEF Strategies!WriteBack, Strategies!Write, Strategies!Goto, Handler
  <1>2. sbase[p] = first /\ Strategies!Dirty(first)
    BY <1>1 DEF EditsInv, Mending
  <1>3. EditsType'
    BY <1>1, NormalizedType DEF EditsInv, EditsType
  <1>4. Mending'
    BY <1>1, NormalizedType DEF EditsInv, EditsType, Mending
  <1>5. ASSUME ~crossed' PROVE Agrees(doc)' /\ Reading'
    <2>1. told = Strategies!Normalized(first)
      <3>1. CASE p = Handler
        BY <1>1, <3>1 DEF EditsInv, Mending
      <3>2. CASE p # Handler
        BY <1>1, <1>2, <1>5, <3>2 DEF EditsInv, Mending
      <3> QED
        BY <3>1, <3>2
    <2>2. Agrees(doc)'
      BY <1>1, <1>2, <2>1, NormalizedType DEF Agrees
    <2>3. ~crossed
      BY <1>1, <1>5
    <2>4. Reading'
      BY <1>1, <2>3, Processes DEF EditsInv, EditsType, Reading, Agrees
    <2> QED
      BY <2>2, <2>4
  <1> QED
    BY <1>3, <1>4, <1>5 DEF EditsInv

\* The endpoint writes the strategies it read, edited, beside the active id it read.
LEMMA WriteStrategiesKeeps ==
    ASSUME EditsInv, Strategies!WriteStrategies
    PROVE  EditsInv'
  <1> DEFINE ss == Strategies!Edited(list[Handler])
             st == Strategies!Edited(told.strategies)
  <1>1. /\ spc[Handler] = "write"
        /\ doc' = Strategies!WithStrategies(sbase[Handler], ss)
        /\ told' = Strategies!WithStrategies(told, st)
        /\ spc' = [spc EXCEPT ![Handler] = "reset"] \/ spc' = [spc EXCEPT ![Handler] = "idle"]
        /\ UNCHANGED <<list, active, sbase, first, crossed, overruled>>
    BY DEF Strategies!WriteStrategies, Strategies!Write, Strategies!Goto, Handler
  <1>2. /\ Document(doc') /\ ~Strategies!Dirty(doc') /\ Strategies!Normalized(doc') = doc'
        /\ Document(told') /\ Strategies!Normalized(told') = told'
    BY <1>1, NormalizedType DEF Strategies!WithStrategies
  <1> HIDE DEF ss, st
  <1>3. EditsType'
    BY <1>1, <1>2 DEF EditsInv, EditsType
  <1>4. Mending'
    <2>1. /\ spc'[Handler] \notin {"mend list", "mend"}
          /\ \A p \in Steps : p # Handler => spc'[p] = spc[p]
      BY <1>1, Processes DEF EditsInv, EditsType
    <2> QED
      BY <1>1, <1>2, <2>1 DEF EditsInv, Mending
  <1>5. ASSUME ~crossed' PROVE Agrees(doc)' /\ Reading'
    <2>1. spc'[Handler] \in {"reset", "idle"}
      BY <1>1, Processes DEF EditsInv, EditsType
    <2>2. list[Handler] = told.strategies /\ Agrees(sbase[Handler])
      BY <1>1, <1>5 DEF EditsInv, Reading
    <2>3. ss = st
      BY <2>2 DEF ss, st
    <2>4. /\ Document(sbase[Handler]) /\ Document(told)
          /\ told = Strategies!Normalized(told)
      BY Processes, NormalizedType DEF EditsInv, EditsType
    <2>5. \/ sbase[Handler].active = told.active
          \/ overruled /\ sbase[Handler].active = "default"
      BY <2>2, <2>4, NormalizedActive DEF Agrees
    <2>6. Agrees(doc)'
      BY <1>1, <1>2, <2>3, <2>4, <2>5, WithStrategiesAgrees DEF Agrees
    <2> QED
      BY <2>1, <2>6 DEF Reading
  <1> QED
    BY <1>3, <1>4, <1>5 DEF EditsInv

\* The endpoint sets the active id in the document it read.
LEMMA ActivateKeeps ==
    ASSUME EditsInv, Strategies!Activate
    PROVE  EditsInv'
  <1>1. PICK i : /\ doc' = Strategies!WithActive(sbase[Handler], i)
                 /\ told' = Strategies!WithActive(told, i)
    BY DEF Strategies!Activate, Strategies!Write, Handler
  <1>2. /\ spc[Handler] = "set" /\ spc' = [spc EXCEPT ![Handler] = "idle"]
        /\ UNCHANGED <<list, active, sbase, first, crossed>>
    BY DEF Strategies!Activate, Strategies!Goto, Handler
  <1>3. /\ Document(doc') /\ ~Strategies!Dirty(doc') /\ Strategies!Normalized(doc') = doc'
        /\ Document(told') /\ Strategies!Normalized(told') = told'
    BY <1>1, NormalizedType DEF Strategies!WithActive
  <1>4. EditsType'
    BY <1>2, <1>3 DEF EditsInv, EditsType
  <1>5. /\ spc'[Handler] = "idle"
        /\ \A p \in Steps : p # Handler => spc'[p] = spc[p]
    BY <1>2, Processes DEF EditsInv, EditsType
  <1>6. Mending'
    BY <1>2, <1>3, <1>5 DEF EditsInv, Mending
  <1>7. ASSUME ~crossed' PROVE Agrees(doc)' /\ Reading'
    <2>1. /\ Document(sbase[Handler]) /\ Document(told)
          /\ told = Strategies!Normalized(told)
      BY Processes, NormalizedType DEF EditsInv, EditsType
    <2>2. Strategies!Normalized(sbase[Handler]).strategies = told.strategies
      BY <1>2, <1>7 DEF EditsInv, Reading, Agrees
    <2>3. Agrees(doc)'
      BY <1>1, <1>3, <2>1, <2>2, WithActiveAgrees DEF Agrees
    <2> QED
      BY <1>5, <2>3 DEF Reading
  <1> QED
    BY <1>4, <1>6, <1>7 DEF EditsInv

\* A thread makes the default strategy active.
LEMMA ResetKeeps ==
    ASSUME EditsInv, NEW t \in Threads, Strategies!ResetActive(t)
    PROVE  EditsInv'
  <1>1. /\ doc' = Strategies!WithActive(sbase[t], "default")
        /\ crossed' = (crossed \/ sbase[t] # doc)
        /\ overruled' = TRUE /\ spc' = [spc EXCEPT ![t] = "idle"]
        /\ UNCHANGED <<list, active, sbase, first, told>>
    BY DEF Strategies!ResetActive, Strategies!Write, Strategies!Goto,
           Strategies!Default
  <1>2. Document(doc') /\ ~Strategies!Dirty(doc') /\ Strategies!Normalized(doc') = doc'
    BY <1>1, NormalizedType DEF Strategies!WithActive
  <1>3. EditsType'
    BY <1>1, <1>2 DEF EditsInv, EditsType
  <1>4. /\ spc'[t] = "idle" /\ \A p \in Steps : p # t => spc'[p] = spc[p]
        /\ t # Handler /\ t \in Steps
    BY <1>1, Processes DEF EditsInv, EditsType
  <1>5. Mending'
    BY <1>1, <1>2, <1>4 DEF EditsInv, Mending
  <1>6. ASSUME ~crossed' PROVE Agrees(doc)' /\ Reading'
    <2>1. sbase[t] = doc /\ Document(doc) /\ Agrees(doc) /\ Reading
      BY <1>1, <1>6 DEF EditsInv, EditsType
    <2>2. Agrees(doc)'
      BY <1>1, <1>2, <2>1, WithActiveAgrees DEF Agrees
    <2>3. Reading'
      BY <1>1, <1>4, <2>1, Processes DEF Reading, Agrees
    <2> QED
      BY <2>2, <2>3
  <1> QED
    BY <1>3, <1>5, <1>6 DEF EditsInv

LEMMA StepEditsInv == EditsInv /\ [Strategies!Next]_Strategies!vars => EditsInv'
  <1> SUFFICES ASSUME EditsInv, [Strategies!Next]_Strategies!vars PROVE EditsInv'
    OBVIOUS
  <1>1. ASSUME NEW p \in Steps, NEW at, NEW next,
               Strategies!LoadStrategies(p, at, "mend list", next),
               next \in {"check", "active"}
        PROVE  EditsInv'
    <2> DEFINE step == IF Strategies!Dirty(doc) THEN "mend list" ELSE next
    <2>1. /\ spc' = [spc EXCEPT ![p] = step]
          /\ sbase' = [sbase EXCEPT ![p] = doc]
          /\ list' = [list EXCEPT ![p] = Strategies!Normalized(doc).strategies]
          /\ UNCHANGED <<doc, active, first, told, crossed, overruled>>
      BY <1>1 DEF Strategies!LoadStrategies, Strategies!Read, Strategies!Goto
    <2>2. /\ step \in {"mend list", "mend"} => Strategies!Dirty(doc)
          /\ DOMAIN list' = Steps /\ DOMAIN active' = Steps
          /\ \A q \in Steps \ {p} : list'[q] = list[q]
      BY <1>1, <2>1 DEF EditsInv, EditsType
    <2>3. ~crossed => list'[p] = told.strategies
      BY <2>1 DEF EditsInv, EditsType, Agrees
    <2> HIDE DEF step
    <2> QED
      BY <2>1, <2>2, <2>3, ReadKeeps
  <1>2. ASSUME NEW p \in Steps, NEW at, NEW next,
               Strategies!LoadActive(p, at, "mend", next),
               p = Handler => at = "ask" /\ next = "save",
               next \in {"save", "choose"}
        PROVE  EditsInv'
    <2> DEFINE step == IF Strategies!Dirty(doc) THEN "mend" ELSE next
    <2>1. /\ spc[p] = at /\ spc' = [spc EXCEPT ![p] = step]
          /\ sbase' = [sbase EXCEPT ![p] = doc]
          /\ active' = [active EXCEPT ![p] = Strategies!Normalized(doc).active]
          /\ UNCHANGED <<doc, list, first, told, crossed, overruled>>
      BY <1>2 DEF Strategies!LoadActive, Strategies!Read, Strategies!Goto
    <2>2. /\ step \in {"mend list", "mend"} => Strategies!Dirty(doc)
          /\ DOMAIN list' = Steps /\ DOMAIN active' = Steps
      BY <1>2, <2>1 DEF EditsInv, EditsType
    <2>3. p = Handler /\ ~crossed => list'[p] = told.strategies
      BY <1>2, <2>1 DEF EditsInv, Reading
    <2> HIDE DEF step
    <2> QED
      BY <2>1, <2>2, <2>3, ReadKeeps
  <1>3. ASSUME NEW p \in Steps, NEW at, NEW next,
               Strategies!ReadForWrite(p, at, next), next \in {"write", "set"},
               p = Handler /\ next = "write" => at = "save"
        PROVE  EditsInv'
    <2>1. /\ spc[p] = at /\ spc' = [spc EXCEPT ![p] = next]
          /\ sbase' = [sbase EXCEPT ![p] = doc]
          /\ UNCHANGED <<doc, list, active, first, told, crossed, overruled>>
      BY <1>3 DEF Strategies!ReadForWrite, Strategies!Read, Strategies!Goto
    <2>2. DOMAIN list' = Steps /\ DOMAIN active' = Steps
      BY <2>1 DEF EditsInv, EditsType
    <2>3. p = Handler /\ ~crossed /\ next = "write" => list'[p] = told.strategies
      BY <1>3, <2>1 DEF EditsInv, Reading
    <2> QED
      BY <1>3, <2>1, <2>2, <2>3, ReadKeeps
  <1>4. ASSUME Strategies!Request \/ Strategies!Refuse \/ Strategies!Check
        PROVE  EditsInv'
    <2>1. PICK step \in {"list", "idle", "ask", "activate", "save"} :
              /\ spc' = [spc EXCEPT ![Handler] = step]
              /\ step \in {"ask", "save"} => spc[Handler] = "check"
      BY <1>4
      DEF Strategies!Request, Strategies!Refuse, Strategies!Check, Strategies!Goto,
          Handler
    <2>2. UNCHANGED <<doc, list, active, sbase, first, told, crossed, overruled>>
      BY <1>4 DEF Strategies!Request, Strategies!Refuse, Strategies!Check
    <2> QED
      BY <2>1, <2>2, Processes, MoveKeeps
  <1>5. ASSUME Strategies!Endpoint PROVE EditsInv'
    BY <1>1, <1>2, <1>3, <1>4, <1>5, Processes, WriteBackKeeps, WriteStrategiesKeeps,
       ActivateKeeps
    DEF Strategies!Endpoint, Handler
  <1>6. ASSUME NEW t \in Threads, Strategies!GetActiveStrategy(t) PROVE EditsInv'
    <2>1. t \in Steps /\ t # Handler
      BY Processes
    <2>2. ASSUME Strategies!Start(t) \/ Strategies!Choose(t) PROVE EditsInv'
      <3>1. PICK step \in {"list", "idle", "reset"} : spc' = [spc EXCEPT ![t] = step]
        BY <2>2 DEF Strategies!Start, Strategies!Choose, Strategies!Goto
      <3>2. UNCHANGED <<doc, list, active, sbase, first, told, crossed, overruled>>
        BY <2>2 DEF Strategies!Start, Strategies!Choose
      <3> QED
        BY <2>1, <3>1, <3>2, MoveKeeps
    <2> QED
      BY <1>1, <1>2, <1>3, <1>6, <2>1, <2>2, WriteBackKeeps, ResetKeeps
      DEF Strategies!GetActiveStrategy
  <1>7. ASSUME UNCHANGED Strategies!vars PROVE EditsInv'
    BY <1>7 DEF Strategies!vars, Strategies!locals, EditsInv, EditsType, Mending,
                Reading, Agrees
  <1> QED
    BY <1>5, <1>6, <1>7 DEF Strategies!Next

\* Edits of the strategies are kept (strategy/storage.py and strategy_service.py), however
\* the threads that ask for the active one interleave, but for two writes that cross.
THEOREM StrategyEditsKept == Strategies!Spec => []EditsAreKept
  <1>1. EditsInv => EditsAreKept
    BY DEF EditsInv, Agrees, EditsAreKept, Strategies!EditsAreKept,
           Strategies!Default
  <1> QED
    BY <1>1, InitEditsInv, StepEditsInv, PTL DEF Strategies!Spec

-----------------------------------------------------------------------------
(* The screener history.                                                     *)

Noted == {n[1] : n \in noted}

HistoryInv ==
    /\ {DOMAIN rpc, DOMAIN read, DOMAIN found} = {Runners}
    /\ IsFiniteSet(Noted)
    /\ DOMAIN history \subseteq Noted
    /\ \A r \in Runners :
           /\ DOMAIN read[r] \subseteq Noted
           /\ rpc[r] \in {"record", "write"} => found[r] # {}
    /\ HistoryIsKept

\* A date that is among the last of many is among the last of fewer.
LEMMA LatestOfFewer ==
    ASSUME NEW A, NEW B, IsFiniteSet(B), A \subseteq B,
           NEW d \in Runs!Latest(B), d \in A
    PROVE  d \in Runs!Latest(A)
  <1> DEFINE a == {e \in A : e > d}
             b == {e \in B : e > d}
  <1>1. \A S : Runs!Cardinality(S) = Cardinality(S)
    BY DEF Runs!Cardinality, Cardinality
  <1>2. IsFiniteSet(b) /\ a \subseteq b
    BY FS_Subset
  <1>3. IsFiniteSet(a) /\ Cardinality(a) <= Cardinality(b)
    BY <1>2, FS_Subset
  <1>4. Cardinality(a) \in Nat /\ Cardinality(b) \in Nat /\ KeepDates \in Nat
    BY <1>2, <1>3, FS_CardinalityType, PartsAssumption
  <1>5. Cardinality(b) < KeepDates
    BY <1>1 DEF Runs!Latest
  <1>6. Cardinality(a) < KeepDates
    BY <1>3, <1>4, <1>5
  <1> QED
    BY <1>1, <1>6 DEF Runs!Latest

LEMMA InitHistoryInv == Runs!Init => HistoryInv
  <1> SUFFICES ASSUME Runs!Init PROVE HistoryInv
    OBVIOUS
  <1>1. /\ DOMAIN history = {} /\ noted = {}
        /\ rpc = [r \in Runners |-> "idle"]
        /\ read = [r \in Runners |-> Runs!Empty] /\ DOMAIN Runs!Empty = {}
        /\ DOMAIN found = Runners
    BY DEF Runs!Init, Runs!Empty
  <1>2. Noted = {} /\ IsFiniteSet(Noted)
    BY <1>1, FS_EmptySet DEF Noted
  <1>3. HistoryIsKept
    BY <1>1 DEF HistoryIsKept, Runs!HistoryIsKept
  <1> QED
    BY <1>1, <1>2, <1>3 DEF HistoryInv

\* A step that leaves the history and what is noted of it alone.
LEMMA HistoryStays ==
    ASSUME HistoryInv, UNCHANGED <<history, noted, clobbered>>,
           {DOMAIN rpc', DOMAIN read', DOMAIN found'} = {Runners},
           \A r \in Runners :
               /\ DOMAIN read'[r] \subseteq Noted
               /\ rpc'[r] \in {"record", "write"} => found'[r] # {}
    PROVE  HistoryInv'
  BY DEF HistoryInv, Noted, HistoryIsKept, Runs!HistoryIsKept

\* A record joins what the run read, or takes its place.
LEMMA RecordKeeps ==
    ASSUME HistoryInv, NEW r \in Runners, Runs!WriteHistory(r)
    PROVE  HistoryInv'
  <1> DEFINE d == asof[r]
             h == Runs!With(read[r], d, found[r])
  <1>1. /\ rpc[r] = "write" /\ rpc' = [rpc EXCEPT ![r] = "done"]
        /\ history' = Runs!Kept(h)
        /\ noted' = noted \cup ({d} \X found[r])
        /\ clobbered' = IF read[r] = history THEN clobbered
                        ELSE clobbered \cup DOMAIN history
        /\ read' = read /\ found' = found
    BY DEF Runs!WriteHistory
  <1>2. /\ found[r] # {} /\ DOMAIN read[r] \subseteq Noted /\ IsFiniteSet(Noted)
        /\ DOMAIN history \subseteq Noted
    BY <1>1 DEF HistoryInv
  <1>3. Noted' = Noted \cup {d}
    <2>1. ASSUME NEW n \in noted' PROVE n[1] \in Noted \cup {d}
      BY <1>1 DEF Noted
    <2>2. PICK s : s \in found[r]
      BY <1>2
    <2>3. <<d, s>> \in noted' /\ <<d, s>>[1] = d
      BY <1>1, <2>2
    <2> QED
      BY <1>1, <2>1, <2>3 DEF Noted
  <1>4. IsFiniteSet(Noted')
    BY <1>2, <1>3, FS_AddElement
  <1>5. /\ DOMAIN h = DOMAIN read[r] \cup {d}
        /\ \A e \in DOMAIN read[r] : read[r][e] \subseteq h[e]
        /\ found[r] \subseteq h[d]
    BY DEF Runs!With
  <1>6. DOMAIN h \subseteq Noted'
    BY <1>2, <1>3, <1>5
  <1> HIDE DEF h
  <1>7. /\ DOMAIN history' = Runs!Latest(DOMAIN h)
        /\ \A e \in DOMAIN history' : history'[e] = h[e]
    BY <1>1 DEF Runs!Kept
  <1>8. DOMAIN history' \subseteq Noted'
    BY <1>6, <1>7 DEF Runs!Latest
  <1>9. ASSUME NEW n \in noted', n[1] \in Runs!Latest(Noted') \ clobbered'
        PROVE  n[1] \in DOMAIN history' /\ n[2] \in history'[n[1]]
    <2>1. n[1] \in DOMAIN h /\ n[2] \in h[n[1]]
      <3>1. CASE n \in {d} \X found[r]
        BY <1>5, <3>1
      <3>2. CASE n \in noted
        <4>1. n[1] \in Noted
          BY <3>2 DEF Noted
        <4>2. n[1] \in Runs!Latest(Noted)
          BY <1>3, <1>4, <1>9, <4>1, LatestOfFewer
        <4>3. n[1] \notin clobbered /\ (read[r] # history => n[1] \notin DOMAIN history)
          BY <1>1, <1>9
        <4>4. n[1] \in DOMAIN history /\ n[2] \in history[n[1]]
          BY <3>2, <4>2, <4>3
          DEF HistoryInv, HistoryIsKept, Runs!HistoryIsKept, Noted
        <4> QED
          BY <1>5, <4>3, <4>4
      <3> QED
        BY <1>1, <3>1, <3>2
    <2>2. n[1] \in Runs!Latest(DOMAIN h)
      BY <1>4, <1>6, <1>9, <2>1, LatestOfFewer
    <2> QED
      BY <1>7, <2>1, <2>2
  <1>10. HistoryIsKept'
    BY <1>9 DEF HistoryIsKept, Runs!HistoryIsKept, Noted
  <1>11. {DOMAIN rpc', DOMAIN read', DOMAIN found'} = {Runners}
    BY <1>1 DEF HistoryInv
  <1>12. \A q \in Runners : DOMAIN read'[q] \subseteq Noted'
    BY <1>1, <1>3 DEF HistoryInv
  <1>13. \A q \in Runners : rpc'[q] \in {"record", "write"} => found'[q] # {}
    BY <1>1 DEF HistoryInv
  <1> QED
    BY <1>4, <1>8, <1>10, <1>11, <1>12, <1>13 DEF HistoryInv

LEMMA StepHistoryInv == HistoryInv /\ [Runs!Next]_Runs!vars => HistoryInv'
  <1> SUFFICES ASSUME HistoryInv, [Runs!Next]_Runs!vars PROVE HistoryInv'
    OBVIOUS
  <1> USE DEF Runs!files, Runs!ghosts
  <1>0. {DOMAIN rpc, DOMAIN read, DOMAIN found} = {Runners}
    BY DEF HistoryInv
  <1>1. ASSUME NEW r \in Runners,
               Runs!ResolveUniverse(r) \/ Runs!FetchOhlcv(r) \/ Runs!ApplyFetchResults(r)
        PROVE  HistoryInv'
    <2>1. PICK step \in {"fetch", "health", "failed", "report"} :
              rpc' = [rpc EXCEPT ![r] = step]
      BY <1>1 DEF Runs!ResolveUniverse, Runs!FetchOhlcv, Runs!ApplyFetchResults
    <2>2. UNCHANGED <<history, noted, clobbered, read, found>>
      BY <1>1 DEF Runs!ResolveUniverse, Runs!FetchOhlcv, Runs!ApplyFetchResults
    <2> QED
      BY <1>0, <2>1, <2>2, HistoryStays DEF HistoryInv
  <1>2. ASSUME NEW r \in Runners, Runs!DailyReport(r) PROVE HistoryInv'
    <2>1. PICK some :
              /\ found' = [found EXCEPT ![r] = some]
              /\ rpc' = [rpc EXCEPT ![r] = IF some = {} THEN "done" ELSE "record"]
      BY <1>2 DEF Runs!DailyReport
    <2>2. UNCHANGED <<history, noted, clobbered, read>>
      BY <1>2 DEF Runs!DailyReport
    <2> QED
      BY <1>0, <2>1, <2>2, HistoryStays DEF HistoryInv
  <1>3. ASSUME NEW r \in Runners, Runs!ReadHistory(r) PROVE HistoryInv'
    <2>1. /\ rpc[r] = "record" /\ rpc' = [rpc EXCEPT ![r] = "write"]
          /\ read' = [read EXCEPT ![r] = history]
          /\ UNCHANGED <<history, noted, clobbered, found>>
      BY <1>3 DEF Runs!ReadHistory
    <2> QED
      BY <1>0, <2>1, HistoryStays DEF HistoryInv
  <1>4. ASSUME NEW r \in Runners, Runs!Finish(r) PROVE HistoryInv'
    <2>1. /\ rpc' = [rpc EXCEPT ![r] = "idle"]
          /\ read' = [read EXCEPT ![r] = Runs!Empty]
          /\ found' = [found EXCEPT ![r] = {}]
          /\ UNCHANGED <<history, noted, clobbered>>
      BY <1>4 DEF Runs!Finish
    <2>2. DOMAIN Runs!Empty = {}
      BY DEF Runs!Empty
    <2> QED
      BY <1>0, <2>1, <2>2, HistoryStays DEF HistoryInv
  <1>5. ASSUME (\E s \in Symbols : Runs!Drop(s)) \/ Runs!Prune \/ UNCHANGED Runs!vars
        PROVE  HistoryInv'
    <2>1. UNCHANGED <<history, noted, clobbered, read, found, rpc>>
      BY <1>5 DEF Runs!Drop, Runs!Prune, Runs!vars
    <2> QED
      BY <1>0, <2>1, HistoryStays DEF HistoryInv
  <1> QED
    BY <1>1, <1>2, <1>3, <1>4, <1>5, RecordKeeps DEF Runs!Next

\* What a successful run found stays in the history of its date for as long as the date
\* is kept (screener_history_repo.py, record_run), but for records that overlap.
THEOREM RunHistoryKept == Runs!Spec => []HistoryIsKept
  <1>1. HistoryInv => HistoryIsKept
    BY DEF HistoryInv
  <1> QED
    BY <1>1, InitHistoryInv, StepHistoryInv, PTL DEF Runs!Spec

-----------------------------------------------------------------------------
(* The registry of universes.                                                *)

Snapshot(s) == s = [members |-> s.members, benchmark |-> s.benchmark]

\* What a request learned is of the master, and is all of it while the request writes
\* it; a snapshot that it will write has members of the master only.
Learned(r) ==
    /\ r.snapshot.members \subseteq master /\ r.known \subseteq master
    /\ r.pc \in {"write", "dump"} /\ r.op = "refresh" => r.members \subseteq master
    /\ r.pc \in {"cut_master", "dump_master"} => r.known = master

\* A request knows the benchmark that was set last, but on a universe that was written
\* under it.
UpToDate(r) ==
    r.pc # "load" /\ r.cur \notin crossedOut =>
        r.snapshot.benchmark = acknowledged[r.cur]

Request(r) ==
    \/ r = Registry!Idle
    \/ /\ r = [pc |-> r.pc, cur |-> r.cur, op |-> r.op, todo |-> r.todo,
               snapshot |-> r.snapshot, known |-> r.known, members |-> r.members]
       /\ r.pc # "idle" /\ r.cur \in Universes /\ r.todo \subseteq Universes
       /\ Snapshot(r.snapshot)
       /\ ~mixed => Learned(r)
       /\ UpToDate(r)

RegistryInv ==
    /\ DOMAIN refresh = Registry!Processes
    /\ {DOMAIN snapshot, DOMAIN loaded, DOMAIN acknowledged} = {Universes}
    /\ \A u \in Universes : \A s \in loaded[u] \cup {snapshot[u]} :
           /\ Snapshot(s)
           /\ ~mixed => s.members \subseteq master
           /\ u \notin crossedOut => s.benchmark = acknowledged[u]
    /\ ~mixed => \A m \in masterCache : m \subseteq master
    /\ \A p \in Registry!Processes : Request(refresh[p])

LEMMA IdleRequest == Request(Registry!Idle) /\ Registry!Idle.pc = "idle"
  BY DEF Request, Registry!Idle

LEMMA OnRequest ==
    ASSUME NEW u \in Universes, NEW what, NEW rest, rest \subseteq Universes
    PROVE  Request(Registry!On(u, what, rest))
  BY DEF Registry!On, Registry!Unknown, Request, Snapshot, Learned, UpToDate

LEMMA EachRequest ==
    ASSUME NEW what, NEW us, us \subseteq Universes, NEW r \in Registry!EachOf(what, us)
    PROVE  Request(r)
  <1>1. PICK u \in us : r = Registry!On(u, what, us \ {u})
    BY DEF Registry!EachOf
  <1> QED
    BY <1>1, OnRequest

\* A request that is done with its universe, or failed on it.
LEMMA ContinuedRequest ==
    ASSUME NEW c, c.todo \subseteq Universes,
           NEW r \in Registry!Continued(c) \cup Registry!Failed(c)
    PROVE  Request(r)
  BY IdleRequest, EachRequest DEF Registry!Continued, Registry!Failed

\* One process becomes a request of its own; nothing else changes but what only other
\* parts of the registry read.
LEMMA BecomesKeeps ==
    ASSUME RegistryInv, NEW p \in Registry!Processes, NEW r, Request(r),
           refresh' = [refresh EXCEPT ![p] = r],
           UNCHANGED <<snapshot, master, crossedOut, mixed, acknowledged>>,
           DOMAIN loaded' = Universes,
           \A u \in Universes : loaded'[u] = loaded[u] \/ \E s :
               /\ loaded'[u] = {s}
               /\ Snapshot(s) /\ (~mixed => s.members \subseteq master)
               /\ u \notin crossedOut => s.benchmark = acknowledged[u],
           ~mixed => \A m \in masterCache' : m \subseteq master
    PROVE  RegistryInv'
  <1>1. \A q \in Registry!Processes : Request(refresh[q])' <=> Request(refresh'[q])
    BY DEF Request, Learned, UpToDate, Snapshot
  <1>2. \A q \in Registry!Processes : Request(refresh'[q])
    BY DEF RegistryInv
  <1>3. ASSUME NEW u \in Universes, NEW s \in loaded'[u] \cup {snapshot'[u]}
        PROVE  /\ Snapshot(s)
               /\ ~mixed => s.members \subseteq master
               /\ u \notin crossedOut => s.benchmark = acknowledged[u]
    BY <1>3 DEF RegistryInv
  <1>4. DOMAIN refresh' = Registry!Processes /\ DOMAIN loaded' = Universes
    BY DEF RegistryInv
  <1> QED
    BY <1>1, <1>2, <1>3, <1>4 DEF RegistryInv, Snapshot

\* What a request does when it knows its snapshot.
LEMMA LoadedRequest ==
    ASSUME NEW c, Request(c), c # Registry!Idle, NEW s, Snapshot(s),
           ~mixed => s.members \subseteq master,
           c.cur \notin crossedOut => s.benchmark = acknowledged[c.cur],
           c.pc \in {"load", "keep"},
           NEW r \in Registry!Loaded([c EXCEPT !.snapshot = s])
    PROVE  Request(r)
  <1> DEFINE d == [c EXCEPT !.snapshot = s]
  <1>1. d = [pc |-> c.pc, cur |-> c.cur, op |-> c.op, todo |-> c.todo,
             snapshot |-> s, known |-> c.known, members |-> c.members]
    BY DEF Request
  <1>2. c.todo \subseteq Universes /\ c.cur \in Universes /\ (~mixed => c.known \subseteq master)
    BY DEF Request, Learned
  <1>3. ASSUME NEW step \in {"master", "write"},
               r = Registry!At(d, step), step = "write" => d.op # "refresh"
        PROVE  Request(r)
    <2>1. r = [pc |-> step, cur |-> c.cur, op |-> c.op, todo |-> c.todo,
               snapshot |-> s, known |-> c.known, members |-> c.members]
      BY <1>1, <1>3 DEF Registry!At
    <2> QED
      BY <1>1, <1>2, <1>3, <2>1 DEF Request, Learned, UpToDate
  <1>4. d.todo \subseteq Universes
    BY <1>1, <1>2
  <1> HIDE DEF d
  <1>5. \/ r \in Registry!Continued(d)
        \/ r = Registry!At(d, "master")
        \/ r = Registry!At(d, "write") /\ d.op # "refresh"
    BY DEF Registry!Loaded, d
  <1> QED
    BY <1>3, <1>4, <1>5, ContinuedRequest

LEMMA RequestType ==
    ASSUME RegistryInv, NEW p \in Registry!Processes, refresh[p].pc # "idle"
    PROVE  /\ refresh[p] # Registry!Idle /\ Request(refresh[p])
           /\ refresh[p].cur \in Universes /\ refresh[p].todo \subseteq Universes
           /\ Snapshot(refresh[p].snapshot)
           /\ ~mixed => Learned(refresh[p])
           /\ UpToDate(refresh[p])
  BY IdleRequest DEF RegistryInv, Request

LEMMA BeginKeeps ==
    ASSUME RegistryInv, NEW p \in Registry!Processes, Registry!Begin(p)
    PROVE  RegistryInv'
  <1>1. PICK r : /\ refresh' = [refresh EXCEPT ![p] = r]
                 /\ \/ \E u \in Universes : \E what : r = Registry!On(u, what, {})
                    \/ r \in Registry!EachOf("list", Universes)
    BY DEF Registry!Begin, Registry!Becomes
  <1>2. Request(r)
    BY <1>1, OnRequest, EachRequest
  <1>3. UNCHANGED <<snapshot, loaded, master, masterCache, crossedOut, mixed,
                    acknowledged>>
    BY DEF Registry!Begin, Registry!registry, Registry!instruments, Registry!ghosts
  <1> QED
    BY <1>1, <1>2, <1>3, BecomesKeeps DEF RegistryInv

LEMMA LoadSnapshotKeeps ==
    ASSUME RegistryInv, NEW p \in Registry!Processes, Registry!LoadSnapshot(p)
    PROVE  RegistryInv'
  <1> DEFINE c == refresh[p]
  <1>1. c.pc = "load"
    BY DEF Registry!LoadSnapshot
  <1>2. /\ c # Registry!Idle /\ Request(c) /\ c.cur \in Universes
        /\ c.todo \subseteq Universes /\ (~mixed => Learned(c))
    BY <1>1, RequestType
  <1>3. PICK r : /\ refresh' = [refresh EXCEPT ![p] = r]
                 /\ \/ \E s \in loaded[c.cur] : r \in Registry!Loaded([c EXCEPT !.snapshot = s])
                    \/ r \in Registry!Failed(c)
                    \/ r = Registry!At([c EXCEPT !.snapshot = snapshot[c.cur]], "keep")
    BY DEF Registry!LoadSnapshot, Registry!Becomes
  <1>4. UNCHANGED <<snapshot, loaded, master, masterCache, crossedOut, mixed,
                    acknowledged>>
    BY DEF Registry!LoadSnapshot, Registry!registry, Registry!instruments,
           Registry!ghosts
  <1> HIDE DEF c
  <1>5. Request(r)
    <2>1. CASE \E s \in loaded[c.cur] : r \in Registry!Loaded([c EXCEPT !.snapshot = s])
      BY <1>1, <1>2, <2>1, LoadedRequest DEF RegistryInv
    <2>2. CASE r \in Registry!Failed(c)
      BY <1>2, <2>2, ContinuedRequest
    <2>3. CASE r = Registry!At([c EXCEPT !.snapshot = snapshot[c.cur]], "keep")
      <3> DEFINE s == snapshot[c.cur]
      <3>1. r = [pc |-> "keep", cur |-> c.cur, op |-> c.op, todo |-> c.todo,
                 snapshot |-> s, known |-> c.known, members |-> c.members]
        BY <1>2, <2>3 DEF Registry!At, Request
      <3>2. /\ Snapshot(s) /\ (~mixed => s.members \subseteq master)
            /\ c.cur \notin crossedOut => s.benchmark = acknowledged[c.cur]
        BY <1>2 DEF RegistryInv
      <3> QED
        BY <1>2, <3>1, <3>2 DEF Request, Learned, UpToDate
    <2> QED
      BY <1>3, <2>1, <2>2, <2>3
  <1> QED
    BY <1>3, <1>4, <1>5, BecomesKeeps DEF RegistryInv

LEMMA KeepSnapshotKeeps ==
    ASSUME RegistryInv, NEW p \in Registry!Processes, Registry!KeepSnapshot(p)
    PROVE  RegistryInv'
  <1> DEFINE c == refresh[p]
             s == c.snapshot
  <1>1. /\ c.pc = "keep"
        /\ loaded' = [loaded EXCEPT ![c.cur] = IF @ = {} THEN {s} ELSE @]
        /\ UNCHANGED <<snapshot, master, masterCache, crossedOut, mixed, acknowledged>>
    BY DEF Registry!KeepSnapshot, Registry!instruments, Registry!ghosts
  <1>2. PICK r \in Registry!Loaded(c) : refresh' = [refresh EXCEPT ![p] = r]
    BY DEF Registry!KeepSnapshot, Registry!Becomes
  <1>3. /\ c # Registry!Idle /\ Request(c) /\ c.cur \in Universes
        /\ Snapshot(s) /\ (~mixed => s.members \subseteq master)
        /\ c.cur \notin crossedOut => s.benchmark = acknowledged[c.cur]
    BY <1>1, RequestType DEF Learned, UpToDate
  <1>4. c = [c EXCEPT !.snapshot = s]
    BY <1>3 DEF Request
  <1>5. Request(r)
    BY <1>1, <1>2, <1>3, <1>4, LoadedRequest
  <1>6. /\ DOMAIN loaded' = Universes
        /\ \A u \in Universes : loaded'[u] = loaded[u] \/ (u = c.cur /\ loaded'[u] = {s})
    <2>1. DOMAIN loaded = Universes
      BY DEF RegistryInv
    <2>2. DOMAIN loaded' = Universes
      BY <1>1, <2>1
    <2>3. \A u \in Universes \ {c.cur} : loaded'[u] = loaded[u]
      BY <1>1, <2>1
    <2>4. loaded'[c.cur] = IF loaded[c.cur] = {} THEN {s} ELSE loaded[c.cur]
      BY <1>1, <1>3, <2>1
    <2> HIDE DEF c, s
    <2> QED
      BY <2>2, <2>3, <2>4
  <1> HIDE DEF c, s
  <1>7. \A u \in Universes : loaded'[u] = loaded[u] \/ \E t :
            /\ loaded'[u] = {t}
            /\ Snapshot(t) /\ (~mixed => t.members \subseteq master)
            /\ u \notin crossedOut => t.benchmark = acknowledged[u]
    BY <1>3, <1>6
  <1> QED
    BY <1>1, <1>2, <1>5, <1>6, <1>7, BecomesKeeps DEF RegistryInv

LEMMA LoadMasterKeeps ==
    ASSUME RegistryInv, NEW p \in Registry!Processes,
           Registry!LoadMaster(p) \/ Registry!KeepMaster(p)
    PROVE  RegistryInv'
  <1> DEFINE c == refresh[p]
  <1>1. c.pc \in {"master", "keep_master"}
    BY DEF Registry!LoadMaster, Registry!KeepMaster
  <1>2. /\ c # Registry!Idle /\ Request(c) /\ c.cur \in Universes
        /\ c.todo \subseteq Universes /\ (~mixed => Learned(c))
    BY <1>1, RequestType
  <1>3. PICK r : /\ refresh' = [refresh EXCEPT ![p] = r]
                 /\ \/ \E m \in masterCache \cup {master} :
                          \/ r = Registry!At([c EXCEPT !.known = m], "fetch")
                          \/ r = Registry!At([c EXCEPT !.known = m], "keep_master")
                    \/ r \in Registry!Failed(c)
                    \/ r = Registry!At(c, "fetch")
    BY DEF Registry!LoadMaster, Registry!KeepMaster, Registry!Becomes
  <1>4. /\ UNCHANGED <<snapshot, loaded, master, crossedOut, mixed, acknowledged>>
        /\ masterCache' \in {masterCache, {c.known}}
    BY DEF Registry!LoadMaster, Registry!KeepMaster, Registry!registry,
           Registry!instruments, Registry!ghosts
  <1> HIDE DEF c
  <1>5. Request(r)
    <2>1. ASSUME NEW m, ~mixed => m \subseteq master, NEW step \in {"fetch", "keep_master"},
                 r = Registry!At([c EXCEPT !.known = m], step)
          PROVE  Request(r)
      <3>1. r = [pc |-> step, cur |-> c.cur, op |-> c.op, todo |-> c.todo,
                 snapshot |-> c.snapshot, known |-> m, members |-> c.members]
        BY <1>2, <2>1 DEF Registry!At, Request
      <3> QED
        BY <1>1, <1>2, <2>1, <3>1 DEF Request, Learned, UpToDate
    <2>2. CASE r = Registry!At(c, "fetch")
      <3>1. c = [c EXCEPT !.known = c.known] /\ (~mixed => c.known \subseteq master)
        BY <1>2 DEF Request, Learned
      <3> QED
        BY <2>1, <2>2, <3>1
    <2> QED
      BY <1>2, <1>3, <2>1, <2>2, ContinuedRequest DEF RegistryInv
  <1>6. ~mixed => \A m \in masterCache' : m \subseteq master
    BY <1>2, <1>4 DEF RegistryInv, Learned
  <1> QED
    BY <1>3, <1>4, <1>5, <1>6, BecomesKeeps DEF RegistryInv

\* A request that learns no snapshot.
LEMMA StepRequest ==
    ASSUME NEW c, Request(c), c # Registry!Idle, c.pc # "load",
           NEW k, ~mixed => k \subseteq master, NEW ms, NEW step, step # "idle",
           ~mixed /\ step \in {"write", "dump"} /\ c.op = "refresh" => ms \subseteq master,
           ~mixed /\ step \in {"cut_master", "dump_master"} => k = master,
           NEW r, r = [pc |-> step, cur |-> c.cur, op |-> c.op, todo |-> c.todo,
                       snapshot |-> c.snapshot, known |-> k, members |-> ms]
    PROVE  Request(r)
  BY DEF Request, Learned, UpToDate

\* What a process at work becomes when it fails or takes a step that only it sees.
LEMMA FetchKeeps ==
    ASSUME RegistryInv, NEW p \in Registry!Processes, Registry!Fetch(p)
    PROVE  RegistryInv'
  <1> DEFINE c == refresh[p]
  <1>1. c.pc = "fetch"
    BY DEF Registry!Fetch
  <1>2. /\ c # Registry!Idle /\ Request(c) /\ c.todo \subseteq Universes
        /\ ~mixed => c.known \subseteq master
    BY <1>1, RequestType DEF Learned
  <1>3. PICK r : /\ refresh' = [refresh EXCEPT ![p] = r]
                 /\ \/ \E ms : r \in Registry!Fetched([c EXCEPT !.members = ms])
                    \/ r \in Registry!Failed(c)
    BY DEF Registry!Fetch, Registry!Becomes
  <1>4. UNCHANGED <<snapshot, loaded, master, masterCache, crossedOut, mixed,
                    acknowledged>>
    BY DEF Registry!Fetch, Registry!registry, Registry!instruments, Registry!ghosts
  <1> HIDE DEF c
  <1>5. Request(r)
    <2>1. ASSUME NEW ms, r \in Registry!Fetched([c EXCEPT !.members = ms])
          PROVE  Request(r)
      <3> DEFINE d == [c EXCEPT !.members = ms]
      <3>1. d = [pc |-> c.pc, cur |-> c.cur, op |-> c.op, todo |-> c.todo,
                 snapshot |-> c.snapshot, known |-> c.known, members |-> ms]
        BY <1>2 DEF Request
      <3>2. d.todo \subseteq Universes /\ d.known = c.known /\ d.members = ms
        BY <1>2, <3>1
      <3> HIDE DEF d
      <3>3. \A step : Registry!At(d, step) =
                [pc |-> step, cur |-> c.cur, op |-> c.op, todo |-> c.todo,
                 snapshot |-> c.snapshot, known |-> c.known, members |-> ms]
        BY <3>1 DEF Registry!At
      <3>4. \/ r \in Registry!Continued(d)
            \/ r = Registry!At(d, "write") /\ ms \subseteq c.known
            \/ r = Registry!At(d, "extend")
        BY <2>1, <3>2 DEF Registry!Fetched, d
      <3>5. CASE r = Registry!At(d, "write") /\ ms \subseteq c.known
        BY <1>1, <1>2, <3>3, <3>5, StepRequest
      <3>6. CASE r = Registry!At(d, "extend")
        BY <1>1, <1>2, <3>3, <3>6, StepRequest
      <3> QED
        BY <3>2, <3>4, <3>5, <3>6, ContinuedRequest
    <2> QED
      BY <1>2, <1>3, <2>1, ContinuedRequest
  <1> QED
    BY <1>3, <1>4, <1>5, BecomesKeeps DEF RegistryInv

\* Reading the master past the cache.
LEMMA ReadMasterKeeps ==
    ASSUME RegistryInv, NEW p \in Registry!Processes, Registry!ReadMaster(p)
    PROVE  RegistryInv'
  <1> DEFINE c == refresh[p]
             d == [c EXCEPT !.known = master]
  <1>1. c.pc = "extend"
    BY DEF Registry!ReadMaster
  <1>2. /\ c # Registry!Idle /\ Request(c) /\ c.todo \subseteq Universes
    BY <1>1, RequestType
  <1>3. d = [pc |-> c.pc, cur |-> c.cur, op |-> c.op, todo |-> c.todo,
             snapshot |-> c.snapshot, known |-> master, members |-> c.members]
    BY <1>2 DEF Request
  <1>4. d.todo \subseteq Universes /\ d.members = c.members
    BY <1>2, <1>3
  <1>5. PICK r : /\ refresh' = [refresh EXCEPT ![p] = r]
                 /\ \/ r \in Registry!Failed(d)
                    \/ r = Registry!At(d, "write") /\ d.members \subseteq master
                    \/ r = Registry!At(d, "cut_master")
    BY DEF Registry!ReadMaster, Registry!Becomes
  <1>6. UNCHANGED <<snapshot, loaded, master, masterCache, crossedOut, mixed,
                    acknowledged>>
    BY DEF Registry!ReadMaster, Registry!registry, Registry!instruments, Registry!ghosts
  <1> HIDE DEF c, d
  <1>7. \A step : Registry!At(d, step) =
            [pc |-> step, cur |-> c.cur, op |-> c.op, todo |-> c.todo,
             snapshot |-> c.snapshot, known |-> master, members |-> c.members]
    BY <1>3 DEF Registry!At
  <1>8. Request(r)
    <2>1. CASE r = Registry!At(d, "write") /\ d.members \subseteq master
      BY <1>1, <1>2, <1>4, <1>7, <2>1, StepRequest
    <2>2. CASE r = Registry!At(d, "cut_master")
      BY <1>1, <1>2, <1>7, <2>2, StepRequest
    <2> QED
      BY <1>4, <1>5, <2>1, <2>2, ContinuedRequest
  <1> QED
    BY <1>5, <1>6, <1>8, BecomesKeeps DEF RegistryInv

\* Cutting a file, of the master or of a universe; or the file need not be written.
LEMMA CutKeeps ==
    ASSUME RegistryInv, NEW p \in Registry!Processes,
           Registry!CutMaster(p) \/ Registry!CutSnapshot(p) \/ Registry!DumpFails(p)
    PROVE  RegistryInv'
  <1> DEFINE c == refresh[p]
  <1>1. c.pc \in {"cut_master", "write", "dump", "dump_master"}
    BY DEF Registry!CutMaster, Registry!CutSnapshot, Registry!DumpFails
  <1>2. /\ c # Registry!Idle /\ Request(c) /\ c.todo \subseteq Universes
        /\ ~mixed => Learned(c)
    BY <1>1, RequestType
  <1>3. \A step : Registry!At(c, step) =
            [pc |-> step, cur |-> c.cur, op |-> c.op, todo |-> c.todo,
             snapshot |-> c.snapshot, known |-> c.known, members |-> c.members]
    BY <1>2 DEF Registry!At, Request
  <1>4. PICK r : /\ refresh' = [refresh EXCEPT ![p] = r]
                 /\ \/ r \in Registry!Failed(c) \cup Registry!Continued(c)
                    \/ r = Registry!At(c, "dump_master") /\ c.pc = "cut_master"
                    \/ r = Registry!At(c, "dump") /\ c.pc = "write"
    BY DEF Registry!CutMaster, Registry!CutSnapshot, Registry!DumpFails, Registry!Becomes
  <1>5. UNCHANGED <<snapshot, loaded, master, masterCache, crossedOut, mixed,
                    acknowledged>>
    BY DEF Registry!CutMaster, Registry!CutSnapshot, Registry!DumpFails,
           Registry!registry, Registry!instruments, Registry!ghosts
  <1> HIDE DEF c
  <1>6. Request(r)
    <2>1. CASE r = Registry!At(c, "dump_master") /\ c.pc = "cut_master"
      BY <1>1, <1>2, <1>3, <2>1, StepRequest DEF Learned
    <2>2. CASE r = Registry!At(c, "dump") /\ c.pc = "write"
      BY <1>1, <1>2, <1>3, <2>2, StepRequest DEF Learned
    <2> QED
      BY <1>2, <1>4, <2>1, <2>2, ContinuedRequest
  <1> QED
    BY <1>4, <1>5, <1>6, BecomesKeeps DEF RegistryInv

\* The master grows, unless two requests wrote it at once.
LEMMA DumpMasterKeeps ==
    ASSUME RegistryInv, NEW p \in Registry!Processes, Registry!DumpMaster(p)
    PROVE  RegistryInv'
  <1> DEFINE c == refresh[p]
  <1>1. /\ c.pc = "dump_master"
        /\ master' = c.known \cup c.members /\ masterCache' = {}
        /\ ~mixed' => /\ ~mixed
                      /\ \A q \in Registry!Processes \ {p} :
                             refresh[q].pc \notin {"cut_master", "dump_master"}
        /\ UNCHANGED <<snapshot, loaded, acknowledged, crossedOut>>
    BY DEF Registry!DumpMaster, Registry!registry
  <1>2. PICK r : r = Registry!At(c, "write") /\ refresh' = [refresh EXCEPT ![p] = r]
    BY DEF Registry!DumpMaster, Registry!Becomes
  <1>3. /\ c # Registry!Idle /\ Request(c) /\ (~mixed => Learned(c))
    BY <1>1, RequestType
  <1>4. ~mixed' => master \subseteq master'
    BY <1>1, <1>3 DEF Learned
  <1>5. /\ DOMAIN refresh' = Registry!Processes /\ refresh'[p] = r
        /\ \A q \in Registry!Processes \ {p} : refresh'[q] = refresh[q]
    BY <1>2 DEF RegistryInv
  <1>6. Request(refresh[p])'
    <2>1. r = [pc |-> "write", cur |-> c.cur, op |-> c.op, todo |-> c.todo,
               snapshot |-> c.snapshot, known |-> c.known, members |-> c.members]
      BY <1>2, <1>3 DEF Registry!At, Request
    <2>2. /\ c.cur \in Universes /\ c.todo \subseteq Universes /\ Snapshot(c.snapshot)
          /\ ~mixed => c.snapshot.members \subseteq master
          /\ c.cur \notin crossedOut => c.snapshot.benchmark = acknowledged[c.cur]
      BY <1>1, <1>3 DEF Request, Learned, UpToDate
    <2> HIDE DEF c
    <2> QED
      BY <1>1, <1>4, <1>5, <2>1, <2>2 DEF Request, Learned, UpToDate, Snapshot
  <1>7. \A q \in Registry!Processes \ {p} : Request(refresh[q])'
    <2> SUFFICES ASSUME NEW q \in Registry!Processes \ {p} PROVE Request(refresh[q])'
      OBVIOUS
    <2>1. PICK t : t = refresh[q] /\ refresh'[q] = t
      BY <1>5
    <2>2. Request(t)
      BY <2>1 DEF RegistryInv
    <2>3. ~mixed' => t.pc \notin {"cut_master", "dump_master"}
      BY <1>1, <2>1
    <2> HIDE DEF c
    <2> QED
      BY <1>1, <1>4, <2>1, <2>2, <2>3 DEF Request, Learned, UpToDate, Snapshot
  <1> HIDE DEF c
  <1>8. \A u \in Universes : \A s \in loaded[u] \cup {snapshot[u]} :
            ~mixed' => s.members \subseteq master'
    BY <1>1, <1>4 DEF RegistryInv
  <1> QED
    BY <1>1, <1>5, <1>6, <1>7, <1>8 DEF RegistryInv, Snapshot

\* A request that knows nothing yet is right about all there is.
Fresh(r) ==
    \/ r = Registry!Idle
    \/ \E u, what, rest : /\ u \in Universes /\ rest \subseteq Universes
                          /\ r = Registry!On(u, what, rest)

LEMMA FreshRequest ==
    ASSUME NEW c, c.todo \subseteq Universes, NEW r \in Registry!Continued(c)
    PROVE  Fresh(r)
  <1>1. \A us \in SUBSET Universes : \A what : \A t \in Registry!EachOf(what, us) : Fresh(t)
    BY DEF Registry!EachOf, Fresh
  <1> QED
    BY <1>1 DEF Registry!Continued, Fresh

\* The snapshot says what was set last, unless another request is on its universe.
LEMMA DumpSnapshotKeeps ==
    ASSUME RegistryInv, NEW p \in Registry!Processes, Registry!DumpSnapshot(p)
    PROVE  RegistryInv'
  <1> DEFINE c == refresh[p]
             u == c.cur
             s == Registry!Proposed(c)
  <1>1. /\ c.pc = "dump"
        /\ snapshot' = [snapshot EXCEPT ![u] = s]
        /\ loaded' = [v \in Universes |-> {}]
        /\ acknowledged' = IF c.op = "refresh" THEN acknowledged
                           ELSE [acknowledged EXCEPT ![u] = c.op]
        /\ crossedOut' = crossedOut \cup ({u} \cap {refresh[q].cur : q \in
               {q \in Registry!Processes \ {p} : refresh[q].pc # "idle"}})
        /\ UNCHANGED <<master, masterCache, mixed>>
    BY DEF Registry!DumpSnapshot, Registry!Cleared, Registry!instruments
  <1>2. PICK r \in Registry!Continued(c) : refresh' = [refresh EXCEPT ![p] = r]
    BY DEF Registry!DumpSnapshot, Registry!Becomes
  <1>3. /\ c # Registry!Idle /\ Request(c) /\ u \in Universes
        /\ c.todo \subseteq Universes /\ Snapshot(c.snapshot)
        /\ ~mixed => Learned(c)
        /\ u \notin crossedOut => c.snapshot.benchmark = acknowledged[u]
    BY <1>1, RequestType DEF UpToDate
  <1>4. DOMAIN refresh = Registry!Processes /\ DOMAIN snapshot = Universes
        /\ DOMAIN acknowledged = Universes
    BY DEF RegistryInv
  <1>5. /\ DOMAIN acknowledged' = Universes
        /\ \A v \in Universes \ {u} : acknowledged'[v] = acknowledged[v]
        /\ c.op = "refresh" => acknowledged'[u] = acknowledged[u]
        /\ c.op # "refresh" => acknowledged'[u] = c.op
    BY <1>1, <1>3, <1>4
  <1>6. /\ Snapshot(s) /\ (~mixed => s.members \subseteq master)
        /\ u \notin crossedOut => s.benchmark = acknowledged'[u]
    <2>1. s = IF c.op = "refresh"
              THEN [members |-> c.members, benchmark |-> c.snapshot.benchmark]
              ELSE [members |-> c.snapshot.members, benchmark |-> c.op]
      BY <1>3 DEF Registry!Proposed, Snapshot
    <2>2. ~mixed => /\ c.snapshot.members \subseteq master
                    /\ c.op = "refresh" => c.members \subseteq master
      BY <1>1, <1>3 DEF Learned
    <2> HIDE DEF c, u, s
    <2> QED
      BY <1>3, <1>5, <2>1, <2>2 DEF Snapshot
  <1>7. Fresh(r)
    BY <1>2, <1>3, FreshRequest
  <1>8. /\ refresh'[p] = r /\ DOMAIN refresh' = Registry!Processes
        /\ \A q \in Registry!Processes \ {p} : refresh'[q] = refresh[q]
    BY <1>2, <1>4
  <1>9. \A q \in Registry!Processes \ {p} : Request(refresh[q])'
    <2> SUFFICES ASSUME NEW q \in Registry!Processes \ {p} PROVE Request(refresh[q])'
      OBVIOUS
    <2>1. PICK t : t = refresh[q] /\ refresh'[q] = t
      BY <1>8
    <2>2. Request(t)
      BY <2>1 DEF RegistryInv
    <2>3. t.pc # "idle" /\ t.cur = u => u \in crossedOut'
      BY <1>1, <2>1
    <2> HIDE DEF c, u, s
    <2> QED
      BY <1>1, <1>5, <2>1, <2>2, <2>3 DEF Request, Learned, UpToDate, Snapshot
  <1> HIDE DEF c, u, s
  <1>10. Request(refresh[p])'
    <2>1. CASE r = Registry!Idle
      BY <1>8, <2>1 DEF Request
    <2>2. ASSUME NEW v, NEW what, NEW rest, v \in Universes, rest \subseteq Universes,
                 r = Registry!On(v, what, rest)
          PROVE  Request(refresh[p])'
      <3>1. /\ Snapshot(Registry!Unknown) /\ Registry!Unknown.members = {}
        BY DEF Snapshot, Registry!Unknown
      <3>2. r = [pc |-> "load", cur |-> v, op |-> what, todo |-> rest,
                 snapshot |-> Registry!Unknown, known |-> {}, members |-> {}]
        BY <2>2 DEF Registry!On
      <3>3. /\ r = [pc |-> r.pc, cur |-> r.cur, op |-> r.op, todo |-> r.todo,
                    snapshot |-> r.snapshot, known |-> r.known, members |-> r.members]
            /\ r.pc = "load" /\ r.known = {} /\ r.snapshot = Registry!Unknown
            /\ r.cur = v /\ r.todo = rest
        BY <3>2
      <3> QED
        BY <1>8, <2>2, <3>1, <3>3 DEF Request, Learned, UpToDate, Snapshot
    <2> QED
      BY <1>7, <2>1, <2>2 DEF Fresh
  <1>11. /\ DOMAIN snapshot' = Universes /\ snapshot'[u] = s
         /\ \A v \in Universes \ {u} : snapshot'[v] = snapshot[v]
    BY <1>1, <1>3, <1>4
  <1>12. \A v \in Universes : \A t \in loaded'[v] \cup {snapshot'[v]} :
             /\ Snapshot(t)
             /\ ~mixed' => t.members \subseteq master'
             /\ v \notin crossedOut' => t.benchmark = acknowledged'[v]
    <2> SUFFICES ASSUME NEW v \in Universes
                 PROVE  /\ Snapshot(snapshot'[v])
                        /\ ~mixed' => snapshot'[v].members \subseteq master'
                        /\ v \notin crossedOut' => snapshot'[v].benchmark = acknowledged'[v]
      BY <1>1
    <2>1. CASE v = u
      BY <1>1, <1>6, <1>11, <2>1
    <2>2. CASE v # u
      BY <1>1, <1>5, <1>11, <2>2 DEF RegistryInv
    <2> QED
      BY <2>1, <2>2
  <1> QED
    BY <1>1, <1>5, <1>8, <1>9, <1>10, <1>11, <1>12 DEF RegistryInv, Snapshot

LEMMA CrashKeepsRegistry ==
    ASSUME RegistryInv, Registry!Crash
    PROVE  RegistryInv'
  <1>1. /\ refresh' = [p \in Registry!Processes |-> Registry!Idle]
        /\ loaded' = [u \in Universes |-> {}] /\ masterCache' = {}
        /\ UNCHANGED <<snapshot, master, acknowledged, crossedOut, mixed>>
    BY DEF Registry!Crash, Registry!ghosts
  <1>2. \A p \in Registry!Processes : Request(refresh[p])'
    <2> SUFFICES ASSUME NEW p \in Registry!Processes PROVE Request(refresh[p])'
      OBVIOUS
    <2>1. refresh'[p] = Registry!Idle
      BY <1>1
    <2> QED
      BY <2>1 DEF Request
  <1> QED
    BY <1>1, <1>2 DEF RegistryInv, Snapshot

LEMMA InitRegistryInv == Registry!Init => RegistryInv
  <1> SUFFICES ASSUME Registry!Init PROVE RegistryInv
    OBVIOUS
  <1>1. PICK b \in Benchmarks :
            /\ snapshot = [u \in Universes |-> [members |-> {}, benchmark |-> b]]
            /\ acknowledged = [u \in Universes |-> b]
    BY DEF Registry!Init
  <1>2. /\ refresh = [p \in Registry!Processes |-> Registry!Idle]
        /\ loaded = [u \in Universes |-> {}] /\ masterCache = {}
    BY DEF Registry!Init
  <1> QED
    BY <1>1, <1>2, IdleRequest DEF RegistryInv, Snapshot

LEMMA StepRegistryInv == RegistryInv /\ [Registry!Next]_(Registry!vars) => RegistryInv'
  <1> SUFFICES ASSUME RegistryInv, [Registry!Next]_(Registry!vars) PROVE RegistryInv'
    OBVIOUS
  <1>1. CASE UNCHANGED Registry!vars
    BY <1>1 DEF Registry!vars, Registry!registry, Registry!instruments, Registry!ghosts,
                RegistryInv, Request, Learned, UpToDate, Snapshot
  <1>2. CASE Registry!Crash
    BY <1>2, CrashKeepsRegistry
  <1>3. ASSUME NEW p \in Registry!Processes,
               \/ Registry!Begin(p) \/ Registry!LoadSnapshot(p)
               \/ Registry!KeepSnapshot(p) \/ Registry!LoadMaster(p)
               \/ Registry!KeepMaster(p) \/ Registry!Fetch(p) \/ Registry!ReadMaster(p)
               \/ Registry!CutMaster(p) \/ Registry!DumpMaster(p)
               \/ Registry!CutSnapshot(p) \/ Registry!DumpSnapshot(p)
               \/ Registry!DumpFails(p)
        PROVE  RegistryInv'
    BY <1>3, BeginKeeps, LoadSnapshotKeeps, KeepSnapshotKeeps, LoadMasterKeeps,
       FetchKeeps, ReadMasterKeeps, CutKeeps, DumpMasterKeeps, DumpSnapshotKeeps
  <1> QED
    BY <1>1, <1>2, <1>3 DEF Registry!Next

\* The members of a snapshot are instruments of the master, and a benchmark that was set
\* stays (data/universe.py, refresh_snapshot_from_source and update_benchmark), of any
\* universes, instruments and threads, whatever fails between the steps of a request;
\* but for the two interleavings that the ghosts remember.
THEOREM RegistryStays == Registry!Spec => []RegistryKept
  <1>1. RegistryInv => RegistryKept
    BY DEF RegistryInv, RegistryKept, Registry!RegistryKept, Registry!MembersKnown,
           Registry!BenchmarkKept
  <1> QED
    BY <1>1, InitRegistryInv, StepRegistryInv, PTL DEF Registry!Spec

-----------------------------------------------------------------------------
(* The cache of bars.                                                        *)

Days == Cache!Days

\* A column has bars in the window that was asked for, and nowhere else.
Column(p, b) ==
    /\ DOMAIN b = Days
    /\ \A d \in Days : b[d] # "none" => d \in Cache!Window(p)

\* An entry says nothing of a file that there is not, and no more than a file holds.
Holds(b, e) ==
    IF b = Cache!NoFile THEN e = Cache!NoEntry
    ELSE \A d \in e.from .. e.to : b[d] # "none"

Entry == {Cache!NoEntry} \cup [from : Days, to : Days]

CacheType ==
    /\ {DOMAIN cpc, DOMAIN want, DOMAIN frame, DOMAIN entries, DOMAIN todo, DOMAIN cur,
        DOMAIN cbase} = {Fetchers}
    /\ DOMAIN file = Tickers
    /\ \A t \in Tickers : file[t] = Cache!NoFile \/ DOMAIN file[t] = Days
    /\ index \in [Tickers -> Entry]

\* A request asks for days that there are, and downloads what it asks for.
Downloading ==
    \A p \in Fetchers :
        /\ cpc[p] # "idle" => {want[p].from, want[p].to} \subseteq Days
        /\ cpc[p] \in {"open", "store"} =>
               \A t \in DOMAIN frame[p] : Column(p, frame[p][t])

Storing ==
    \A p \in Fetchers :
        /\ cpc[p] = "store" =>
               /\ entries[p] \in [Tickers -> Entry]
               /\ \A t \in todo[p] : t \in DOMAIN frame[p] /\ Cache!HasBars(frame[p][t])
        /\ cur[p] \in {Cache!NoTicker} \cup (IF cpc[p] = "store" THEN todo[p] ELSE {})

\* What holds of the index holds of each index that is being extended, too.
Truthful ==
    \A t \in Tickers \ spoiled :
        /\ Holds(file[t], index[t])
        /\ \A p \in Fetchers : cpc[p] = "store" => Holds(file[t], entries[p][t])

CacheInv == CacheType /\ Downloading /\ Storing /\ Truthful

\* The bars of a request that downloads or stores, under steps of others.
LEMMA SameFrames ==
    ASSUME Downloading, NEW p \in Fetchers, cpc'[p] \in {"open", "store"},
           cpc[p] \in {"open", "store"}, frame'[p] = frame[p], want'[p] = want[p]
    PROVE  \A t \in DOMAIN frame'[p] : Column(p, frame[p][t])'
  <1> SUFFICES ASSUME NEW t \in DOMAIN frame[p] PROVE Column(p, frame[p][t])'
    BY frame'[p] = frame[p]
  <1>1. Column(p, frame[p][t])
    BY DEF Downloading
  <1> QED
    BY <1>1 DEF Column, Cache!Window, Days, Cache!Days

LEMMA CacheTypes ==
    ASSUME CacheType
    PROVE  /\ DOMAIN cpc = Fetchers /\ DOMAIN want = Fetchers /\ DOMAIN frame = Fetchers
           /\ DOMAIN entries = Fetchers /\ DOMAIN todo = Fetchers
           /\ DOMAIN cur = Fetchers /\ DOMAIN cbase = Fetchers
  BY DEF CacheType

\* What a step keeps when it changes a request that stores nothing, and nothing else.
LEMMA RequestKeeps ==
    ASSUME CacheInv, NEW p \in Fetchers,
           UNCHANGED <<file, index, entries, todo, cur, cbase, spoiled>>,
           {DOMAIN cpc', DOMAIN want', DOMAIN frame'} = {Fetchers},
           \A q \in Fetchers \ {p} : /\ cpc'[q] = cpc[q] /\ want'[q] = want[q]
                                     /\ frame'[q] = frame[q],
           "store" \notin {cpc[p], cpc'[p]},
           cpc'[p] # "idle" => {want'[p].from, want'[p].to} \subseteq Days,
           cpc'[p] = "open" => \A t \in DOMAIN frame'[p] : Column(p, frame[p][t])'
    PROVE  CacheInv'
  <1>1. CacheType'
    BY DEF CacheInv, CacheType, Days, Cache!Days, Cache!NoFile, Entry, Cache!NoEntry
  <1>2. Downloading'
    <2> SUFFICES ASSUME NEW q \in Fetchers
                 PROVE  /\ cpc'[q] # "idle" => {want'[q].from, want'[q].to} \subseteq Days
                        /\ cpc'[q] \in {"open", "store"} =>
                               \A t \in DOMAIN frame'[q] : Column(q, frame[q][t])'
      BY DEF Downloading, Days, Cache!Days
    <2>1. CASE q = p
      BY <2>1
    <2>2. CASE q # p
      BY <2>2, SameFrames DEF CacheInv, Downloading
    <2> QED
      BY <2>1, <2>2
  <1>3. Storing'
    <2> SUFFICES ASSUME NEW q \in Fetchers
                 PROVE  /\ cpc'[q] = "store" =>
                               /\ entries'[q] \in [Tickers -> Entry]
                               /\ \A t \in todo'[q] : /\ t \in DOMAIN frame'[q]
                                                      /\ Cache!HasBars(frame[q][t])'
                        /\ cur'[q] \in {Cache!NoTicker} \cup
                               (IF cpc'[q] = "store" THEN todo'[q] ELSE {})
      BY DEF Storing, Entry, Days
    <2>1. cpc'[q] = "store" => cpc[q] = "store" /\ frame'[q] = frame[q]
      OBVIOUS
    <2> QED
      BY <2>1 DEF CacheInv, Storing, Cache!HasBars
  <1>4. Truthful'
    BY DEF CacheInv, Truthful, Holds, Cache!NoFile, Cache!NoEntry
  <1> QED
    BY <1>1, <1>2, <1>3, <1>4 DEF CacheInv

LEMMA FetchOhlcvKeeps ==
    ASSUME CacheInv, NEW p \in Fetchers, Cache!FetchOhlcv(p)
    PROVE  CacheInv'
  <1>1. CacheType
    BY DEF CacheInv
  <1>2. \E f \in Days, t \in Days : \E ts, h, limited :
            want' = [want EXCEPT ![p] = [from |-> f, to |-> t, tickers |-> ts,
                                         forced |-> h, limited |-> limited]]
    BY DEF Cache!FetchOhlcv, Days
  <1>3. /\ cpc[p] = "idle" /\ cpc' = [cpc EXCEPT ![p] = "look"]
        /\ UNCHANGED <<file, index, frame, entries, todo, cur, cbase, spoiled>>
    BY DEF Cache!FetchOhlcv, Cache!disk, Cache!store
  <1> QED
    BY <1>1, <1>2, <1>3, CacheTypes, RequestKeeps

LEMMA LookKeeps ==
    ASSUME CacheInv, NEW p \in Fetchers, Cache!Look(p)
    PROVE  CacheInv'
  <1>1. CacheType /\ Downloading
    BY DEF CacheInv
  <1>2. /\ cpc[p] = "look"
        /\ \E step \in {"done", "download"} : cpc' = [cpc EXCEPT ![p] = step]
        /\ UNCHANGED <<file, index, want, frame, entries, todo, cur, cbase, spoiled>>
    BY DEF Cache!Look, Cache!disk, Cache!store
  <1>3. {want[p].from, want[p].to} \subseteq Days
    BY <1>1, <1>2 DEF Downloading
  <1> QED
    BY <1>1, <1>2, <1>3, CacheTypes, RequestKeeps

LEMMA MergedColumns ==
    ASSUME NEW p, NEW f, \A t \in DOMAIN f : Column(p, f[t]),
           NEW g, \A t \in DOMAIN g : Column(p, g[t])
    PROVE  \A t \in DOMAIN Cache!MergeFrames(f, g) : Column(p, Cache!MergeFrames(f, g)[t])
  BY DEF Cache!MergeFrames, Cache!Beside

LEMMA BulkColumns ==
    ASSUME NEW p, NEW ts, NEW f \in Cache!Bulk(p, ts)
    PROVE  \A t \in DOMAIN f : Column(p, f[t])
  <1>1. ASSUME NEW b \in Cache!Columns(p) PROVE Column(p, b)
    <2>1. CASE b = Cache!NoBars
      BY <2>1 DEF Column, Cache!NoBars, Days
    <2>2. CASE b # Cache!NoBars
      <3>1. PICK hole \in Holes :
                b = [d \in Cache!Days |-> IF d \in Cache!Window(p) \ hole
                                          THEN Cache!Bar(d) ELSE "none"]
        BY <2>2 DEF Cache!Columns
      <3> QED
        BY <3>1 DEF Column, Days
    <2> QED
      BY <2>1, <2>2
  <1>2. PICK some \in SUBSET ts : f \in [some -> Cache!Columns(p)]
    BY DEF Cache!Bulk
  <1> QED
    BY <1>1, <1>2

LEMMA RetriesColumns ==
    ASSUME NEW p, NEW f, NEW ts, NEW g \in Cache!Retries(p, f, ts)
    PROVE  \A t \in DOMAIN g : Column(p, g[t])
  <1>1. CASE g = <<>>
    BY <1>1
  <1>2. ASSUME NEW us, g \in Cache!Singles(p, us)
        PROVE  \A t \in DOMAIN g : Column(p, g[t])
    BY <1>2, BulkColumns DEF Cache!Singles
  <1>3. ASSUME NEW c \in Cache!Bulk(p, Cache!Missing(f, ts)), NEW us,
               NEW s \in Cache!Singles(p, us), g = Cache!MergeFrames(c, s)
        PROVE  \A t \in DOMAIN g : Column(p, g[t])
    <2>1. \A t \in DOMAIN c : Column(p, c[t])
      BY BulkColumns
    <2>2. s \in Cache!Bulk(p, us)
      BY DEF Cache!Singles
    <2>3. \A t \in DOMAIN s : Column(p, s[t])
      BY <2>2, BulkColumns
    <2> QED
      BY <1>3, <2>1, <2>3, MergedColumns
  <1> QED
    BY <1>1, <1>2, <1>3 DEF Cache!Retries

LEMMA DownloadKeeps ==
    ASSUME CacheInv, NEW p \in Fetchers, Cache!Download(p)
    PROVE  CacheInv'
  <1>1. CacheType /\ Downloading
    BY DEF CacheInv
  <1>2. PICK f \in Cache!Bulk(p, misses[p]) : \E h \in Cache!Retries(p, f, misses[p]) :
            /\ frame' = [frame EXCEPT ![p] = Cache!MergeFrames(f, h)]
            /\ \E step \in {"failed", "done", "open"} : cpc' = [cpc EXCEPT ![p] = step]
    BY DEF Cache!Download
  <1>3. PICK h \in Cache!Retries(p, f, misses[p]) :
            /\ frame' = [frame EXCEPT ![p] = Cache!MergeFrames(f, h)]
            /\ \E step \in {"failed", "done", "open"} : cpc' = [cpc EXCEPT ![p] = step]
    BY <1>2
  <1>4. /\ cpc[p] = "download"
        /\ UNCHANGED <<file, index, want, entries, todo, cur, cbase, spoiled>>
    BY DEF Cache!Download, Cache!disk, Cache!store
  <1>5. {want[p].from, want[p].to} \subseteq Days
    BY <1>1, <1>4 DEF Downloading
  <1>6. \A t \in DOMAIN frame'[p] : Column(p, frame'[p][t])
    <2>1. \A t \in DOMAIN f : Column(p, f[t])
      BY BulkColumns
    <2>2. \A t \in DOMAIN h : Column(p, h[t])
      BY RetriesColumns
    <2> QED
      BY <1>1, <1>3, <2>1, <2>2, CacheTypes, MergedColumns
  <1>7. \A t \in DOMAIN frame'[p] : Column(p, frame[p][t])'
    BY <1>4, <1>6 DEF Column, Cache!Window
  <1> QED
    BY <1>1, <1>3, <1>4, <1>5, <1>7, CacheTypes, RequestKeeps

\* What a request that stores keeps when the file and the index stay as they are.
LEMMA StoringKeeps ==
    ASSUME CacheInv, NEW p \in Fetchers, cpc[p] \in {"open", "store"}, cpc'[p] = "store",
           UNCHANGED <<file, index, want, frame, spoiled>>,
           {DOMAIN cpc', DOMAIN entries', DOMAIN todo', DOMAIN cur', DOMAIN cbase'} =
               {Fetchers},
           \A q \in Fetchers \ {p} : /\ cpc'[q] = cpc[q] /\ entries'[q] = entries[q]
                                     /\ todo'[q] = todo[q] /\ cur'[q] = cur[q],
           entries'[p] = index \/ (cpc[p] = "store" /\ entries'[p] = entries[p]),
           \A t \in todo'[p] : t \in DOMAIN frame[p] /\ Cache!HasBars(frame[p][t]),
           cur'[p] \in todo'[p] \cup {Cache!NoTicker}
    PROVE  CacheInv'
  <1>1. CacheType'
    BY DEF CacheInv, CacheType, Days, Cache!Days, Cache!NoFile, Entry, Cache!NoEntry
  <1>2. Downloading'
    <2> SUFFICES ASSUME NEW q \in Fetchers
                 PROVE  /\ cpc'[q] # "idle" => {want'[q].from, want'[q].to} \subseteq Days
                        /\ cpc'[q] \in {"open", "store"} =>
                               \A t \in DOMAIN frame'[q] : Column(q, frame[q][t])'
      BY DEF Downloading, Days, Cache!Days
    <2>1. cpc'[q] # "idle" => cpc[q] # "idle"
      OBVIOUS
    <2>2. cpc'[q] \in {"open", "store"} => cpc[q] \in {"open", "store"}
      OBVIOUS
    <2> QED
      BY <2>1, <2>2, SameFrames DEF CacheInv, Downloading
  <1>3. Storing'
    <2> SUFFICES ASSUME NEW q \in Fetchers
                 PROVE  /\ cpc'[q] = "store" =>
                               /\ entries'[q] \in [Tickers -> Entry]
                               /\ \A t \in todo'[q] : /\ t \in DOMAIN frame'[q]
                                                      /\ Cache!HasBars(frame[q][t])'
                        /\ cur'[q] \in {Cache!NoTicker} \cup
                               (IF cpc'[q] = "store" THEN todo'[q] ELSE {})
      BY DEF Storing, Entry, Days
    <2>1. CASE q = p
      <3>1. entries'[p] \in [Tickers -> Entry]
        BY DEF CacheInv, CacheType, Storing
      <3> QED
        BY <2>1, <3>1 DEF Cache!HasBars
    <2>2. CASE q # p
      BY <2>2 DEF CacheInv, Storing, Cache!HasBars
    <2> QED
      BY <2>1, <2>2
  <1>4. Truthful'
    BY DEF CacheInv, Truthful, Holds, Cache!NoFile, Cache!NoEntry
  <1> QED
    BY <1>1, <1>2, <1>3, <1>4 DEF CacheInv

LEMMA OpenIndexKeeps ==
    ASSUME CacheInv, NEW p \in Fetchers, Cache!OpenIndex(p)
    PROVE  CacheInv'
  <1>1. CacheType /\ Storing
    BY DEF CacheInv
  <1>2. /\ cpc[p] = "open" /\ cpc' = [cpc EXCEPT ![p] = "store"]
        /\ entries' = [entries EXCEPT ![p] = index]
        /\ todo' = [todo EXCEPT ![p] =
               {t \in DOMAIN frame[p] : Cache!HasBars(frame[p][t])}]
        /\ UNCHANGED <<file, index, want, frame, cur, cbase, spoiled>>
    BY DEF Cache!OpenIndex, Cache!disk
  <1>3. cur[p] = Cache!NoTicker
    BY <1>1, <1>2 DEF Storing
  <1>4. \A t \in todo'[p] : t \in DOMAIN frame[p] /\ Cache!HasBars(frame[p][t])
    BY <1>1, <1>2, CacheTypes
  <1>5. /\ \A q \in Fetchers \ {p} : /\ cpc'[q] = cpc[q] /\ entries'[q] = entries[q]
                                     /\ todo'[q] = todo[q] /\ cur'[q] = cur[q]
        /\ cpc'[p] = "store" /\ entries'[p] = index /\ cur'[p] = Cache!NoTicker
        /\ {DOMAIN cpc', DOMAIN entries', DOMAIN todo', DOMAIN cur', DOMAIN cbase'} =
               {Fetchers}
    BY <1>1, <1>2, <1>3, CacheTypes
  <1> QED
    BY <1>2, <1>4, <1>5, StoringKeeps

LEMMA ReadTickerKeeps ==
    ASSUME CacheInv, NEW p \in Fetchers, Cache!ReadTicker(p)
    PROVE  CacheInv'
  <1>1. CacheType /\ Storing
    BY DEF CacheInv
  <1>2. /\ cpc[p] = "store"
        /\ \E t \in todo[p] : cur' = [cur EXCEPT ![p] = t]
        /\ \E b : cbase' = [cbase EXCEPT ![p] = b]
        /\ UNCHANGED <<file, index, cpc, want, frame, entries, todo, spoiled>>
    BY DEF Cache!ReadTicker, Cache!disk
  <1>3. \A t \in todo[p] : t \in DOMAIN frame[p] /\ Cache!HasBars(frame[p][t])
    BY <1>1, <1>2 DEF Storing
  <1> QED
    BY <1>1, <1>2, <1>3, CacheTypes, StoringKeeps

\* What was merged has the days of the old file and of the window that was downloaded.
LEMMA MergedHolds ==
    ASSUME NEW p, \A u \in DOMAIN frame[p] : Column(p, frame[p][u]),
           NEW t \in DOMAIN frame[p], NEW old,
           \A d \in Cache!Window(p) : frame[p][t][d] # "none",
           {want[p].from, want[p].to} \subseteq Days,
           NEW e \in Entry, Holds(old, e),
           DOMAIN old = Days \/ old = Cache!NoFile,
           Cache!HasBars(frame[p][t])
    PROVE  LET new == Cache!Merged(old, frame[p], t)
           IN  /\ DOMAIN new = Days /\ new # Cache!NoFile
               /\ \A d \in e.from .. e.to : new[d] # "none"
               /\ \A d \in Cache!Window(p) : new[d] # "none"
  <1> DEFINE new == Cache!Merged(old, frame[p], t)
             rows == {d \in Days : \E u \in DOMAIN frame[p] : frame[p][u][d] # "none"}
  <1>1. rows \subseteq Cache!Window(p)
    BY DEF Column
  <1>2. Cache!Window(p) \subseteq Days
    BY PartsAssumption DEF Cache!Window, Days, Cache!Days
  <1>3. e.from .. e.to \subseteq Days
    <2>1. CASE e = Cache!NoEntry
      BY <2>1, PartsAssumption DEF Cache!NoEntry
    <2>2. CASE e # Cache!NoEntry
      BY <2>2, PartsAssumption DEF Entry, Days, Cache!Days
    <2> QED
      BY <2>1, <2>2
  <1>4. e = Cache!NoEntry => e.from .. e.to = {}
    BY PartsAssumption DEF Cache!NoEntry
  <1>5. DOMAIN new = Days
    BY DEF Cache!Merged, Column, Days
  <1>6. \E d : d \in Days
    BY DEF Cache!HasBars, Days
  <1>7. new # Cache!NoFile
    BY <1>5, <1>6 DEF Cache!NoFile
  <1>8. CASE old = Cache!NoFile
    BY <1>4, <1>5, <1>7, <1>8 DEF Cache!Merged, Holds
  <1>9. CASE old # Cache!NoFile
    <2>1. new = [d \in Days |-> IF d \in rows THEN frame[p][t][d] ELSE old[d]]
      BY <1>9 DEF Cache!Merged, Days
    <2>2. \A d \in e.from .. e.to : old[d] # "none"
      BY <1>9 DEF Holds
    <2> HIDE DEF new
    <2>3. \A d \in e.from .. e.to : new[d] # "none"
      BY <1>1, <1>3, <2>1, <2>2
    <2>4. \A d \in Cache!Window(p) : d \in rows
      BY <1>2
    <2>5. \A d \in Cache!Window(p) : new[d] # "none"
      BY <1>2, <2>1, <2>4
    <2> QED
      BY <1>5, <1>7, <2>3, <2>5 DEF new
  <1> QED
    BY <1>8, <1>9

\* The window of both, but what lies between them.
LEMMA HullType ==
    ASSUME NEW p, {want[p].from, want[p].to} \subseteq Days, NEW e \in Entry
    PROVE  /\ Cache!Hull(e, p) \in Entry
           /\ e = Cache!NoEntry => Cache!Hull(e, p).from .. Cache!Hull(e, p).to = Cache!Window(p)
           /\ ~(want[p].from > e.to + 1 \/ want[p].to < e.from - 1) =>
                  \A d \in Cache!Hull(e, p).from .. Cache!Hull(e, p).to :
                      d \in e.from .. e.to \/ d \in Cache!Window(p)
  <1>1. LastDay \in Nat
    BY PartsAssumption
  <1>2. want[p].from \in 1 .. LastDay /\ want[p].to \in 1 .. LastDay
    BY DEF Days, Cache!Days
  <1>3. CASE e = Cache!NoEntry
    <2>1. e.from = LastDay + 1 /\ e.to = 0
      BY <1>3 DEF Cache!NoEntry
    <2>2. Cache!Hull(e, p) = [from |-> want[p].from, to |-> want[p].to]
      BY <1>1, <1>2, <2>1 DEF Cache!Hull
    <2> QED
      BY <2>2 DEF Entry, Cache!Window
  <1>4. CASE e # Cache!NoEntry
    <2>1. e.from \in 1 .. LastDay /\ e.to \in 1 .. LastDay
      BY <1>4 DEF Entry, Days, Cache!Days
    <2>2. PICK f, t : Cache!Hull(e, p) = [from |-> f, to |-> t]
                      /\ f = (IF e.from < want[p].from THEN e.from ELSE want[p].from)
                      /\ t = (IF e.to > want[p].to THEN e.to ELSE want[p].to)
      BY DEF Cache!Hull
    <2>3. f \in 1 .. LastDay /\ t \in 1 .. LastDay
      BY <1>2, <2>1, <2>2
    <2>4. Cache!Hull(e, p) \in Entry
      BY <2>2, <2>3 DEF Entry, Days, Cache!Days
    <2> QED
      BY <1>1, <1>2, <1>4, <2>1, <2>2, <2>3, <2>4 DEF Cache!Window
  <1> QED
    BY <1>3, <1>4

LEMMA WriteTickerKeeps ==
    ASSUME CacheInv, NEW p \in Fetchers, Cache!WriteTicker(p)
    PROVE  CacheInv'
  <1> DEFINE t == cur[p]
             new == Cache!Merged(cbase[p], frame[p], t)
  <1>1. CacheType /\ Downloading /\ Storing /\ Truthful
    BY DEF CacheInv
  <1>2. PICK written \in BOOLEAN :
            /\ IF written THEN file' = [file EXCEPT ![t] = new] ELSE file' = file
            /\ IF Cache!Spoils(p, t, written) THEN spoiled' = spoiled \cup {t}
               ELSE spoiled' = spoiled
    BY DEF Cache!WriteTicker
  <1>3. /\ cpc[p] = "store" /\ t # Cache!NoTicker
        /\ entries' = [entries EXCEPT ![p][t] = Cache!Hull(@, p)]
        /\ todo' = [todo EXCEPT ![p] = @ \ {t}]
        /\ cur' = [cur EXCEPT ![p] = Cache!NoTicker]
        /\ \E b : cbase' = [cbase EXCEPT ![p] = b]
        /\ UNCHANGED <<index, cpc, want, frame>>
    BY DEF Cache!WriteTicker
  <1>4. /\ {want[p].from, want[p].to} \subseteq Days
        /\ \A u \in DOMAIN frame[p] : Column(p, frame[p][u])
    BY <1>1, <1>3 DEF Downloading
  <1>5. /\ t \in todo[p] /\ t \in DOMAIN frame[p] /\ Cache!HasBars(frame[p][t])
        /\ \A u \in todo[p] : u \in DOMAIN frame[p] /\ Cache!HasBars(frame[p][u])
        /\ entries[p] \in [Tickers -> Entry]
    BY <1>1, <1>3 DEF Storing
  <1>6. DOMAIN new = Days
    BY <1>4, <1>5 DEF Cache!Merged, Column, Days
  <1>7. /\ DOMAIN file' = Tickers
        /\ \A x \in Tickers : file'[x] = file[x] \/ (x = t /\ written /\ file'[x] = new)
    <2>1. DOMAIN file = Tickers
      BY <1>1 DEF CacheType
    <2> HIDE DEF t, new
    <2>2. CASE written
      BY <1>2, <2>1, <2>2
    <2>3. CASE ~written
      BY <1>2, <2>1, <2>3
    <2> QED
      BY <2>2, <2>3
  <1>8. /\ DOMAIN entries' = Fetchers /\ DOMAIN todo' = Fetchers /\ DOMAIN cur' = Fetchers
        /\ DOMAIN cbase' = Fetchers
        /\ \A q \in Fetchers \ {p} : /\ entries'[q] = entries[q] /\ todo'[q] = todo[q]
                                     /\ cur'[q] = cur[q]
        /\ entries'[p] = [entries[p] EXCEPT ![t] = Cache!Hull(@, p)]
        /\ todo'[p] = todo[p] \ {t} /\ cur'[p] = Cache!NoTicker
    BY <1>1, <1>3, CacheTypes
  <1>9. /\ entries'[p] \in [Tickers -> Entry]
        /\ \A x \in Tickers \ {t} : entries'[p][x] = entries[p][x]
        /\ t \in Tickers => entries'[p][t] = Cache!Hull(entries[p][t], p)
    <2>1. t \in Tickers => Cache!Hull(entries[p][t], p) \in Entry
      BY <1>4, <1>5, HullType
    <2> HIDE DEF t
    <2> QED
      BY <1>5, <1>8, <2>1
  <1> HIDE DEF t, new
  <1>10. CacheType'
    BY <1>1, <1>3, <1>6, <1>7, <1>8 DEF CacheType, Cache!NoFile, Entry, Days
  <1>11. Downloading'
    <2> SUFFICES ASSUME NEW q \in Fetchers
                 PROVE  /\ cpc'[q] # "idle" => {want'[q].from, want'[q].to} \subseteq Days
                        /\ cpc'[q] \in {"open", "store"} =>
                               \A u \in DOMAIN frame'[q] : Column(q, frame[q][u])'
      BY DEF Downloading, Days, Cache!Days
    <2> QED
      BY <1>1, <1>3, SameFrames DEF Downloading
  <1>12. Storing'
    <2> SUFFICES ASSUME NEW q \in Fetchers
                 PROVE  /\ cpc'[q] = "store" =>
                               /\ entries'[q] \in [Tickers -> Entry]
                               /\ \A u \in todo'[q] : /\ u \in DOMAIN frame'[q]
                                                      /\ Cache!HasBars(frame[q][u])'
                        /\ cur'[q] \in {Cache!NoTicker} \cup
                               (IF cpc'[q] = "store" THEN todo'[q] ELSE {})
      BY DEF Storing, Entry, Days
    <2>1. CASE q = p
      BY <1>3, <1>5, <1>8, <1>9, <2>1 DEF Cache!HasBars
    <2>2. CASE q # p
      BY <1>1, <1>3, <1>8, <2>2 DEF Storing, Cache!HasBars
    <2> QED
      BY <2>1, <2>2
  <1>13. ASSUME NEW x \in Tickers, x \notin spoiled'
         PROVE  /\ Holds(file'[x], index'[x])
                /\ \A q \in Fetchers : cpc'[q] = "store" => Holds(file'[x], entries'[q][x])
    <2>1. /\ x \notin spoiled
          /\ x = t => ~Cache!Spoils(p, t, written)
      BY <1>2, <1>13
    <2>2. /\ Holds(file[x], index[x]) /\ index[x] \in Entry
          /\ \A q \in Fetchers : cpc[q] = "store" =>
                 Holds(file[x], entries[q][x]) /\ entries[q][x] \in Entry
      BY <1>1, <2>1 DEF Truthful, CacheType, Storing
    <2>3. CASE x # t
      BY <1>3, <1>7, <1>8, <1>9, <2>2, <2>3
    <2>4. CASE x = t
      <3>1. /\ written /\ cbase[p] = file[x]
            /\ \A d \in Cache!Window(p) : frame[p][x][d] # "none"
            /\ \/ entries[p][x] = Cache!NoEntry
               \/ ~(want[p].from > entries[p][x].to + 1 \/ want[p].to < entries[p][x].from - 1)
        BY <1>5, <2>1, <2>4 DEF Cache!Spoils, Cache!Lacks, Cache!LeavesGap
      <3>2. file'[x] = Cache!Merged(file[x], frame[p], x)
        BY <1>1, <1>2, <2>4, <3>1 DEF CacheType, new
      <3>3. DOMAIN file[x] = Days \/ file[x] = Cache!NoFile
        BY <1>1 DEF CacheType
      <3>4. /\ file'[x] # Cache!NoFile
            /\ \A e \in Entry : Holds(file[x], e) =>
                   \A d \in e.from .. e.to : file'[x][d] # "none"
            /\ \A d \in Cache!Window(p) : file'[x][d] # "none"
        BY <1>4, <1>5, <2>2, <2>4, <3>1, <3>2, <3>3, MergedHolds
      <3>5. Holds(file'[x], index'[x])
        BY <1>3, <2>2, <3>4 DEF Holds
      <3>6. Holds(file'[x], entries'[p][x])
        <4>1. entries'[p][x] = Cache!Hull(entries[p][x], p)
          BY <1>9, <2>4
        <4>2. \A d \in entries'[p][x].from .. entries'[p][x].to :
                  \/ d \in entries[p][x].from .. entries[p][x].to
                  \/ d \in Cache!Window(p)
          BY <1>3, <1>4, <2>2, <3>1, <4>1, HullType
        <4> QED
          BY <1>3, <2>2, <3>4, <4>2 DEF Holds
      <3> QED
        BY <1>3, <1>8, <2>2, <3>4, <3>5, <3>6 DEF Holds
    <2> QED
      BY <2>3, <2>4
  <1>14. Truthful'
    BY <1>13 DEF Truthful, Holds, Cache!NoFile, Cache!NoEntry
  <1> QED
    BY <1>10, <1>11, <1>12, <1>14 DEF CacheInv

\* What is over for a request; index' is what some request says, or what it was.
LEMMA OverKeeps ==
    ASSUME CacheInv, NEW ps, UNCHANGED <<file, spoiled>>,
           {DOMAIN cpc', DOMAIN want', DOMAIN frame', DOMAIN entries', DOMAIN todo',
            DOMAIN cur', DOMAIN cbase'} = {Fetchers},
           \A q \in Fetchers \ ps : /\ cpc'[q] = cpc[q] /\ want'[q] = want[q]
                                    /\ frame'[q] = frame[q] /\ entries'[q] = entries[q]
                                    /\ todo'[q] = todo[q] /\ cur'[q] = cur[q],
           \A q \in ps : /\ cpc'[q] = "idle" \/ (cpc'[q] = "done" /\ cpc[q] = "store"
                                                 /\ want'[q] = want[q])
                         /\ cur'[q] = Cache!NoTicker,
           index' = index \/ \E q \in Fetchers : cpc[q] = "store" /\ index' = entries[q]
    PROVE  CacheInv'
  <1>1. CacheType'
    BY DEF CacheInv, CacheType, Days, Cache!NoFile, Entry, Storing
  <1>2. Downloading'
    <2> SUFFICES ASSUME NEW q \in Fetchers
                 PROVE  /\ cpc'[q] # "idle" => {want'[q].from, want'[q].to} \subseteq Days
                        /\ cpc'[q] \in {"open", "store"} =>
                               \A t \in DOMAIN frame'[q] : Column(q, frame[q][t])'
      BY DEF Downloading, Days, Cache!Days
    <2>1. CASE q \in ps
      BY <2>1 DEF CacheInv, Downloading
    <2>2. CASE q \notin ps
      BY <2>2, SameFrames DEF CacheInv, Downloading
    <2> QED
      BY <2>1, <2>2
  <1>3. Storing'
    <2> SUFFICES ASSUME NEW q \in Fetchers
                 PROVE  /\ cpc'[q] = "store" =>
                               /\ entries'[q] \in [Tickers -> Entry]
                               /\ \A t \in todo'[q] : /\ t \in DOMAIN frame'[q]
                                                      /\ Cache!HasBars(frame[q][t])'
                        /\ cur'[q] \in {Cache!NoTicker} \cup
                               (IF cpc'[q] = "store" THEN todo'[q] ELSE {})
      BY DEF Storing, Entry, Days
    <2>1. CASE q \in ps
      BY <2>1
    <2>2. CASE q \notin ps
      BY <2>2 DEF CacheInv, Storing, Cache!HasBars
    <2> QED
      BY <2>1, <2>2
  <1>4. Truthful'
    <2>1. \A q \in Fetchers : cpc'[q] = "store" => cpc[q] = "store" /\ entries'[q] = entries[q]
      OBVIOUS
    <2> QED
      BY <2>1 DEF CacheInv, Truthful, Holds, Cache!NoFile, Cache!NoEntry
  <1> QED
    BY <1>1, <1>2, <1>3, <1>4 DEF CacheInv

LEMMA SaveIndexKeeps ==
    ASSUME CacheInv, NEW p \in Fetchers, Cache!SaveIndex(p)
    PROVE  CacheInv'
  <1>1. /\ cpc[p] = "store" /\ cur[p] = Cache!NoTicker
        /\ index' \in {index, entries[p]}
        /\ cpc' = [cpc EXCEPT ![p] = "done"]
        /\ entries' = [entries EXCEPT ![p] = Cache!NoIndex]
        /\ frame' = [frame EXCEPT ![p] = <<>>]
        /\ UNCHANGED <<file, want, todo, cur, cbase, spoiled>>
    BY DEF Cache!SaveIndex
  <1>2. CacheType
    BY DEF CacheInv
  <1>3. /\ {DOMAIN cpc', DOMAIN want', DOMAIN frame', DOMAIN entries', DOMAIN todo',
            DOMAIN cur', DOMAIN cbase'} = {Fetchers}
        /\ \A q \in Fetchers \ {p} : /\ cpc'[q] = cpc[q] /\ want'[q] = want[q]
                                     /\ frame'[q] = frame[q] /\ entries'[q] = entries[q]
                                     /\ todo'[q] = todo[q] /\ cur'[q] = cur[q]
        /\ cpc'[p] = "done" /\ want'[p] = want[p] /\ cur'[p] = Cache!NoTicker
    BY <1>1, <1>2, CacheTypes
  <1>4. index' = index \/ \E q \in Fetchers : cpc[q] = "store" /\ index' = entries[q]
    BY <1>1
  <1>5. PICK ps : ps = {p}
    OBVIOUS
  <1>6. /\ \A q \in Fetchers \ ps : /\ cpc'[q] = cpc[q] /\ want'[q] = want[q]
                                    /\ frame'[q] = frame[q] /\ entries'[q] = entries[q]
                                    /\ todo'[q] = todo[q] /\ cur'[q] = cur[q]
        /\ \A q \in ps : /\ cpc'[q] = "idle" \/ (cpc'[q] = "done" /\ cpc[q] = "store"
                                                 /\ want'[q] = want[q])
                         /\ cur'[q] = Cache!NoTicker
        /\ UNCHANGED <<file, spoiled>>
    BY <1>1, <1>3, <1>5
  <1> QED
    BY <1>3, <1>4, <1>6, OverKeeps

LEMMA ForgetKeeps ==
    ASSUME CacheInv, NEW ps \in SUBSET Fetchers, Cache!Forget(ps),
           UNCHANGED <<file, index, spoiled>>
    PROVE  CacheInv'
  <1>1. /\ {DOMAIN cpc', DOMAIN want', DOMAIN frame', DOMAIN entries', DOMAIN todo',
            DOMAIN cur', DOMAIN cbase'} = {Fetchers}
        /\ \A q \in Fetchers \ ps : /\ cpc'[q] = cpc[q] /\ want'[q] = want[q]
                                    /\ frame'[q] = frame[q] /\ entries'[q] = entries[q]
                                    /\ todo'[q] = todo[q] /\ cur'[q] = cur[q]
        /\ \A q \in ps : cpc'[q] = "idle" /\ cur'[q] = Cache!NoTicker
    BY DEF Cache!Forget
  <1> QED
    BY <1>1, OverKeeps

\* A ticker of which the files are cleared, or written by none, is of no interest.
LEMMA ClearFileKeeps ==
    ASSUME CacheInv, NEW t \in Tickers, Cache!ClearFile(t)
    PROVE  CacheInv'
  <1>1. /\ file' = [file EXCEPT ![t] = Cache!NoFile] /\ spoiled' = spoiled \cup {t}
        /\ UNCHANGED <<index, cpc, want, frame, entries, todo, cur, cbase>>
    BY DEF Cache!ClearFile, Cache!store
  <1>2. CacheType'
    BY <1>1 DEF CacheInv, CacheType, Days, Cache!NoFile, Entry
  <1>3. Downloading' /\ Storing'
    BY <1>1 DEF CacheInv, Downloading, Storing, Column, Cache!Window, Cache!HasBars, Days,
                Entry, Cache!NoTicker
  <1>4. Truthful'
    BY <1>1 DEF CacheInv, CacheType, Truthful, Holds, Cache!NoFile, Cache!NoEntry
  <1> QED
    BY <1>2, <1>3, <1>4 DEF CacheInv

LEMMA SameCache ==
    ASSUME CacheInv,
           UNCHANGED <<file, index, cpc, want, frame, entries, todo, cur, cbase, spoiled>>
    PROVE  CacheInv'
  <1>1. CacheType' /\ Truthful'
    <2>1. CacheType'
      BY DEF CacheInv, CacheType, Days, Cache!Days, Cache!NoFile, Entry, Cache!NoEntry
    <2>2. Truthful'
      BY DEF CacheInv, Truthful, Holds, Cache!NoFile, Cache!NoEntry
    <2> QED
      BY <2>1, <2>2
  <1>2. Downloading' /\ Storing'
    BY DEF CacheInv, Downloading, Storing, Column, Cache!Window, Cache!HasBars, Days,
           Entry, Cache!NoTicker
  <1> QED
    BY <1>1, <1>2 DEF CacheInv

LEMMA InitCacheInv == Cache!Init => CacheInv
  <1> SUFFICES ASSUME Cache!Init PROVE CacheInv
    OBVIOUS
  <1>1. /\ cpc = [p \in Fetchers |-> "idle"] /\ frame = [p \in Fetchers |-> <<>>]
        /\ file = [t \in Tickers |-> Cache!NoFile] /\ index = Cache!NoIndex
        /\ cur = [p \in Fetchers |-> Cache!NoTicker]
        /\ {DOMAIN want, DOMAIN entries, DOMAIN todo, DOMAIN cbase} = {Fetchers}
    BY DEF Cache!Init
  <1>2. CacheType
    BY <1>1 DEF CacheType, Entry, Cache!NoIndex
  <1>3. Downloading /\ Storing
    BY <1>1 DEF Downloading, Storing
  <1>4. Truthful
    BY <1>1 DEF Truthful, Holds, Cache!NoIndex
  <1> QED
    BY <1>2, <1>3, <1>4 DEF CacheInv

LEMMA StepCacheInv == CacheInv /\ [Cache!Next]_(Cache!vars) => CacheInv'
  <1> SUFFICES ASSUME CacheInv, [Cache!Next]_(Cache!vars) PROVE CacheInv'
    OBVIOUS
  <1>1. CASE UNCHANGED Cache!vars
    BY <1>1, SameCache DEF Cache!vars, Cache!disk, Cache!store
  <1>2. ASSUME NEW p \in Fetchers,
               \/ Cache!FetchOhlcv(p) \/ Cache!Look(p) \/ Cache!Download(p)
               \/ Cache!OpenIndex(p) \/ Cache!ReadTicker(p) \/ Cache!WriteTicker(p)
               \/ Cache!SaveIndex(p)
        PROVE  CacheInv'
    BY <1>2, FetchOhlcvKeeps, LookKeeps, DownloadKeeps, OpenIndexKeeps, ReadTickerKeeps,
       WriteTickerKeeps, SaveIndexKeeps
  <1>3. CASE (\E p \in Fetchers : Cache!Return(p)) \/ Cache!Restart
    BY <1>3, ForgetKeeps DEF Cache!Return, Cache!Restart, Cache!disk
  <1>4. ASSUME NEW t \in Tickers, Cache!ClearFile(t) \/ Cache!Age(t)
        PROVE  CacheInv'
    <2>1. CASE Cache!ClearFile(t)
      BY <2>1, ClearFileKeeps
    <2>2. CASE Cache!Age(t)
      BY <2>2, SameCache DEF Cache!Age, Cache!store
    <2> QED
      BY <1>4, <2>1, <2>2
  <1>5. CASE Cache!Tick
    BY <1>5, SameCache DEF Cache!Tick, Cache!disk, Cache!store
  <1> QED
    BY <1>1, <1>2, <1>3, <1>4, <1>5 DEF Cache!Next

\* The index of the cache promises no more than the files hold
\* (data/providers/yfinance_provider.py, _store_per_ticker_cache), of any number of
\* requests, tickers and days, in any order of their steps and wherever the server dies,
\* of the tickers that none of the known mishaps happened to.
THEOREM IndexStaysTrue == Cache!Spec => []IndexIsTrue
  <1>1. CacheInv => IndexIsTrue
    BY DEF CacheInv, Truthful, Holds, IndexIsTrue, Cache!IndexIsTrue
  <1> QED
    BY <1>1, InitCacheInv, StepCacheInv, PTL DEF Cache!Spec

-----------------------------------------------------------------------------
(* The analyses that are kept.                                               *)

LastDays == Analyses!Days
Said == [day : LastDays, view : Views]
Sweeping == Analyses!Sweeping
Keeping == Analyses!Keeping
Busy == Sweeping \cup {"sweep"} \cup Keeping
ReadHistories == {"cut_history", "dump_history"}

\* A request is a record of the fields that its step needs.
Asking(r) ==
    \/ r = Analyses!Idle
    \/ /\ r.pc \in {"look", "call"} /\ r.ticker \in Tickers
       /\ r = [pc |-> r.pc, ticker |-> r.ticker]
    \/ /\ r.pc \in {"sweep", "history"} /\ r.ticker \in Tickers /\ r.made \in Said
       /\ r = [pc |-> r.pc, ticker |-> r.ticker, made |-> r.made]
    \/ /\ r.pc \in Sweeping /\ r.ticker \in Tickers /\ r.made \in Said
       /\ r.day \in 1..day /\ r.read \in [Tickers -> SUBSET Said]
       /\ r = [pc |-> r.pc, ticker |-> r.ticker, made |-> r.made, day |-> r.day,
               read |-> r.read]
    \/ /\ r.pc \in ReadHistories /\ r.ticker \in Tickers /\ r.made \in Said
       /\ r.lost \in BOOLEAN
       /\ r = [pc |-> r.pc, ticker |-> r.ticker, made |-> r.made, lost |-> r.lost,
               read |-> r.read]

AnalysesType ==
    /\ day \in LastDays
    /\ sweep \in [LastDays -> [Tickers -> SUBSET Said]]
    /\ \A d \in LastDays : d > day => sweep[d] = Analyses!Nothing
    /\ analyses = [t \in Tickers |-> analyses[t]]
    /\ \A t \in Tickers \ muddled : analyses[t] \in Seq(Said)
    /\ said \in [Tickers -> [LastDays -> SUBSET Said]]
    /\ DOMAIN analysis = Analysts
    /\ \A p \in Analysts : Asking(analysis[p])

\* Who is about to put a history in the place of another has read that one.
SweepReading ==
    \A p \in Analysts :
        analysis[p].pc \in ReadHistories /\ analysis[p].ticker \notin muddled =>
            analysis[p].lost \/ analysis[p].read = analyses[analysis[p].ticker]

Cutting ==
    \A p \in Analysts :
        analysis[p].pc = "dump_sweep" /\ analysis[p].day \notin smeared =>
            analysis[p].day \in sweepCut

\* No other of the requests holds an answer about the ticker.
Alone(requests, p, t) ==
    \A q \in Analysts \ {p} : requests[q].pc \in Busy => requests[q].ticker # t

\* A sweep of day d agrees with the entries of the ticker, or will once the only request
\* that holds an answer about it is over.
Agree(f, t, h, requests, d) ==
    /\ (\A p \in Analysts : requests[p].pc \in Keeping => requests[p].ticker # t) =>
           \A e \in f[t] : h # <<>> /\ h[1] = e
    /\ \A p \in Analysts :
           requests[p].pc \in Busy /\ requests[p].ticker = t /\ Alone(requests, p, t) =>
               /\ requests[p].pc \in Keeping => f[t] \subseteq {requests[p].made}
               /\ requests[p].pc \in Sweeping /\ requests[p].day # d => f[t] = {}

\* The sweeps of today: the file, and what will be written in its place.
Agreeing ==
    MaxEntries > 0 /\ day \notin smeared =>
        \A t \in Tickers \ muddled :
            /\ day \notin sweepCut => Agree(sweep[day], t, analyses[t], analysis, day)
            /\ \A p \in Analysts :
                   analysis[p].pc \in Sweeping /\ analysis[p].day = day =>
                       Agree(analysis[p].read, t, analyses[t], analysis, day)

AnalysesInv ==
    AnalysesType /\ Analyses!HistoryKept /\ SweepReading /\ Cutting /\ Agreeing

-----------------------------------------------------------------------------
(* What is put into a history.                                               *)

LEMMA Bounds == /\ LastDay \in Nat \ {0} /\ MaxEntries \in Nat
                /\ \A m \in Said : m.day \in LastDays
                /\ LastDays = 1..LastDay
  BY PartsAssumption DEF Said, LastDays, Analyses!Days

LEMMA Many ==
    ASSUME NEW a \in Int, NEW b \in Int, a <= b + 1
    PROVE  Analyses!Cardinality(a..b) = b - a + 1
  <1>1. Analyses!Cardinality(a..b) = Cardinality(a..b)
    BY DEF Analyses!Cardinality, Cardinality
  <1>2. Cardinality(a..b) = IF a > b THEN 0 ELSE b - a + 1
    BY FS_Interval
  <1> QED
    BY <1>1, <1>2

\* Entries of other days only are all kept.
LEMMA NoneOfTheDay ==
    ASSUME NEW h \in Seq(Said), NEW d, \A i \in DOMAIN h : h[i].day # d
    PROVE  Analyses!OfOtherDays(h, d) = h
  <1> DEFINE n == Len(h)
             rest == {i \in DOMAIN h : h[i].day # d}
             Before(i) == Analyses!Cardinality({j \in rest : j < i})
  <1>1. Analyses!OfOtherDays(h, d) =
            [m \in 1..Analyses!Cardinality(rest) |-> h[CHOOSE i \in rest : Before(i) = m - 1]]
    BY DEF Analyses!OfOtherDays
  <1>2. /\ n \in Nat /\ rest = 1..n /\ h = [m \in 1..n |-> h[m]]
        /\ \A i \in 1..n : {j \in rest : j < i} = 1..(i - 1)
    OBVIOUS
  <1> HIDE DEF rest, n
  <1>3. Analyses!Cardinality(rest) = n
    <2>1. n \in Int /\ 1 \in Int /\ 1 <= n + 1
      BY <1>2
    <2>2. Analyses!Cardinality(1..n) = n - 1 + 1
      BY <2>1, Many
    <2> QED
      BY <2>1, <2>2, <1>2
  <1>4. ASSUME NEW i \in 1..n PROVE Before(i) = i - 1
    <2>1. {j \in rest : j < i} = 1..(i - 1)
      BY <1>2
    <2>2. i - 1 \in Int /\ 1 \in Int /\ 1 <= i - 1 + 1
      BY <1>2
    <2>3. Analyses!Cardinality(1..(i - 1)) = (i - 1) - 1 + 1
      BY <2>2, Many
    <2>4. Before(i) = (i - 1) - 1 + 1
      BY <2>1, <2>3
    <2> QED
      BY <2>2, <2>4
  <1> HIDE DEF Before
  <1>5. ASSUME NEW m \in 1..n PROVE (CHOOSE i \in rest : Before(i) = m - 1) = m
    BY <1>2, <1>4
  <1> QED
    BY <1>1, <1>2, <1>3, <1>5

\* If the first entry is of the day, and no other, the others are kept.
LEMMA FirstOfTheDay ==
    ASSUME NEW h \in Seq(Said), NEW d, h # <<>>, h[1].day = d,
           \A i \in DOMAIN h : i # 1 => h[i].day # d
    PROVE  Analyses!OfOtherDays(h, d) = [m \in 1..(Len(h) - 1) |-> h[m + 1]]
  <1> DEFINE n == Len(h)
             rest == {i \in DOMAIN h : h[i].day # d}
             Before(i) == Analyses!Cardinality({j \in rest : j < i})
  <1>1. Analyses!OfOtherDays(h, d) =
            [m \in 1..Analyses!Cardinality(rest) |-> h[CHOOSE i \in rest : Before(i) = m - 1]]
    BY DEF Analyses!OfOtherDays
  <1>2. /\ n \in Nat /\ n >= 1 /\ rest = 2..n
        /\ \A i \in 2..n : {j \in rest : j < i} = 2..(i - 1)
    OBVIOUS
  <1> HIDE DEF rest
  <1>3. Analyses!Cardinality(rest) = n - 1
    <2> HIDE DEF n
    <2>1. Analyses!Cardinality(2..n) = n - 2 + 1
      BY <1>2, Many
    <2> QED
      BY <2>1, <1>2
  <1>4. ASSUME NEW i \in 2..n PROVE Before(i) = i - 2
    <2> HIDE DEF n
    <2>1. {j \in rest : j < i} = 2..(i - 1)
      BY <1>2
    <2>2. i - 1 \in Int /\ 2 \in Int /\ 2 <= i - 1 + 1
      BY <1>2
    <2>3. Analyses!Cardinality(2..(i - 1)) = (i - 1) - 2 + 1
      BY <2>2, Many
    <2>4. Before(i) = (i - 1) - 2 + 1
      BY <2>1, <2>3
    <2> QED
      BY <2>2, <2>4
  <1> HIDE DEF Before
  <1>5. ASSUME NEW m \in 1..(n - 1) PROVE (CHOOSE i \in rest : Before(i) = m - 1) = m + 1
    <2> HIDE DEF n
    <2> QED
      BY <1>2, <1>4
  <1> QED
    BY <1>1, <1>3, <1>5

LEMMA CappedType ==
    ASSUME NEW s \in Seq(Said)
    PROVE  LET c == Analyses!Capped(s)
           IN  /\ c \in Seq(Said)
               /\ Len(c) = IF Len(s) < MaxEntries THEN Len(s) ELSE MaxEntries
               /\ \A i \in DOMAIN c : c[i] = s[i]
  BY PartsAssumption DEF Analyses!Capped

\* The analysis is put before the entries of other days, from the second on when the
\* first one is of its day.
LEMMA PrependedEntries ==
    ASSUME NEW h \in Seq(Said), NEW last, Analyses!IsHistory(h, last), NEW made \in Said,
           \A i \in DOMAIN h : h[i].day <= made.day
    PROVE  LET new == Analyses!Prepended(made, h)
               k == IF h # <<>> /\ h[1].day = made.day THEN 0 ELSE 1
           IN  /\ new \in Seq(Said)
               /\ Len(new) = IF Len(h) + k < MaxEntries THEN Len(h) + k ELSE MaxEntries
               /\ new # <<>> => new[1] = made
               /\ \A i \in DOMAIN new : i # 1 => i - k \in DOMAIN h /\ new[i] = h[i - k]
  <1> DEFINE k == IF h # <<>> /\ h[1].day = made.day THEN 0 ELSE 1
             others == Analyses!OfOtherDays(h, made.day)
             all == <<made>> \o others
  <1>1. /\ \A i \in DOMAIN h : h[i].day \in Int
        /\ \A i, j \in DOMAIN h : i < j => h[j].day < h[i].day
        /\ made.day \in Int
    BY Bounds DEF Analyses!IsHistory
  <1>2. /\ others \in Seq(Said) /\ Len(others) = Len(h) + k - 1
        /\ \A i \in DOMAIN others : i + 1 - k \in DOMAIN h /\ others[i] = h[i + 1 - k]
    <2>1. CASE k = 0
      <3>1. \A i \in DOMAIN h : i # 1 => h[i].day # made.day
        BY <2>1, <1>1
      <3>2. h # <<>> /\ h[1].day = made.day
        BY <2>1
      <3>3. others = [m \in 1..(Len(h) - 1) |-> h[m + 1]]
        BY <3>1, <3>2, FirstOfTheDay
      <3> QED
        BY <3>2, <3>3, <2>1
    <2>2. CASE k = 1
      <3>1. \A i \in DOMAIN h : h[i].day # made.day
        BY <2>2, <1>1
      <3> QED
        BY <3>1, <2>2, NoneOfTheDay
    <2> QED
      BY <2>1, <2>2
  <1> HIDE DEF others, k
  <1>3. /\ all \in Seq(Said) /\ Len(all) = Len(h) + k /\ all[1] = made
        /\ \A i \in 2..Len(all) : i - k \in DOMAIN h /\ all[i] = h[i - k]
    BY <1>2 DEF k
  <1>4. Analyses!Prepended(made, h) = Analyses!Capped(all)
    BY DEF Analyses!Prepended, others
  <1> HIDE DEF all
  <1>5. LET new == Analyses!Capped(all)
        IN  /\ new \in Seq(Said)
            /\ Len(new) = IF Len(h) + k < MaxEntries THEN Len(h) + k ELSE MaxEntries
            /\ new # <<>> => new[1] = made
            /\ \A i \in DOMAIN new : i # 1 => i - k \in DOMAIN h /\ new[i] = h[i - k]
    <2> DEFINE new == Analyses!Capped(all)
    <2>1. /\ new \in Seq(Said)
          /\ Len(new) = IF Len(all) < MaxEntries THEN Len(all) ELSE MaxEntries
          /\ \A i \in DOMAIN new : new[i] = all[i]
      BY <1>3, CappedType
    <2> HIDE DEF new
    <2>2. \A i \in DOMAIN new : i \in 1..Len(all)
      BY <2>1, <1>3, PartsAssumption
    <2>3. new # <<>> => 1 \in DOMAIN new
      BY <2>1
    <2> QED
      BY <2>1, <2>2, <2>3, <1>3 DEF new
  <1> QED
    BY <1>4, <1>5 DEF k

\* A history takes in an analysis that is not of an earlier day.
LEMMA PrependedIsHistory ==
    ASSUME NEW h \in Seq(Said), NEW last \in [LastDays -> SUBSET Said],
           Analyses!IsHistory(h, last), NEW made \in Said,
           \A i \in DOMAIN h : h[i].day <= made.day
    PROVE  LET new == Analyses!Prepended(made, h)
           IN  /\ new \in Seq(Said) /\ (MaxEntries > 0 => new # <<>> /\ new[1] = made)
               /\ Analyses!IsHistory(new, [last EXCEPT ![made.day] = {made}])
  <1> DEFINE new == Analyses!Prepended(made, h)
             later == [last EXCEPT ![made.day] = {made}]
             k == IF h # <<>> /\ h[1].day = made.day THEN 0 ELSE 1
  <1>1. /\ new \in Seq(Said)
        /\ Len(new) = IF Len(h) + k < MaxEntries THEN Len(h) + k ELSE MaxEntries
        /\ new # <<>> => new[1] = made
        /\ \A i \in DOMAIN new : i # 1 => i - k \in DOMAIN h /\ new[i] = h[i - k]
    BY PrependedEntries
  <1> HIDE DEF new
  <1>2. /\ made.day \in LastDays /\ LastDays \subseteq Int /\ MaxEntries \in Nat
        /\ \A i \in DOMAIN h : h[i].day \in LastDays
        /\ \A i \in DOMAIN new : new[i].day \in LastDays
    BY <1>1, Bounds
  <1>3. /\ Len(h) <= MaxEntries
        /\ \A i \in DOMAIN h : /\ last[h[i].day] = {h[i]}
                               /\ \A j \in DOMAIN h : i < j => h[j].day < h[i].day
        /\ \A d \in LastDays : last[d] # {} =>
               \/ \E i \in DOMAIN h : h[i].day = d
               \/ Len(h) = MaxEntries /\ \A i \in DOMAIN h : d < h[i].day
    BY DEF Analyses!IsHistory, LastDays
  <1>4. \A i \in DOMAIN h : i # 1 \/ k = 1 => h[i].day < made.day
    <2>1. ASSUME NEW i \in DOMAIN h PROVE 1 \in DOMAIN h /\ i >= 1 /\ i - 1 \in Int
      OBVIOUS
    <2>2. ASSUME NEW i \in DOMAIN h, i # 1 PROVE h[i].day < h[1].day
      BY <2>1, <2>2, <1>3
    <2>3. \A i \in DOMAIN h : h[i].day \in Int /\ h[i].day <= made.day /\ made.day \in Int
      BY <1>2
    <2>4. k = 1 => h = <<>> \/ h[1].day # made.day
      OBVIOUS
    <2>5. ASSUME NEW i \in DOMAIN h, i # 1 \/ k = 1 PROVE h[i].day < made.day
      BY <2>1, <2>2, <2>3, <2>4, <2>5
    <2> QED
      BY <2>1, <2>5
  <1>5. /\ later[made.day] = {made}
        /\ \A d \in LastDays : d # made.day => later[d] = last[d]
    BY <1>2
  <1> HIDE DEF k, later
  <1>6. k \in {0, 1}
    BY DEF k
  <1>7. Len(new) <= MaxEntries
    BY <1>1, <1>2, <1>6
  <1>8. \A i \in DOMAIN new : i # 1 => new[i].day < made.day
    BY <1>1, <1>2, <1>4, <1>6
  <1>9. ASSUME NEW i \in DOMAIN new PROVE later[new[i].day] = {new[i]}
    <2>1. CASE i = 1
      BY <2>1, <1>1, <1>5
    <2>2. CASE i # 1
      <3>1. PICK j \in DOMAIN h : new[i] = h[j]
        BY <2>2, <1>1
      <3>2. h[j].day # made.day /\ h[j].day \in LastDays
        BY <2>2, <3>1, <1>2, <1>8
      <3> QED
        BY <3>1, <3>2, <1>3, <1>5
    <2> QED
      BY <2>1, <2>2
  <1>10. ASSUME NEW i \in DOMAIN new, NEW j \in DOMAIN new, i < j
         PROVE  new[j].day < new[i].day
    <2>1. CASE i = 1
      BY <2>1, <1>10, <1>1, <1>8
    <2>2. CASE i # 1
      BY <2>2, <1>10, <1>1, <1>3, <1>6
    <2> QED
      BY <2>1, <2>2
  <1>11. ASSUME NEW d \in LastDays, later[d] # {}
         PROVE  \/ \E i \in DOMAIN new : new[i].day = d
                \/ Len(new) = MaxEntries /\ \A i \in DOMAIN new : d < new[i].day
    <2>1. CASE Len(new) = 0
      <3>1. MaxEntries = 0 \/ (Len(h) = 0 /\ k = 0)
        <4>1. Len(h) \in Nat /\ k \in Nat /\ MaxEntries \in Nat
          BY <1>2, <1>6
        <4>2. 0 = IF Len(h) + k < MaxEntries THEN Len(h) + k ELSE MaxEntries
          BY <2>1, <1>1
        <4> QED
          BY <4>1, <4>2
      <3>2. MaxEntries = 0
        BY <3>1 DEF k
      <3> QED
        BY <2>1, <3>2, <1>1
    <2>2. CASE Len(new) # 0 /\ d = made.day
      BY <2>2, <1>1
    <2>3. CASE Len(new) # 0 /\ d # made.day /\ \E i \in DOMAIN h : h[i].day = d
      <3>1. PICK i \in DOMAIN h : h[i].day = d
        BY <2>3
      <3>2. i + k # 1
        BY <3>1, <2>3, <1>6 DEF k
      <3>3. CASE i + k <= Len(new)
        <4>1. i + k \in DOMAIN new /\ new[i + k] = h[i]
          BY <3>2, <3>3, <1>1, <1>6
        <4> QED
          BY <4>1, <3>1
      <3>4. CASE i + k > Len(new)
        <4>1. Len(new) = MaxEntries
          BY <3>4, <1>1, <1>2, <1>6
        <4>2. ASSUME NEW j \in DOMAIN new PROVE d < new[j].day
          <5>1. CASE j = 1
            BY <5>1, <3>1, <3>2, <1>1, <1>4, <1>6
          <5>2. CASE j # 1
            BY <5>2, <3>1, <3>4, <1>1, <1>3, <1>6
          <5> QED
            BY <5>1, <5>2
        <4> QED
          BY <4>1, <4>2
      <3> QED
        BY <3>3, <3>4, <1>1, <1>6
    <2>4. CASE /\ Len(new) # 0 /\ d # made.day
               /\ Len(h) = MaxEntries /\ \A i \in DOMAIN h : d < h[i].day
      <3>1. Len(new) = MaxEntries /\ h # <<>> /\ 1 \in DOMAIN h
        BY <2>4, <1>1, <1>2, <1>6
      <3>2. {d, h[1].day, made.day} \subseteq Int /\ d < h[1].day /\ h[1].day <= made.day
        BY <3>1, <2>4, <1>2
      <3>3. d < made.day
        BY <3>2
      <3>4. ASSUME NEW i \in DOMAIN new PROVE d < new[i].day
        BY <3>3, <2>4, <1>1
      <3> QED
        BY <3>1, <3>4
    <2>5. last[d] # {} \/ d = made.day
      BY <1>11, <1>5
    <2> QED
      BY <2>1, <2>2, <2>3, <2>4, <2>5, <1>3
  <1>12. Analyses!IsHistory(new, later)
    BY <1>7, <1>9, <1>10, <1>11 DEF Analyses!IsHistory, LastDays
  <1>13. MaxEntries > 0 => new # <<>>
    BY <1>1, <1>2, <1>6 DEF k
  <1> QED
    BY <1>1, <1>12, <1>13 DEF new, later

-----------------------------------------------------------------------------
(* Sweeps that agree with a history, from one step of a request to the next. *)

\* A step that keeps no more and no less of the ticker than before.
Stays(a, b, t, d) ==
    /\ b.pc \in Keeping /\ b.ticker = t <=> a.pc \in Keeping /\ a.ticker = t
    /\ a.pc \in Busy /\ a.ticker = t => b.pc \in Busy /\ b.ticker = t
    /\ b.pc \in Keeping => b.made = a.made
    /\ b.pc \in Sweeping /\ b.day # d =>
           a.pc \in Sweeping /\ a.day = b.day /\ a.ticker = b.ticker

LEMMA AnalysisSteps ==
    /\ Sweeping = {"cut_sweep", "dump_sweep"}
    /\ Keeping = {"history", "cut_history", "dump_history"}
    /\ Busy = {"cut_sweep", "dump_sweep", "sweep", "history", "cut_history", "dump_history"}
    /\ ReadHistories = {"cut_history", "dump_history"}
  BY DEF Sweeping, Keeping, Busy, ReadHistories, Analyses!Sweeping, Analyses!Keeping

LEMMA AgreeStays ==
    ASSUME NEW f, NEW t, NEW h, NEW old, NEW new, NEW d, NEW p \in Analysts,
           Agree(f, t, h, old, d), \A q \in Analysts \ {p} : new[q] = old[q],
           Stays(old[p], new[p], t, d)
    PROVE  Agree(f, t, h, new, d)
  <1>1. ASSUME \A q \in Analysts : new[q].pc \in Keeping => new[q].ticker # t,
               NEW e \in f[t]
        PROVE  h # <<>> /\ h[1] = e
    BY <1>1 DEF Agree, Stays
  <1>2. ASSUME NEW q \in Analysts, new[q].pc \in Busy, new[q].ticker = t,
               Alone(new, q, t)
        PROVE  /\ new[q].pc \in Keeping => f[t] \subseteq {new[q].made}
               /\ new[q].pc \in Sweeping /\ new[q].day # d => f[t] = {}
    <2>1. Alone(old, q, t)
      BY <1>2 DEF Alone, Stays
    <2>2. CASE q = p
      BY <2>1, <2>2, <1>2, AnalysisSteps DEF Agree, Stays
    <2>3. CASE q # p
      BY <2>1, <2>3, <1>2 DEF Agree
    <2> QED
      BY <2>2, <2>3
  <1> QED
    BY <1>1, <1>2 DEF Agree

\* A request that is over with the sweep holds its answer for the history: of the sweeps
\* of its day there is only the one that it has written.
LEMMA AgreeSwept ==
    ASSUME NEW f, NEW g, NEW t, NEW h, NEW old, NEW new, NEW d, NEW p \in Analysts,
           Agree(f, t, h, old, d), \A q \in Analysts \ {p} : new[q] = old[q],
           old[p].pc \in Sweeping, new[p].pc = "history",
           new[p].ticker = old[p].ticker, new[p].made = old[p].made,
           t # old[p].ticker \/ old[p].day # d => g[t] = f[t],
           t = old[p].ticker /\ old[p].day = d => g[t] \subseteq {old[p].made}
    PROVE  Agree(g, t, h, new, d)
  <1>1. CASE t # old[p].ticker
    <2>1. Stays(old[p], new[p], t, d)
      BY <1>1, AnalysisSteps DEF Stays
    <2>2. Agree(f, t, h, new, d)
      BY <2>1, AgreeStays
    <2> QED
      BY <2>2, <1>1 DEF Agree
  <1>2. CASE t = old[p].ticker
    <2>1. ~\A q \in Analysts : new[q].pc \in Keeping => new[q].ticker # t
      BY <1>2, AnalysisSteps
    <2>2. ASSUME NEW q \in Analysts, new[q].pc \in Busy, new[q].ticker = t,
                 Alone(new, q, t)
          PROVE  q = p /\ Alone(old, p, t)
      BY <1>2, <2>2, AnalysisSteps DEF Alone
    <2>3. Alone(old, p, t) => g[t] \subseteq {new[p].made}
      BY <1>2, AnalysisSteps DEF Agree
    <2> QED
      BY <2>1, <2>2, <2>3, AnalysisSteps DEF Agree
  <1> QED
    BY <1>1, <1>2

LEMMA NothingAgrees ==
    ASSUME NEW t \in Tickers, NEW h, NEW requests, NEW d
    PROVE  Agree(Analyses!Nothing, t, h, requests, d)
  BY DEF Agree, Analyses!Nothing

-----------------------------------------------------------------------------
(* The requests.                                                             *)

LEMMA Requests ==
    ASSUME AnalysesType, NEW p \in Analysts
    PROVE  LET r == analysis[p]
           IN  /\ r.pc # "idle" => r.ticker \in Tickers
               /\ r.pc \in Busy => r.made \in Said
               /\ r.pc \in {"sweep", "history"} =>
                      r = [pc |-> r.pc, ticker |-> r.ticker, made |-> r.made]
               /\ r.pc \in Sweeping =>
                      /\ r.day \in 1..day /\ r.day \in LastDays
                      /\ r.read \in [Tickers -> SUBSET Said]
                      /\ r = [pc |-> r.pc, ticker |-> r.ticker, made |-> r.made,
                              day |-> r.day, read |-> r.read]
               /\ r.pc \in ReadHistories =>
                      /\ r.lost \in BOOLEAN
                      /\ r = [pc |-> r.pc, ticker |-> r.ticker, made |-> r.made,
                              lost |-> r.lost, read |-> r.read]
  <1>1. Asking(analysis[p]) /\ day \in LastDays
    BY DEF AnalysesType
  <1> QED
    BY <1>1, AnalysisSteps, Bounds DEF Asking, Analyses!Idle

LEMMA Becoming ==
    ASSUME AnalysesType, NEW p \in Analysts, NEW r, Analyses!Becomes(p, r)
    PROVE  /\ DOMAIN analysis' = Analysts /\ analysis'[p] = r
           /\ \A q \in Analysts \ {p} : analysis'[q] = analysis[q]
  BY DEF AnalysesType, Analyses!Becomes

\* A step of one request changes the type of no other.
LEMMA TypeKeeps ==
    ASSUME AnalysesType, NEW p \in Analysts, NEW r, Analyses!Becomes(p, r), Asking(r),
           UNCHANGED day,
           UNCHANGED sweep \/ (/\ sweep' \in [LastDays -> [Tickers -> SUBSET Said]]
                               /\ \A d \in LastDays : d > day => sweep'[d] = sweep[d]),
           UNCHANGED <<analyses, muddled>>,
           said' \in [Tickers -> [LastDays -> SUBSET Said]]
    PROVE  AnalysesType'
  <1>1. ASSUME NEW q \in Analysts PROVE Asking(analysis'[q])
    <2>1. CASE q = p
      BY <2>1, Becoming
    <2>2. CASE q # p
      <3>1. analysis'[q] = analysis[q]
        BY <2>2, Becoming
      <3> QED
        BY <3>1 DEF AnalysesType
    <2> QED
      BY <2>1, <2>2
  <1>2. ASSUME NEW q \in Analysts PROVE Asking(analysis[q])'
    BY <1>1 DEF Asking
  <1> QED
    BY <1>2, Becoming DEF AnalysesType

\* AnalysisSteps that change neither a history nor a sweep.
LEMMA AnalysesMoveKeeps ==
    ASSUME AnalysesInv, NEW p \in Analysts, NEW r, Analyses!Becomes(p, r), Asking(r),
           UNCHANGED <<day, sweep, analyses, said, smeared, muddled>>,
           sweepCut \subseteq sweepCut',
           \A t \in Tickers : Stays(analysis[p], r, t, day),
           r.pc \in ReadHistories /\ r.ticker \notin muddled =>
               r.lost \/ r.read = analyses[r.ticker],
           r.pc = "dump_sweep" /\ r.day \notin smeared => r.day \in sweepCut',
           r.pc \in Sweeping /\ r.day = day =>
               \/ analysis[p].pc \in Sweeping /\ analysis[p].day = day
                      /\ r.read = analysis[p].read
               \/ r.read = Analyses!Nothing
               \/ day \notin sweepCut /\ r.read = sweep[day]
    PROVE  AnalysesInv'
  <1>1. /\ analysis'[p] = r
        /\ \A q \in Analysts \ {p} : analysis'[q] = analysis[q]
    BY Becoming DEF AnalysesInv
  <1>2. AnalysesType'
    BY TypeKeeps DEF AnalysesInv, AnalysesType
  <1>3. Analyses!HistoryKept'
    BY DEF AnalysesInv, Analyses!HistoryKept, Analyses!IsHistory
  <1>4. SweepReading'
    <2>1. ASSUME NEW q \in Analysts, analysis'[q].pc \in ReadHistories,
                 analysis'[q].ticker \notin muddled
          PROVE  analysis'[q].lost \/ analysis'[q].read = analyses[analysis'[q].ticker]
      BY <2>1, <1>1 DEF AnalysesInv, SweepReading
    <2> QED
      BY <2>1 DEF SweepReading
  <1>5. Cutting'
    <2>1. ASSUME NEW q \in Analysts, analysis'[q].pc = "dump_sweep",
                 analysis'[q].day \notin smeared
          PROVE  analysis'[q].day \in sweepCut'
      BY <2>1, <1>1 DEF AnalysesInv, Cutting
    <2> QED
      BY <2>1 DEF Cutting
  <1>6. Agreeing'
    <2>1. ASSUME MaxEntries > 0, day \notin smeared, NEW t \in Tickers \ muddled, NEW f,
                 Agree(f, t, analyses[t], analysis, day)
          PROVE  Agree(f, t, analyses[t], analysis', day)
      BY <2>1, <1>1, AgreeStays
    <2>2. ASSUME MaxEntries > 0, day \notin smeared, NEW t \in Tickers \ muddled
          PROVE  /\ day \notin sweepCut' => Agree(sweep[day], t, analyses[t], analysis', day)
                 /\ \A q \in Analysts :
                        analysis'[q].pc \in Sweeping /\ analysis'[q].day = day =>
                            Agree(analysis'[q].read, t, analyses[t], analysis', day)
      <3>1. ASSUME day \notin sweepCut
            PROVE  Agree(sweep[day], t, analyses[t], analysis', day)
        BY <3>1, <2>1, <2>2 DEF AnalysesInv, Agreeing
      <3>2. ASSUME NEW q \in Analysts, analysis[q].pc \in Sweeping, analysis[q].day = day
            PROVE  Agree(analysis[q].read, t, analyses[t], analysis', day)
        BY <3>2, <2>1, <2>2 DEF AnalysesInv, Agreeing
      <3>3. ASSUME r.pc \in Sweeping, r.day = day
            PROVE  Agree(r.read, t, analyses[t], analysis', day)
        BY <3>1, <3>2, <3>3, NothingAgrees
      <3> QED
        BY <3>1, <3>2, <3>3, <1>1
    <2> QED
      BY <2>2 DEF Agreeing
  <1> QED
    BY <1>2, <1>3, <1>4, <1>5, <1>6 DEF AnalysesInv

LEMMA AskKeeps ==
    ASSUME AnalysesInv, NEW p \in Analysts,
           \/ \E t \in Tickers, force \in BOOLEAN : Analyses!Ask(p, t, force)
           \/ Analyses!Look(p) \/ Analyses!Call(p)
    PROVE  AnalysesInv'
  <1>1. PICK r : /\ Analyses!Becomes(p, r) /\ Asking(r)
                 /\ r.pc \in {"idle", "look", "call", "sweep"}
    <2>1. ASSUME NEW t \in Tickers, NEW force \in BOOLEAN, Analyses!Ask(p, t, force)
          PROVE  \E r : /\ Analyses!Becomes(p, r) /\ Asking(r)
                        /\ r.pc \in {"idle", "look", "call", "sweep"}
      BY <2>1 DEF Analyses!Ask, Asking
    <2>2. ASSUME Analyses!Look(p)
          PROVE  \E r : /\ Analyses!Becomes(p, r) /\ Asking(r)
                        /\ r.pc \in {"idle", "look", "call", "sweep"}
      <3>1. analysis[p].ticker \in Tickers
        BY <2>2, Requests DEF Analyses!Look, AnalysesInv
      <3> QED
        BY <3>1, <2>2 DEF Analyses!Look, Asking, Analyses!Idle
    <2>3. ASSUME Analyses!Call(p)
          PROVE  \E r : /\ Analyses!Becomes(p, r) /\ Asking(r)
                        /\ r.pc \in {"idle", "look", "call", "sweep"}
      <3>1. analysis[p].ticker \in Tickers /\ day \in LastDays
        BY <2>3, Requests DEF Analyses!Call, AnalysesInv, AnalysesType
      <3>2. CASE Analyses!Becomes(p, Analyses!Idle)
        BY <3>2 DEF Asking, Analyses!Idle
      <3>3. ASSUME NEW view \in Views,
                   Analyses!Becomes(p, Analyses!Analysis("sweep", analysis[p].ticker,
                                                         [day |-> day, view |-> view]))
            PROVE  \E r : /\ Analyses!Becomes(p, r) /\ Asking(r)
                          /\ r.pc \in {"idle", "look", "call", "sweep"}
        BY <3>1, <3>3 DEF Asking, Analyses!Analysis, Said
      <3> QED
        BY <2>3, <3>2, <3>3 DEF Analyses!Call
    <2> QED
      BY <2>1, <2>2, <2>3
  <1>2. /\ analysis[p].pc \in {"idle", "look", "call"}
        /\ UNCHANGED <<day, sweep, sweepCut, analyses, said, smeared, muddled>>
    BY DEF Analyses!Ask, Analyses!Look, Analyses!Call, Analyses!sweeps, Analyses!histories,
           Analyses!ghosts
  <1>3. \A t \in Tickers : Stays(analysis[p], r, t, day)
    BY <1>1, <1>2, AnalysisSteps DEF Stays
  <1> QED
    BY <1>1, <1>2, <1>3, AnalysesMoveKeeps, AnalysisSteps

LEMMA ReadSweepKeeps ==
    ASSUME AnalysesInv, NEW p \in Analysts, Analyses!ReadSweep(p)
    PROVE  AnalysesInv'
  <1>1. PICK f : /\ f = IF day \in sweepCut THEN Analyses!Nothing ELSE sweep[day]
                 /\ f \in [Tickers -> SUBSET Said]
    <2>1. Analyses!Nothing \in [Tickers -> SUBSET Said]
      BY DEF Analyses!Nothing
    <2>2. sweep[day] \in [Tickers -> SUBSET Said]
      BY DEF AnalysesInv, AnalysesType
    <2> QED
      BY <2>1, <2>2
  <1>2. /\ analysis[p].pc = "sweep" /\ analysis[p].ticker \in Tickers
        /\ analysis[p].made \in Said /\ day \in 1..day
        /\ UNCHANGED <<day, sweep, sweepCut, analyses, said, smeared, muddled>>
    BY Requests, AnalysisSteps, Bounds DEF Analyses!ReadSweep, Analyses!sweeps, Analyses!histories,
           Analyses!ghosts, AnalysesInv, AnalysesType
  <1> DEFINE r == [pc |-> "cut_sweep", ticker |-> analysis[p].ticker,
                   made |-> analysis[p].made, day |-> day, read |-> f]
  <1>3. Asking(r)
    BY <1>1, <1>2, AnalysisSteps DEF Asking
  <1>4. \A t \in Tickers : Stays(analysis[p], r, t, day)
    BY <1>2, AnalysisSteps DEF Stays
  <1>5. r.pc = "cut_sweep" /\ r.read = f /\ Analyses!Becomes(p, r)
    BY <1>1 DEF Analyses!ReadSweep
  <1> HIDE DEF r
  <1> QED
    BY <1>1, <1>2, <1>3, <1>4, <1>5, AnalysesMoveKeeps, AnalysisSteps

LEMMA CutSweepKeeps ==
    ASSUME AnalysesInv, NEW p \in Analysts, Analyses!CutSweep(p)
    PROVE  AnalysesInv'
  <1> DEFINE a == analysis[p]
             r == [pc |-> "dump_sweep", ticker |-> a.ticker, made |-> a.made,
                   day |-> a.day, read |-> a.read]
  <1>1. /\ a.pc = "cut_sweep" /\ sweepCut' = sweepCut \cup {a.day}
        /\ Analyses!Becomes(p, [a EXCEPT !.pc = "dump_sweep"])
        /\ UNCHANGED <<day, sweep, analyses, said, smeared, muddled>>
    BY DEF Analyses!CutSweep, Analyses!At, Analyses!histories, Analyses!ghosts
  <1>2. /\ a.ticker \in Tickers /\ a.made \in Said /\ a.day \in 1..day
        /\ a.read \in [Tickers -> SUBSET Said]
        /\ a = [pc |-> a.pc, ticker |-> a.ticker, made |-> a.made, day |-> a.day,
                read |-> a.read]
    BY <1>1, Requests, AnalysisSteps DEF AnalysesInv
  <1> HIDE DEF a
  <1>3. Analyses!Becomes(p, r)
    BY <1>1, <1>2
  <1>4. Asking(r)
    BY <1>2, AnalysisSteps DEF Asking
  <1>5. \A t \in Tickers : Stays(a, r, t, day)
    BY <1>1, AnalysisSteps DEF Stays
  <1>6. r.pc = "dump_sweep" /\ r.day = a.day /\ r.read = a.read
    OBVIOUS
  <1> HIDE DEF r
  <1> QED
    BY <1>1, <1>3, <1>4, <1>5, <1>6, AnalysesMoveKeeps, AnalysisSteps DEF a

LEMMA ReadHistoryKeeps ==
    ASSUME AnalysesInv, NEW p \in Analysts, Analyses!ReadHistory(p)
    PROVE  AnalysesInv'
  <1> DEFINE a == analysis[p]
  <1>1. /\ a.pc = "history" /\ a.ticker \in Tickers /\ a.made \in Said
        /\ UNCHANGED <<day, sweep, sweepCut, analyses, said, smeared, muddled>>
    BY Requests, AnalysisSteps DEF Analyses!ReadHistory, Analyses!sweeps, Analyses!histories,
           Analyses!ghosts, AnalysesInv
  <1>2. PICK lost, h :
            /\ lost = (a.ticker \in historyCut)
            /\ h = IF a.ticker \in historyCut THEN <<>> ELSE analyses[a.ticker]
    OBVIOUS
  <1> DEFINE r == [pc |-> "cut_history", ticker |-> a.ticker, made |-> a.made,
                   lost |-> lost, read |-> h]
  <1>3. Analyses!Becomes(p, r)
    BY <1>2 DEF Analyses!ReadHistory
  <1>4. lost \in BOOLEAN
    BY <1>2
  <1> HIDE DEF a
  <1>5. Asking(r)
    BY <1>1, <1>4, AnalysisSteps DEF Asking
  <1>6. \A t \in Tickers : Stays(a, r, t, day)
    BY <1>1, AnalysisSteps DEF Stays
  <1>7. /\ r.pc = "cut_history" /\ r.lost = lost /\ r.read = h /\ r.ticker = a.ticker
        /\ lost \/ h = analyses[a.ticker]
    BY <1>2
  <1> HIDE DEF r
  <1> QED
    BY <1>1, <1>3, <1>5, <1>6, <1>7, AnalysesMoveKeeps, AnalysisSteps DEF a

LEMMA CutHistoryKeeps ==
    ASSUME AnalysesInv, NEW p \in Analysts, Analyses!CutHistory(p)
    PROVE  AnalysesInv'
  <1> DEFINE a == analysis[p]
             r == [pc |-> "dump_history", ticker |-> a.ticker, made |-> a.made,
                   lost |-> a.lost, read |-> a.read]
  <1>1. /\ a.pc = "cut_history"
        /\ Analyses!Becomes(p, [a EXCEPT !.pc = "dump_history"])
        /\ UNCHANGED <<day, sweep, sweepCut, analyses, said, smeared, muddled>>
    BY DEF Analyses!CutHistory, Analyses!At, Analyses!sweeps, Analyses!ghosts
  <1>2. /\ a.ticker \in Tickers /\ a.made \in Said /\ a.lost \in BOOLEAN
        /\ a = [pc |-> a.pc, ticker |-> a.ticker, made |-> a.made, lost |-> a.lost,
                read |-> a.read]
    BY <1>1, Requests, AnalysisSteps DEF AnalysesInv
  <1>3. a.ticker \notin muddled => a.lost \/ a.read = analyses[a.ticker]
    BY <1>1, AnalysisSteps DEF AnalysesInv, SweepReading
  <1> HIDE DEF a
  <1>4. Analyses!Becomes(p, r)
    BY <1>1, <1>2
  <1>5. Asking(r)
    BY <1>2, AnalysisSteps DEF Asking
  <1>6. \A t \in Tickers : Stays(a, r, t, day)
    BY <1>1, AnalysisSteps DEF Stays
  <1>7. r.pc = "dump_history" /\ r.lost = a.lost /\ r.read = a.read /\ r.ticker = a.ticker
    OBVIOUS
  <1> HIDE DEF r
  <1> QED
    BY <1>1, <1>3, <1>4, <1>5, <1>6, <1>7, AnalysesMoveKeeps, AnalysisSteps DEF a

\* A request that is over with the sweep, which is written or not.
LEMMA SweptKeeps ==
    ASSUME AnalysesInv, NEW p \in Analysts, analysis[p].pc = "dump_sweep",
           Analyses!Becomes(p, Analyses!Analysis("history", analysis[p].ticker,
                                                 analysis[p].made)),
           UNCHANGED <<day, analyses, said, muddled>>,
           smeared' = smeared \cup Analyses!Mixed(p),
           \/ /\ sweep' = [sweep EXCEPT ![analysis[p].day] =
                              [analysis[p].read EXCEPT
                                  ![analysis[p].ticker] = {analysis[p].made}]]
              /\ sweepCut' = sweepCut \ {analysis[p].day}
           \/ UNCHANGED <<sweep, sweepCut>>
    PROVE  AnalysesInv'
  <1> DEFINE a == analysis[p]
             g == [a.read EXCEPT ![a.ticker] = {a.made}]
  <1>1. /\ a.pc = "dump_sweep" /\ a.ticker \in Tickers /\ a.made \in Said
        /\ a.day \in 1..day /\ a.day \in LastDays /\ a.read \in [Tickers -> SUBSET Said]
    BY Requests, AnalysisSteps DEF AnalysesInv
  <1>2. PICK r : r = [pc |-> "history", ticker |-> a.ticker, made |-> a.made]
    OBVIOUS
  <1>3. /\ Analyses!Becomes(p, r) /\ analysis'[p] = r
        /\ \A q \in Analysts \ {p} : analysis'[q] = analysis[q]
    BY <1>2, Becoming DEF Analyses!Analysis, AnalysesInv
  <1>4. /\ g \in [Tickers -> SUBSET Said] /\ g[a.ticker] = {a.made}
        /\ \A t \in Tickers : t # a.ticker => g[t] = a.read[t]
    BY <1>1
  <1>5. /\ \/ /\ sweep' = [sweep EXCEPT ![a.day] = g] /\ sweepCut' = sweepCut \ {a.day}
           \/ UNCHANGED <<sweep, sweepCut>>
        /\ smeared' = smeared \cup Analyses!Mixed(p)
    OBVIOUS
  <1>6. ASSUME NEW q \in Analysts \ {p}, analysis[q].pc \in Sweeping, analysis[q].day = a.day
        PROVE  a.day \in smeared'
    BY <1>5, <1>6 DEF Analyses!Mixed, Analyses!Others, Sweeping
  <1> HIDE DEF a, g
  <1>7. AnalysesType'
    <2>1. Asking(r)
      BY <1>1, <1>2, AnalysisSteps DEF Asking
    <2>2. \/ UNCHANGED sweep
          \/ /\ sweep' \in [LastDays -> [Tickers -> SUBSET Said]]
             /\ \A d \in LastDays : d > day => sweep'[d] = sweep[d]
      <3>1. sweep \in [LastDays -> [Tickers -> SUBSET Said]] /\ day \in Int
        BY Bounds DEF AnalysesInv, AnalysesType
      <3> QED
        BY <3>1, <1>1, <1>4, <1>5
    <2>3. AnalysesType
      BY DEF AnalysesInv
    <2>4. said' \in [Tickers -> [LastDays -> SUBSET Said]]
      BY <2>3 DEF AnalysesType
    <2> QED
      BY <1>3, <2>1, <2>2, <2>3, <2>4, TypeKeeps
  <1>8. Analyses!HistoryKept'
    BY DEF AnalysesInv, Analyses!HistoryKept, Analyses!IsHistory
  <1>9. SweepReading'
    <2>1. ASSUME NEW q \in Analysts, analysis'[q].pc \in ReadHistories,
                 analysis'[q].ticker \notin muddled
          PROVE  analysis'[q].lost \/ analysis'[q].read = analyses[analysis'[q].ticker]
      BY <2>1, <1>2, <1>3, AnalysisSteps DEF AnalysesInv, SweepReading
    <2> QED
      BY <2>1 DEF SweepReading
  <1>10. Cutting'
    <2>1. ASSUME NEW q \in Analysts, analysis'[q].pc = "dump_sweep",
                 analysis'[q].day \notin smeared'
          PROVE  analysis'[q].day \in sweepCut'
      <3>1. q # p /\ analysis'[q] = analysis[q]
        BY <2>1, <1>2, <1>3
      <3>2. analysis[q].day \in sweepCut
        BY <3>1, <2>1, <1>5 DEF AnalysesInv, Cutting
      <3>3. analysis[q].day # a.day
        BY <3>1, <2>1, <1>6, AnalysisSteps
      <3> QED
        BY <3>1, <3>2, <3>3, <1>5
    <2> QED
      BY <2>1 DEF Cutting
  <1>11. ASSUME MaxEntries > 0, day \notin smeared', NEW t \in Tickers \ muddled
         PROVE  /\ day \notin sweepCut' =>
                       Agree(sweep'[day], t, analyses[t], analysis', day)
                /\ \A q \in Analysts :
                       analysis'[q].pc \in Sweeping /\ analysis'[q].day = day =>
                           Agree(analysis'[q].read, t, analyses[t], analysis', day)
    <2>1. /\ day \notin smeared
          /\ day \notin sweepCut => Agree(sweep[day], t, analyses[t], analysis, day)
          /\ \A q \in Analysts :
                 analysis[q].pc \in Sweeping /\ analysis[q].day = day =>
                     Agree(analysis[q].read, t, analyses[t], analysis, day)
      BY <1>11, <1>5 DEF AnalysesInv, Agreeing
    <2>2. r.pc = "history" /\ r.ticker = a.ticker /\ r.made = a.made
      BY <1>2
    <2>3. ASSUME NEW f, NEW h, Agree(f, t, analyses[t], analysis, day),
                 t # a.ticker \/ a.day # day => h[t] = f[t],
                 t = a.ticker /\ a.day = day => h[t] \subseteq {a.made}
          PROVE  Agree(h, t, analyses[t], analysis', day)
      <3> DEFINE old == analysis
                 new == analysis'
      <3>1. /\ old[p] = a /\ new[p] = r /\ old[p].pc \in Sweeping
            /\ \A q \in Analysts \ {p} : new[q] = old[q]
        BY <1>1, <1>3, AnalysisSteps DEF a
      <3>2. Agree(f, t, analyses[t], old, day)
        BY <2>3
      <3> HIDE DEF old, new
      <3>3. Agree(h, t, analyses[t], new, day)
        BY <3>1, <3>2, <2>2, <2>3, AgreeSwept
      <3> QED
        BY <3>3 DEF new
    <2>4. CASE a.day = day
      <3>1. ASSUME NEW q \in Analysts, analysis'[q].pc \in Sweeping, analysis'[q].day = day
            PROVE  FALSE
        BY <3>1, <2>4, <2>2, <1>3, <1>6, <1>11, AnalysisSteps
      <3>2. ASSUME day \notin sweepCut'
            PROVE  Agree(sweep'[day], t, analyses[t], analysis', day)
        <4>1. day \in sweepCut
          BY <2>1, <2>4, <1>1 DEF AnalysesInv, Cutting, a
        <4>2. sweep'[day] = g
          BY <4>1, <3>2, <2>4, <1>1, <1>5 DEF AnalysesInv, AnalysesType
        <4>3. Agree(a.read, t, analyses[t], analysis, day)
          BY <2>1, <2>4, <1>1, AnalysisSteps DEF a
        <4>4. Agree(g, t, analyses[t], analysis', day)
          BY <4>3, <2>3, <1>4, <2>4, <1>11
        <4> QED
          BY <4>2, <4>4
      <3> QED
        BY <3>1, <3>2
    <2>5. CASE a.day # day
      <3>1. /\ sweep'[day] = sweep[day]
            /\ day \notin sweepCut' => day \notin sweepCut
        BY <2>5, <1>1, <1>5 DEF AnalysesInv, AnalysesType
      <3>2. ASSUME NEW f, Agree(f, t, analyses[t], analysis, day)
            PROVE  Agree(f, t, analyses[t], analysis', day)
        BY <3>2, <2>3, <2>5
      <3>3. ASSUME NEW q \in Analysts, analysis'[q].pc \in Sweeping, analysis'[q].day = day
            PROVE  Agree(analysis'[q].read, t, analyses[t], analysis', day)
        <4>1. q # p /\ analysis'[q] = analysis[q]
          BY <3>3, <2>2, <1>3, AnalysisSteps
        <4> QED
          BY <4>1, <3>2, <3>3, <2>1
      <3> QED
        BY <3>1, <3>2, <3>3, <2>1
    <2> QED
      BY <2>4, <2>5
  <1>12. Agreeing'
    BY <1>11 DEF Agreeing
  <1> QED
    BY <1>7, <1>8, <1>9, <1>10, <1>12 DEF AnalysesInv

\* Requests that are over, or die.
LEMMA OverTypes ==
    ASSUME AnalysesInv, NEW ps \in SUBSET Analysts,
           DOMAIN analysis' = Analysts,
           \A q \in ps : analysis'[q] = Analyses!Idle,
           \A q \in Analysts \ ps : analysis'[q] = analysis[q],
           UNCHANGED <<day, sweep, sweepCut, smeared>>,
           analyses' = [t \in Tickers |-> analyses'[t]],
           \A t \in Tickers \ muddled' : analyses'[t] \in Seq(Said),
           said' \in [Tickers -> [LastDays -> SUBSET Said]]
    PROVE  AnalysesType' /\ Cutting'
  <1>1. ASSUME NEW q \in Analysts PROVE Asking(analysis[q])'
    <2>1. Asking(analysis[q]) /\ Asking(Analyses!Idle)
      BY DEF AnalysesInv, AnalysesType, Asking
    <2>2. Asking(analysis'[q])
      BY <2>1
    <2> QED
      BY <2>2 DEF Asking
  <1>2. AnalysesType'
    BY <1>1 DEF AnalysesInv, AnalysesType
  <1>3. Cutting'
    <2>1. ASSUME NEW q \in Analysts, analysis'[q].pc = "dump_sweep",
                 analysis'[q].day \notin smeared
          PROVE  analysis'[q].day \in sweepCut
      <3>1. analysis'[q] = analysis[q]
        BY <2>1 DEF Analyses!Idle
      <3> QED
        BY <2>1, <3>1 DEF AnalysesInv, Cutting
    <2> QED
      BY <2>1 DEF Cutting
  <1> QED
    BY <1>2, <1>3

\* If a history is left as it was, that of the ticker does not count from here on.
LEMMA AnalysesForgetKeeps ==
    ASSUME AnalysesInv, NEW ps \in SUBSET Analysts,
           DOMAIN analysis' = Analysts,
           \A q \in ps : analysis'[q] = Analyses!Idle,
           \A q \in Analysts \ ps : analysis'[q] = analysis[q],
           ps = Analysts \/ \A q \in ps : analysis[q].pc \in Keeping,
           UNCHANGED <<day, sweep, sweepCut, smeared, analyses, said>>,
           muddled \subseteq muddled',
           \A q \in ps : analysis[q].pc \in Keeping => analysis[q].ticker \in muddled'
    PROVE  AnalysesInv'
  <1>1. AnalysesType' /\ Cutting'
    <2>1. /\ analyses' = [t \in Tickers |-> analyses'[t]]
          /\ \A t \in Tickers \ muddled' : analyses'[t] \in Seq(Said)
          /\ said' \in [Tickers -> [LastDays -> SUBSET Said]]
      BY DEF AnalysesInv, AnalysesType
    <2> QED
      BY <2>1, OverTypes
  <1>2. Analyses!HistoryKept'
    BY DEF AnalysesInv, Analyses!HistoryKept, Analyses!IsHistory
  <1>3. SweepReading'
    <2>1. ASSUME NEW q \in Analysts, analysis'[q].pc \in ReadHistories,
                 analysis'[q].ticker \notin muddled'
          PROVE  analysis'[q].lost \/ analysis'[q].read = analyses[analysis'[q].ticker]
      <3>1. analysis'[q] = analysis[q]
        BY <2>1, AnalysisSteps DEF Analyses!Idle
      <3> QED
        BY <2>1, <3>1 DEF AnalysesInv, SweepReading
    <2> QED
      BY <2>1 DEF SweepReading
  <1>4. ASSUME NEW t \in Tickers \ muddled', NEW f, NEW h,
               Agree(f, t, h, analysis, day)
        PROVE  Agree(f, t, h, analysis', day)
    <2>1. ASSUME \A q \in Analysts : analysis'[q].pc \in Keeping => analysis'[q].ticker # t,
                 NEW e \in f[t]
          PROVE  h # <<>> /\ h[1] = e
      <3>1. \A q \in Analysts : analysis[q].pc \in Keeping => analysis[q].ticker # t
        BY <2>1, <1>4
      <3> QED
        BY <3>1, <2>1, <1>4 DEF Agree
    <2>2. ASSUME NEW q \in Analysts, analysis'[q].pc \in Busy, analysis'[q].ticker = t,
                 Alone(analysis', q, t)
          PROVE  /\ analysis'[q].pc \in Keeping => f[t] \subseteq {analysis'[q].made}
                 /\ analysis'[q].pc \in Sweeping /\ analysis'[q].day # day => f[t] = {}
      <3>1. q \notin ps /\ analysis'[q] = analysis[q]
        BY <2>2, AnalysisSteps DEF Analyses!Idle
      <3>2. Alone(analysis, q, t)
        BY <3>1, <2>2, <1>4 DEF Alone
      <3> QED
        BY <3>1, <3>2, <2>2, <1>4 DEF Agree
    <2> QED
      BY <2>1, <2>2 DEF Agree
  <1>5. Agreeing'
    <2>1. ASSUME MaxEntries > 0, day \notin smeared, NEW t \in Tickers \ muddled'
          PROVE  /\ day \notin sweepCut => Agree(sweep[day], t, analyses[t], analysis', day)
                 /\ \A q \in Analysts :
                        analysis'[q].pc \in Sweeping /\ analysis'[q].day = day =>
                            Agree(analysis'[q].read, t, analyses[t], analysis', day)
      <3>1. /\ day \notin sweepCut => Agree(sweep[day], t, analyses[t], analysis, day)
            /\ \A q \in Analysts :
                   analysis[q].pc \in Sweeping /\ analysis[q].day = day =>
                       Agree(analysis[q].read, t, analyses[t], analysis, day)
        BY <2>1 DEF AnalysesInv, Agreeing
      <3>2. ASSUME NEW q \in Analysts, analysis'[q].pc \in Sweeping, analysis'[q].day = day
            PROVE  Agree(analysis'[q].read, t, analyses[t], analysis', day)
        <4>1. analysis'[q] = analysis[q]
          BY <3>2, AnalysisSteps DEF Analyses!Idle
        <4> QED
          BY <4>1, <3>1, <3>2, <1>4
      <3> QED
        BY <3>1, <3>2, <1>4
    <2> QED
      BY <2>1 DEF Agreeing
  <1> QED
    BY <1>1, <1>2, <1>3, <1>5 DEF AnalysesInv

LEMMA DumpHistoryFailsKeeps ==
    ASSUME AnalysesInv, NEW p \in Analysts, Analyses!DumpHistoryFails(p)
    PROVE  AnalysesInv'
  <1>1. /\ analysis[p].pc = "dump_history" /\ muddled' = muddled \cup {analysis[p].ticker}
        /\ Analyses!Becomes(p, Analyses!Idle)
        /\ UNCHANGED <<day, sweep, sweepCut, smeared, analyses, said>>
    BY DEF Analyses!DumpHistoryFails, Analyses!sweeps, Analyses!histories
  <1>2. /\ DOMAIN analysis' = Analysts /\ \A q \in {p} : analysis'[q] = Analyses!Idle
        /\ \A q \in Analysts \ {p} : analysis'[q] = analysis[q]
    BY <1>1, Becoming DEF AnalysesInv
  <1>3. \A q \in {p} : analysis[q].pc \in Keeping /\ analysis[q].ticker \in muddled'
    BY <1>1, AnalysisSteps
  <1>4. PICK ps : ps = {p}
    OBVIOUS
  <1> QED
    BY <1>1, <1>2, <1>3, <1>4, AnalysesForgetKeeps

LEMMA CrashKeeps ==
    ASSUME AnalysesInv, Analyses!Crash
    PROVE  AnalysesInv'
  <1>1. /\ muddled \subseteq muddled'
        /\ \A q \in Analysts : analysis[q].pc \in Keeping => analysis[q].ticker \in muddled'
        /\ DOMAIN analysis' = Analysts /\ \A q \in Analysts : analysis'[q] = Analyses!Idle
        /\ UNCHANGED <<day, sweep, sweepCut, smeared, analyses, said>>
    BY DEF Analyses!Crash, Analyses!sweeps, Analyses!histories, Keeping
  <1>2. PICK ps : ps = Analysts
    OBVIOUS
  <1> QED
    BY <1>1, <1>2, AnalysesForgetKeeps

LEMMA DumpHistoryKeeps ==
    ASSUME AnalysesInv, NEW p \in Analysts, Analyses!DumpHistory(p)
    PROVE  AnalysesInv'
  <1> DEFINE a == analysis[p]
             new == Analyses!Prepended(a.made, a.read)
  <1>1. /\ a.pc = "dump_history"
        /\ analyses' = [analyses EXCEPT ![a.ticker] = new]
        /\ said' = [said EXCEPT ![a.ticker][a.made.day] = {a.made}]
        /\ muddled \subseteq muddled'
        /\ Analyses!Becomes(p, Analyses!Idle)
        /\ UNCHANGED <<day, sweep, sweepCut, smeared>>
    BY DEF Analyses!DumpHistory, Analyses!sweeps
  <1>2. a.ticker \in Tickers /\ a.made \in Said /\ a.lost \in BOOLEAN
    BY <1>1, Requests, AnalysisSteps DEF AnalysesInv
  <1>3. /\ analysis'[p] = Analyses!Idle /\ DOMAIN analysis' = Analysts
        /\ \A q \in Analysts \ {p} : analysis'[q] = analysis[q]
    BY <1>1, Becoming DEF AnalysesInv
  <1>4. ASSUME a.ticker \notin muddled'
        PROVE  /\ ~a.lost /\ Alone(analysis, p, a.ticker)
               /\ \A i \in DOMAIN a.read : ~(a.read[i].day > a.made.day)
    BY <1>4 DEF Analyses!DumpHistory, Analyses!Late, Analyses!Others, Alone, Busy, Sweeping,
                Keeping
  <1>5. ASSUME a.ticker \notin muddled' PROVE a.read = analyses[a.ticker]
    BY <1>1, <1>4, <1>5, AnalysisSteps DEF AnalysesInv, SweepReading
  <1>6. AnalysesType
    BY DEF AnalysesInv
  <1>7. ASSUME a.ticker \notin muddled'
        PROVE  /\ new \in Seq(Said) /\ (MaxEntries > 0 => new # <<>> /\ new[1] = a.made)
               /\ Analyses!IsHistory(new, [said[a.ticker] EXCEPT ![a.made.day] = {a.made}])
    <2>1. Analyses!IsHistory(analyses[a.ticker], said[a.ticker])
      BY <1>1, <1>2, <1>7 DEF AnalysesInv, Analyses!HistoryKept
    <2>2. a.read \in Seq(Said)
      BY <1>1, <1>2, <1>5, <1>6, <1>7 DEF AnalysesType
    <2>4. \A i \in DOMAIN a.read : a.read[i].day <= a.made.day
      BY <1>2, <1>4, <1>7, <2>2, Bounds
    <2>3. said[a.ticker] \in [LastDays -> SUBSET Said]
      BY <1>2, <1>6 DEF AnalysesType
    <2> QED
      BY <2>1, <2>2, <2>3, <2>4, <1>2, <1>5, <1>7, PrependedIsHistory
  <1> HIDE DEF a, new
  <1>9. \A t \in Tickers : t # a.ticker =>
            analyses'[t] = analyses[t] /\ said'[t] = said[t]
    BY <1>1, <1>6 DEF AnalysesType
  <1>10. /\ analyses'[a.ticker] = new
         /\ said'[a.ticker] = [said[a.ticker] EXCEPT ![a.made.day] = {a.made}]
    BY <1>1, <1>2, <1>6 DEF AnalysesType
  <1>11. AnalysesType' /\ Cutting'
    <2>1. /\ analyses' = [t \in Tickers |-> analyses'[t]]
          /\ \A t \in Tickers \ muddled' : analyses'[t] \in Seq(Said)
      BY <1>1, <1>6, <1>7, <1>9, <1>10 DEF AnalysesType
    <2>2. said' \in [Tickers -> [LastDays -> SUBSET Said]]
      <3>1. [said[a.ticker] EXCEPT ![a.made.day] = {a.made}] \in [LastDays -> SUBSET Said]
        BY <1>2, <1>6 DEF AnalysesType
      <3>2. said' = [said EXCEPT ![a.ticker] =
                         [said[a.ticker] EXCEPT ![a.made.day] = {a.made}]]
        BY <1>1
      <3> QED
        BY <3>1, <3>2, <1>2, <1>6 DEF AnalysesType
    <2>3. PICK ps : ps = {p}
      OBVIOUS
    <2> QED
      <3>1. /\ DOMAIN analysis' = Analysts /\ \A q \in ps : analysis'[q] = Analyses!Idle
            /\ \A q \in Analysts \ ps : analysis'[q] = analysis[q]
        BY <1>3, <2>3
      <3>2. UNCHANGED <<day, sweep, sweepCut, smeared>>
        BY <1>1
      <3>3. ps \in SUBSET Analysts
        BY <2>3
      <3> QED
        BY <2>1, <2>2, <3>1, <3>2, <3>3, OverTypes
  <1>12. Analyses!HistoryKept'
    <2>1. ASSUME NEW t \in Tickers \ muddled'
          PROVE  Analyses!IsHistory(analyses'[t], said'[t])
      <3>1. CASE t = a.ticker
        BY <3>1, <2>1, <1>7, <1>10
      <3>2. CASE t # a.ticker
        BY <3>2, <2>1, <1>1, <1>9 DEF AnalysesInv, Analyses!HistoryKept
      <3> QED
        BY <3>1, <3>2
    <2> QED
      BY <2>1 DEF Analyses!HistoryKept, Analyses!IsHistory
  <1>13. SweepReading'
    <2>1. ASSUME NEW q \in Analysts, analysis'[q].pc \in ReadHistories,
                 analysis'[q].ticker \notin muddled'
          PROVE  analysis'[q].lost \/ analysis'[q].read = analyses'[analysis'[q].ticker]
      <3>1. q # p /\ analysis'[q] = analysis[q]
        BY <2>1, <1>3, AnalysisSteps DEF Analyses!Idle
      <3>2. analysis[q].ticker # a.ticker /\ analysis[q].ticker \in Tickers
        BY <3>1, <2>1, <1>4, <1>6, Requests, AnalysisSteps DEF Alone
      <3> QED
        BY <3>1, <3>2, <2>1, <1>1, <1>9 DEF AnalysesInv, SweepReading
    <2> QED
      BY <2>1 DEF SweepReading
  <1>14. ASSUME MaxEntries > 0, NEW t \in Tickers \ muddled', NEW f,
                Agree(f, t, analyses[t], analysis, day)
         PROVE  Agree(f, t, analyses'[t], analysis', day)
    <2>1. CASE t # a.ticker
      <3>1. Stays(analysis[p], Analyses!Idle, t, day)
        BY <2>1, <1>1, AnalysisSteps DEF Stays, Analyses!Idle, a
      <3>2. PICK old, later : old = analysis /\ later = analysis'
        OBVIOUS
      <3>3. Agree(f, t, analyses[t], later, day)
        BY <3>1, <3>2, <1>3, <1>14, AgreeStays
      <3> QED
        BY <3>2, <3>3, <2>1, <1>9
    <2>2. CASE t = a.ticker
      <3>1. Alone(analysis, p, t) /\ f[t] \subseteq {a.made}
        BY <2>2, <1>1, <1>4, <1>14, AnalysisSteps DEF Agree, a
      <3>2. ASSUME NEW q \in Analysts, analysis'[q].pc \in Busy, analysis'[q].ticker = t
            PROVE  FALSE
        BY <3>1, <3>2, <1>3, AnalysisSteps DEF Alone, Analyses!Idle
      <3>3. new # <<>> /\ new[1] = a.made
        BY <2>2, <1>7, <1>14
      <3> QED
        BY <3>1, <3>2, <3>3, <2>2, <1>10, AnalysisSteps DEF Agree
    <2> QED
      BY <2>1, <2>2
  <1>15. Agreeing'
    <2>1. ASSUME MaxEntries > 0, day \notin smeared, NEW t \in Tickers \ muddled'
          PROVE  /\ day \notin sweepCut => Agree(sweep[day], t, analyses'[t], analysis', day)
                 /\ \A q \in Analysts :
                        analysis'[q].pc \in Sweeping /\ analysis'[q].day = day =>
                            Agree(analysis'[q].read, t, analyses'[t], analysis', day)
      <3>1. /\ day \notin sweepCut => Agree(sweep[day], t, analyses[t], analysis, day)
            /\ \A q \in Analysts :
                   analysis[q].pc \in Sweeping /\ analysis[q].day = day =>
                       Agree(analysis[q].read, t, analyses[t], analysis, day)
        BY <2>1, <1>1 DEF AnalysesInv, Agreeing
      <3>2. ASSUME NEW q \in Analysts, analysis'[q].pc \in Sweeping, analysis'[q].day = day
            PROVE  Agree(analysis'[q].read, t, analyses'[t], analysis', day)
        <4>1. analysis'[q] = analysis[q]
          BY <3>2, <1>3, AnalysisSteps DEF Analyses!Idle
        <4> QED
          BY <4>1, <3>1, <3>2, <2>1, <1>14
      <3> QED
        BY <3>1, <3>2, <2>1, <1>14
    <2> QED
      BY <2>1, <1>1 DEF Agreeing
  <1> QED
    BY <1>11, <1>12, <1>13, <1>15 DEF AnalysesInv

LEMMA TickKeeps ==
    ASSUME AnalysesInv, Analyses!Tick
    PROVE  AnalysesInv'
  <1>1. /\ day < LastDay /\ day' = day + 1 /\ day \in LastDays /\ day' \in LastDays
        /\ UNCHANGED <<sweep, sweepCut, analyses, analysis, said, smeared, muddled>>
    BY Bounds DEF Analyses!Tick, Analyses!sweeps, Analyses!histories, Analyses!ghosts,
                  AnalysesInv, AnalysesType
  <1>2. AnalysesType'
    <2>1. ASSUME NEW q \in Analysts PROVE Asking(analysis[q])'
      <3>1. Asking(analysis[q]) /\ 1..day \subseteq 1..day'
        BY <1>1, Bounds DEF AnalysesInv, AnalysesType
      <3> QED
        BY <3>1, <1>1 DEF Asking
    <2>2. \A d \in LastDays : d > day' => d > day
      BY <1>1, Bounds
    <2> QED
      BY <2>1, <2>2, <1>1 DEF AnalysesInv, AnalysesType
  <1>3. Analyses!HistoryKept' /\ SweepReading' /\ Cutting'
    BY <1>1 DEF AnalysesInv, Analyses!HistoryKept, Analyses!IsHistory, SweepReading, Cutting
  <1>4. Agreeing'
    <2>1. sweep'[day'] = Analyses!Nothing
      BY <1>1, Bounds DEF AnalysesInv, AnalysesType
    <2>2. ASSUME NEW q \in Analysts, analysis[q].pc \in Sweeping
          PROVE  analysis[q].day # day'
      <3>1. analysis[q].day \in 1..day
        BY <2>2, Requests DEF AnalysesInv
      <3>2. day \in Int
        BY <1>1, Bounds
      <3> QED
        BY <3>1, <3>2, <1>1
    <2> QED
      BY <2>1, <2>2, <1>1, NothingAgrees DEF Agreeing
  <1> QED
    BY <1>2, <1>3, <1>4 DEF AnalysesInv

LEMMA InitAnalysesInv == Analyses!Init => AnalysesInv
  <1> SUFFICES ASSUME Analyses!Init PROVE AnalysesInv
    OBVIOUS
  <1>1. /\ day = 1 /\ sweep = [d \in LastDays |-> Analyses!Nothing]
        /\ analyses = [t \in Tickers |-> <<>>]
        /\ analysis = [p \in Analysts |-> Analyses!Idle]
        /\ said = [t \in Tickers |-> [d \in LastDays |-> {}]]
    BY DEF Analyses!Init, LastDays
  <1>2. AnalysesType
    BY <1>1, Bounds DEF AnalysesType, Asking, Analyses!Nothing
  <1>3. Analyses!HistoryKept
    BY <1>1, Bounds DEF Analyses!HistoryKept, Analyses!IsHistory, LastDays
  <1>4. SweepReading /\ Cutting
    BY <1>1, AnalysisSteps DEF SweepReading, Cutting, Analyses!Idle
  <1>5. Agreeing
    <2>1. sweep[day] = Analyses!Nothing
      BY <1>1, Bounds
    <2>2. \A p \in Analysts : analysis[p].pc \notin Sweeping
      BY <1>1, AnalysisSteps DEF Analyses!Idle
    <2> QED
      BY <2>1, <2>2, NothingAgrees DEF Agreeing
  <1> QED
    BY <1>2, <1>3, <1>4, <1>5 DEF AnalysesInv

LEMMA StepAnalysesInv == AnalysesInv /\ [Analyses!Next]_(Analyses!vars) => AnalysesInv'
  <1> SUFFICES ASSUME AnalysesInv, [Analyses!Next]_(Analyses!vars) PROVE AnalysesInv'
    OBVIOUS
  <1>1. CASE UNCHANGED Analyses!vars
    <2>1. UNCHANGED <<day, sweep, sweepCut, analyses, analysis, said, smeared, muddled>>
      BY <1>1 DEF Analyses!vars, Analyses!sweeps, Analyses!histories, Analyses!ghosts
    <2>2. AnalysesType'
      <3>1. ASSUME NEW p \in Analysts PROVE Asking(analysis[p])'
        <4>1. Asking(analysis[p])
          BY DEF AnalysesInv, AnalysesType
        <4> QED
          BY <4>1, <2>1 DEF Asking
      <3> QED
        BY <3>1, <2>1 DEF AnalysesInv, AnalysesType
    <2>3. Analyses!HistoryKept' /\ SweepReading' /\ Cutting' /\ Agreeing'
      BY <2>1 DEF AnalysesInv, Analyses!HistoryKept, Analyses!IsHistory, SweepReading, Cutting,
                  Agreeing
    <2> QED
      BY <2>2, <2>3 DEF AnalysesInv
  <1>2. CASE Analyses!Tick \/ Analyses!Crash
    BY <1>2, TickKeeps, CrashKeeps
  <1>3. ASSUME NEW p \in Analysts,
               \/ \E t \in Tickers, force \in BOOLEAN : Analyses!Ask(p, t, force)
               \/ Analyses!Look(p) \/ Analyses!Call(p)
        PROVE  AnalysesInv'
    BY <1>3, AskKeeps
  <1>4. ASSUME NEW p \in Analysts, Analyses!DumpSweep(p) \/ Analyses!DumpSweepFails(p)
        PROVE  AnalysesInv'
    BY <1>4, SweptKeeps DEF Analyses!DumpSweep, Analyses!DumpSweepFails, Analyses!sweeps,
                            Analyses!histories
  <1>5. ASSUME NEW p \in Analysts,
               \/ Analyses!ReadSweep(p) \/ Analyses!CutSweep(p)
               \/ Analyses!ReadHistory(p) \/ Analyses!CutHistory(p)
               \/ Analyses!DumpHistory(p) \/ Analyses!DumpHistoryFails(p)
        PROVE  AnalysesInv'
    BY <1>5, ReadSweepKeeps, CutSweepKeeps, ReadHistoryKeeps, CutHistoryKeeps,
       DumpHistoryKeeps, DumpHistoryFailsKeeps
  <1> QED
    BY <1>1, <1>2, <1>3, <1>4, <1>5 DEF Analyses!Next

\* The history of a ticker is the last analysis of each of its newest days, the newest
\* first, and the sweep of today tells what it tells (intelligence/cache.py, history.py),
\* of any number of tickers, days and requests, in any order of their steps and wherever
\* the server dies or a write fails, of the tickers and days that none of the known
\* mishaps happened to.
THEOREM AnalysesStay == Analyses!Spec => []AnalysesKept
  <1>1. AnalysesInv => AnalysesKept
    <2> SUFFICES ASSUME AnalysesInv,
                        NEW t \in Tickers \ muddled, MaxEntries > 0,
                        day \notin smeared \cup sweepCut,
                        \A p \in Analysts : analysis[p].pc \in Keeping =>
                            analysis[p].ticker # t,
                        NEW e \in sweep[day][t]
                 PROVE  analyses[t] # <<>> /\ Head(analyses[t]) = e
      BY DEF AnalysesInv, AnalysesKept, Analyses!AnalysesKept, Analyses!CacheAgrees, Keeping
    <2>1. Agree(sweep[day], t, analyses[t], analysis, day)
      BY DEF AnalysesInv, Agreeing
    <2>2. analyses[t] # <<>> /\ analyses[t][1] = e
      BY <2>1 DEF Agree
    <2>3. analyses[t] \in Seq(Said)
      BY DEF AnalysesInv, AnalysesType
    <2> QED
      BY <2>2, <2>3
  <1> QED
    BY <1>1, InitAnalysesInv, StepAnalysesInv, PTL DEF Analyses!Spec

=============================================================================
