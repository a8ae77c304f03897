---------------------------- MODULE SymbolProofs ----------------------------
(***************************************************************************)
(* What is decided of one symbol, for every market, every setting of the   *)
(* rules and every choice of the trader: a position, live and simulated, is*)
(* a holding; today's advice can be placed and, once accepted, leaves      *)
(* nothing more to advise today; the trades of the backtest come one after *)
(* the other, each closed at a price.  For every company and report: the   *)
(* figures that are compared are of like periods; a card tells what is     *)
(* wrong with them, and says of their worth what the server says; better   *)
(* ones never put a candidate further behind.                              *)
(***************************************************************************)
EXTENDS MCSymbol, Sums, TLAPS

(* The rules: the stops they ask for are whole cents, and the stop they      *)
(* suggest is the highest of those and of the position's own.                *)

Histories == {h \in Seq(Bar) : h # <<>>}

\* What the rules read of a position.
Managed(p) == p.entry \in Int /\ p.stop \in Int /\ p.risk \in Int

\* Prices of whole cents.
Whole == {x \in Int : Cents(x, 1) = x}

LEMMA CentsWhole ==
    ASSUME NEW num \in Int, NEW den \in Nat \ {0}
    PROVE  Cents(num, den) \in Whole
  <1> DEFINE k == (num + 5 * den) \div (10 * den)
  <1>1. k \in Int
    OBVIOUS
  <1>2. (10 * k + 5 * 1) \div (10 * 1) = k
    BY <1>1
  <1> QED
    BY <1>1, <1>2 DEF Cents, Whole

\* A price that rounds above a rounded stop is above the stop itself.
LEMMA CentsRaise ==
    ASSUME NEW x \in Int, NEW y \in Int, x > Cents(y, 1), x \in Whole
    PROVE  x > y
  BY DEF Cents, Whole

LEMMA MaxOfThree ==
    ASSUME NEW a \in Int, NEW X, NEW Y,
           NEW b \in Int, X \in {{}, {b}}, NEW c \in Int, Y \in {{}, {c}}
    PROVE  LET S == {a} \cup (X \cup Y)
           IN  Max(S) \in S /\ \A x \in S : Max(S) >= x
  <1> DEFINE S == {a} \cup (X \cup Y)
  <1>1. \E x \in S : \A y \in S : x >= y
    <2>1. CASE X = {} /\ Y = {}
      BY <2>1
    <2>2. CASE X = {b} /\ Y = {}
      BY <2>2
    <2>3. CASE X = {} /\ Y = {c}
      BY <2>3
    <2>4. CASE X = {b} /\ Y = {c}
      BY <2>4
    <2> QED
      BY <2>1, <2>2, <2>3, <2>4
  <1> QED
    BY <1>1 DEF Max

-----------------------------------------------------------------------------

LEMMA NextBarType ==
    ASSUME NEW q \in Quote, NEW d \in Nat, NEW sum \in Int
    PROVE  NextBar(q, d, sum) \in Bar
  <1>1. q.close \in Closes /\ q.atr \in Ranges /\ q.close \in Nat
    BY MarketAssumption DEF Quote
  <1> QED
    BY <1>1 DEF NextBar, Bar

\* A day of trading makes a history of a history.
LEMMA TradedType ==
    ASSUME NEW h \in Histories, NEW d \in Nat
    PROVE  Traded(h, d) \subseteq Histories
  <1>1. h \in Seq(Bar) /\ Len(h) \in Nat \ {0}
    BY DEF Histories
  <1>2. h[Len(h)] \in Bar
    BY <1>1
  <1>3. h[Len(h)].sum \in Int
    BY <1>2 DEF Bar
  <1>4. ASSUME NEW b \in Bar
        PROVE  Append(h, b) \in Histories
    BY <1>1 DEF Histories
  <1> QED
    BY <1>3, <1>4, NextBarType DEF Traded

LEMMA TradedLast ==
    ASSUME NEW h \in Histories, NEW d \in Nat, NEW bs \in Traded(h, d)
    PROVE  bs[Len(bs)].day = d
  <1>1. PICK q \in Quote : bs = Append(h, NextBar(q, d, h[Len(h)].sum))
    BY DEF Traded
  <1> DEFINE b == NextBar(q, d, h[Len(h)].sum)
  <1>2. b.day = d
    BY DEF NextBar
  <1> HIDE DEF b
  <1>3. bs[Len(bs)] = b
    BY <1>1 DEF Histories, b
  <1> QED
    BY <1>2, <1>3

LEMMA FirstBarsType == FirstBars \subseteq Histories
  <1>1. ASSUME NEW b \in Bar
        PROVE  <<b>> \in Histories
    BY DEF Histories
  <1> QED
    BY <1>1, NextBarType DEF FirstBars

LEMMA HistoryType ==
    ASSUME NEW h \in Histories
    PROVE  /\ Len(h) \in Nat \ {0}
           /\ \A i \in 1..Len(h) :
                  /\ h[i].close \in Nat \ {0} /\ h[i].atr \in Nat
                  /\ h[i].sum \in Int /\ h[i].day \in Nat
           /\ LastClose(h) \in Nat \ {0}
  <1>1. h \in Seq(Bar) /\ h # <<>>
    BY DEF Histories
  <1>2. Len(h) \in Nat \ {0}
    BY <1>1
  <1>3. ASSUME NEW i \in 1..Len(h)
        PROVE  h[i] \in Bar
    BY <1>1, <1>3
  <1>4. \A b \in Bar :
            b.close \in Nat \ {0} /\ b.atr \in Nat /\ b.sum \in Int /\ b.day \in Nat
    BY MarketAssumption DEF Bar
  <1> QED
    BY <1>2, <1>3, <1>4 DEF LastClose

LEMMA SmaSumType ==
    ASSUME NEW h \in Histories, NEW i \in 1..Len(h), i >= TrailSma
    PROVE  SmaSum(h, i) \in Int
  <1>1. TrailSma \in Nat \ {0}
    BY RulesAssumption
  <1>2. CASE i = TrailSma
    BY <1>2, HistoryType DEF SmaSum
  <1>3. CASE i # TrailSma
    <2>1. i - TrailSma \in 1..Len(h)
      BY <1>1, <1>3
    <2> QED
      BY <1>3, <2>1, HistoryType DEF SmaSum
  <1> QED
    BY <1>2, <1>3

LEMMA TrailStopsWhole ==
    ASSUME NEW h \in Histories, NEW method
    PROVE  \E c \in Whole : TrailStops(method, h) \in {{}, {c}}
  <1> DEFINE n == Len(h)
             c1 == Cents(SmaSum(h, n) * (1000 - SmaBuffer), 1000 * TrailSma)
             c2 == Cents(h[n].close - AtrMultiple * h[n].atr, 1)
             c3 == Cents(h[n].close * (100 - TrailPct), 100)
  <1>1. /\ SmaBuffer \in Nat /\ AtrMultiple \in Nat /\ TrailPct \in Nat
        /\ TrailSma \in Nat \ {0}
    BY RulesAssumption
  <1>2. n \in 1..Len(h) /\ h[n].close \in Nat /\ h[n].atr \in Nat
    BY HistoryType
  <1>3. ASSUME n >= TrailSma
        PROVE  c1 \in Whole
    <2>1. SmaSum(h, n) \in Int
      BY <1>2, <1>3, SmaSumType
    <2> QED
      BY <1>1, <2>1, CentsWhole
  <1>4. c2 \in Whole
    BY <1>1, <1>2, CentsWhole
  <1>5. c3 \in Whole
    BY <1>1, <1>2, CentsWhole
  <1>6. CASE method = "sma20" /\ n >= TrailSma
    <2>1. TrailStops(method, h) = {c1}
      BY <1>6 DEF TrailStops
    <2> QED
      BY <1>3, <1>6, <2>1
  <1>7. CASE ~(method = "sma20" /\ n >= TrailSma)
    <2>1. TrailStops(method, h) \in {{c2}, {c3}, {}}
      BY <1>7 DEF TrailStops
    <2> QED
      BY <1>4, <1>5, <2>1
  <1> QED
    BY <1>6, <1>7

\* The stop suggested is whole cents, and the highest in the running.
LEMMA Highest ==
    ASSUME NEW p, Managed(p), NEW h \in Histories
    PROVE  LET best == Max({Cents(p.stop, 1)} \cup RuleStops(p, h))
           IN  /\ best \in Whole
               /\ best \in {Cents(p.stop, 1)} \cup RuleStops(p, h)
               /\ best >= Cents(p.stop, 1)
               /\ RuleStops(p, h) \subseteq Whole
               /\ \A x \in RuleStops(p, h) : best >= x
  <1> DEFINE X == IF Reached(p, LastClose(h), BreakevenAtR)
                  THEN {Cents(p.entry, 1)} ELSE {}
             Y == IF Reached(p, LastClose(h), TrailAfterR)
                  THEN TrailStops(p.method, h) ELSE {}
  <1>1. Cents(p.stop, 1) \in Whole /\ Cents(p.entry, 1) \in Whole
    BY CentsWhole DEF Managed
  <1>2. X \in {{}, {Cents(p.entry, 1)}}
    OBVIOUS
  <1>3. PICK c \in Whole : Y \in {{}, {c}}
    BY <1>1, TrailStopsWhole
  <1>4. RuleStops(p, h) = X \cup Y
    BY DEF RuleStops
  <1> HIDE DEF X, Y
  <1>5. LET S == {Cents(p.stop, 1)} \cup (X \cup Y)
        IN  Max(S) \in S /\ \A x \in S : Max(S) >= x
    BY <1>1, <1>2, <1>3, MaxOfThree DEF Whole
  <1> QED
    BY <1>1, <1>2, <1>3, <1>4, <1>5

\* The advice is an action and a stop, and only a higher stop is an update.
LEMMA EvaluateType ==
    ASSUME NEW p, Managed(p), NEW h \in Histories
    PROVE  LET u == Evaluate(p, h)
           IN  /\ u.action \in Closing \cup {"MOVE_STOP_UP", "NO_ACTION"}
               /\ u.stop \in Int
               /\ u.action = "MOVE_STOP_UP" =>
                      /\ u.stop \in Whole /\ u.stop > p.stop
                      /\ u.stop \in RuleStops(p, h)
                      /\ \A x \in RuleStops(p, h) : u.stop >= x
  <1> DEFINE best == Max({Cents(p.stop, 1)} \cup RuleStops(p, h))
  <1>0. Cents(p.stop, 1) \in Int
    BY CentsWhole DEF Whole, Managed
  <1>1. /\ best \in Whole /\ Cents(p.stop, 1) \in Int
        /\ best \in {Cents(p.stop, 1)} \cup RuleStops(p, h)
        /\ \A x \in RuleStops(p, h) : best >= x
    BY <1>0, Highest
  <1>2. best > Cents(p.stop, 1) =>
            best > p.stop /\ best \in RuleStops(p, h)
    BY <1>1, CentsRaise DEF Whole, Managed
  <1> HIDE DEF best
  <1> QED
    BY <1>1, <1>2 DEF Evaluate, Update, Closing, Whole, Managed, best

\* A position is closed for its stop, its age or the average, and for no other
\* reason; one that is kept is not too old, nor below the average.
LEMMA EvaluateCloses ==
    ASSUME NEW p, NEW h
    PROVE  LET u == Evaluate(p, h)
               broken == ExitSignalDays # 0 /\ SmaBroken(h)
           IN  /\ u.action = "CLOSE_TIME_EXIT" => TimeExit(h, p.opened)
               /\ u.action = "CLOSE_EXIT_SIGNAL" => broken
               /\ u.action \notin Closing => ~TimeExit(h, p.opened) /\ ~broken
  <1> DEFINE best == Max({Cents(p.stop, 1)} \cup RuleStops(p, h))
             hit == LastClose(h) <= p.stop
             old == TimeExit(h, p.opened)
             broken == ExitSignalDays # 0 /\ SmaBroken(h)
             higher == best > Cents(p.stop, 1)
  <1>1. Evaluate(p, h) =
            IF hit THEN Update("CLOSE_STOP_HIT", p.stop)
            ELSE IF old THEN Update("CLOSE_TIME_EXIT", p.stop)
            ELSE IF broken THEN Update("CLOSE_EXIT_SIGNAL", p.stop)
            ELSE IF higher THEN Update("MOVE_STOP_UP", best)
            ELSE Update("NO_ACTION", Cents(p.stop, 1))
    BY Zenon DEF Evaluate
  <1> HIDE DEF best, hit, old, broken, higher
  <1>2. LET u == Evaluate(p, h)
        IN  /\ u.action = "CLOSE_TIME_EXIT" => old
            /\ u.action = "CLOSE_EXIT_SIGNAL" => broken
            /\ u.action \notin Closing => ~old /\ ~broken
    BY <1>1 DEF Update, Closing
  <1> QED
    BY <1>2 DEF old, broken

-----------------------------------------------------------------------------

\* Advice is given of an open position, today or before.
AdviceGiven ==
    /\ advice.day <= today
    /\ pos.status = "none" => advice = NoAdvice
    /\ pos.status # "none" =>
           \E entry, stop \in Prices : stop < entry /\ pos.risk = entry - stop

\* What the rules read of the position the advice was given for.
Advised == [entry |-> pos.entry, risk |-> pos.risk, method |-> advice.method]

\* An update advised is of whole cents; advised today, it is the highest of
\* what the rules ask for under the method it was given for.
AdviceHighest ==
    advice.action = "MOVE_STOP_UP" =>
        /\ advice.stop \in Whole
        /\ advice.day = today =>
               /\ advice.stop \in RuleStops(Advised, bars)
               /\ \A x \in RuleStops(Advised, bars) : advice.stop >= x

IInv == TypeOK /\ AdviceGiven /\ AdviceHighest

LEMMA InitIInv == Init => IInv
  <1> SUFFICES ASSUME Init PROVE IInv
    OBVIOUS
  <1>1. bars \in Seq(Bar) /\ bars # <<>>
    BY FirstBarsType DEF Init, Histories
  <1>2. today \in 1..MaxBars
    BY RulesAssumption DEF Init
  <1>3. TypeOK
    BY <1>1, <1>2, MethodsAssumption
    DEF Init, TypeOK, None, NoAdvice, Actions
  <1> QED
    BY <1>3 DEF Init, IInv, AdviceGiven, AdviceHighest, NoAdvice, None

\* The rules read the entry, the risk and the method.
LEMMA SameAdvice ==
    ASSUME NEW p, NEW q, p.entry = q.entry, p.risk = q.risk,
           p.method = q.method, NEW bs
    PROVE  RuleStops(p, bs) = RuleStops(q, bs)
  BY DEF RuleStops, Reached

\* No edit of the open position touches what the advice was given for.
LEMMA ChangeIInv ==
    ASSUME IInv, NEW s \in Int, NEW status \in {"open", "closed"},
           NEW method \in Methods, Change(status, s, method),
           pos.status = "open"
    PROVE  IInv'
  <1>1. /\ pos' = [status |-> status, entry |-> pos.entry, stop |-> s,
                   risk |-> pos.risk, method |-> method,
                   opened |-> pos.opened]
        /\ today' = today /\ bars' = bars /\ advice' = advice
    BY DEF Change, market
  <1>2. TypeOK'
    BY <1>1 DEF IInv, TypeOK
  <1>3. Advised' = Advised
    BY <1>1 DEF Advised
  <1> QED
    BY <1>1, <1>2, <1>3 DEF IInv, AdviceGiven, AdviceHighest

LEMMA StepIInv == IInv /\ [Next]_vars => IInv'
  <1> SUFFICES ASSUME IInv, [Next]_vars PROVE IInv'
    OBVIOUS
  <1> USE DEF IInv
  <1>0. /\ bars \in Histories /\ Managed(pos) /\ today \in 1..MaxBars
        /\ MaxBars \in Nat
    BY RulesAssumption DEF TypeOK, Histories, Managed
  <1>m. pos.method \in Methods /\ pos.stop \in Int
    BY DEF TypeOK
  <1>1. ASSUME NextDay PROVE IInv'
    <2>1. /\ today < MaxBars /\ today' = today + 1
          /\ bars' \in Traded(bars, today + 1) \cup {bars}
          /\ pos' = pos /\ advice' = advice
      BY <1>1 DEF NextDay
    <2>2. bars' \in Histories
      BY <1>0, <2>1, TradedType
    <2>3. TypeOK'
      BY <1>0, <2>1, <2>2 DEF TypeOK, Histories
    <2>4. advice'.day # today'
      BY <1>0, <2>1 DEF AdviceGiven, TypeOK
    <2> QED
      BY <1>0, <2>1, <2>3, <2>4 DEF AdviceGiven, AdviceHighest, TypeOK
  <1>2. ASSUME NEW entry \in Prices, NEW s \in Prices, CreatePosition(entry, s)
        PROVE  IInv'
    <2>1. PICK d \in 1..today :
              pos' = [status |-> "open", entry |-> entry, stop |-> s,
                      risk |-> entry - s, method |-> "sma20", opened |-> d]
      BY <1>2 DEF CreatePosition
    <2>2. /\ s < entry /\ pos.status = "none"
          /\ today' = today /\ bars' = bars /\ advice' = advice
      BY <1>2 DEF CreatePosition, market
    <2>3. entry \in Int /\ s \in Int
      BY MarketAssumption
    <2>4. TypeOK'
      BY <1>0, <2>1, <2>2, <2>3, MethodsAssumption DEF TypeOK
    <2>5. advice = NoAdvice
      BY <2>2 DEF AdviceGiven
    <2> QED
      BY <2>1, <2>2, <2>4, <2>5 DEF AdviceGiven, AdviceHighest, NoAdvice
  <1>3. ASSUME NEW h \in Histories, NEW d \in Nat, d <= today,
               d = today => h = bars, pos.status = "open",
               Show(Evaluate(pos, h), d)
        PROVE  IInv'
    <2> DEFINE u == Evaluate(pos, h)
    <2>1. /\ u.action \in Actions /\ u.stop \in Int
          /\ u.action = "MOVE_STOP_UP" =>
                 /\ u.stop \in Whole /\ u.stop \in RuleStops(pos, h)
                 /\ \A x \in RuleStops(pos, h) : u.stop >= x
      BY <1>0, EvaluateType DEF Actions
    <2>2. /\ advice' = [action |-> u.action, stop |-> u.stop, day |-> d,
                        method |-> pos.method]
          /\ today' = today /\ bars' = bars /\ pos' = pos
      BY <1>3 DEF Show, market
    <2> HIDE DEF u
    <2>3. TypeOK'
      BY <2>1, <2>2, <1>3 DEF TypeOK
    <2>4. RuleStops(Advised', bars) = RuleStops(pos, bars)
      BY <2>2, SameAdvice DEF Advised
    <2>6. AdviceHighest'
      BY <2>1, <2>2, <2>4, <1>3 DEF AdviceHighest
    <2>5. AdviceGiven'
      BY <2>2, <1>3 DEF AdviceGiven
    <2> QED
      BY <2>3, <2>5, <2>6
  <1>4. ASSUME SuggestStop PROVE IInv'
    BY <1>0, <1>3, <1>4 DEF SuggestStop
  <1>5. ASSUME NEW price \in Closes, SuggestIntraday(price) PROVE IInv'
    <2> DEFINE n == Len(bars)
               past == IF bars[n].day = today THEN [i \in 1..n - 1 |-> bars[i]]
                                             ELSE bars
    <2>1. /\ pos.status = "open" /\ bars[1].day < today
          /\ \E preview \in {p \in Traded(past, today) : LastClose(p) = price} :
                 Show(Evaluate(pos, preview), 0)
      BY <1>5, Zenon DEF SuggestIntraday
    <2> HIDE DEF past
    <2>2. past \in Histories
      <3>1. bars \in Seq(Bar) /\ n \in Nat \ {0} /\ bars # <<>>
        BY <1>0 DEF Histories
      <3>2. CASE bars[n].day = today
        <4>1. n # 1
          BY <2>1, <3>2, <1>0, HistoryType
        <4>2. past \in Seq(Bar) /\ Len(past) = n - 1
          BY <3>1, <3>2 DEF past
        <4> QED
          BY <3>1, <4>1, <4>2 DEF Histories
      <3> QED
        BY <1>0, <3>2 DEF past
    <2>3. PICK preview \in Traded(past, today) :
              Show(Evaluate(pos, preview), 0)
      BY <2>1
    <2>4. preview \in Histories
      BY <1>0, <2>2, TradedType
    <2> QED
      BY <1>0, <1>3, <2>1, <2>3, <2>4
  <1>6. ASSUME NEW requested \in Int, NEW known \in BOOLEAN,
               UpdatePositionStop(requested, known)
        PROVE  IInv'
    <2>1. Cents(requested, 1) \in Int
      BY CentsWhole DEF Whole
    <2>2. pos.status = "open" /\ Change("open", Cents(requested, 1), pos.method)
      BY <1>6 DEF UpdatePositionStop
    <2> QED
      BY <1>m, <2>1, <2>2, ChangeIInv
  <1>7. ASSUME NEW method \in Methods, UpdateTrailMethod(method)
        PROVE  IInv'
    BY <1>m, <1>7, ChangeIInv DEF UpdateTrailMethod
  <1>8. ASSUME ClosePosition PROVE IInv'
    BY <1>m, <1>8, ChangeIInv DEF ClosePosition
  <1>9. ASSUME UNCHANGED vars PROVE IInv'
    BY <1>9 DEF vars, market, TypeOK, AdviceGiven, AdviceHighest, Advised
  <1>10. advice.stop \in Int /\ Prices \subseteq Int
    BY MarketAssumption DEF TypeOK
  <1> QED
    BY <1>1, <1>2, <1>4, <1>5, <1>6, <1>7, <1>8, <1>9, <1>10 DEF Next

\* What the rules read is well-typed, and the advice on screen is the highest
\* of what they asked for: the invariant of the managed position.
THEOREM TradeInv == Spec => []IInv
  BY InitIInv, StepIInv, PTL DEF Spec

\* Type correctness.
THEOREM TradeTypeCorrect == Spec => []TypeOK
  <1>1. IInv => TypeOK
    BY DEF IInv
  <1> QED
    BY <1>1, TradeInv, PTL

-----------------------------------------------------------------------------

\* The managed position is a holding: its stop only rises, its entry and its
\* risk stay, and closed it is not touched.
LEMMA InitLive == Init => Live!Init
  BY DEF Init, None, Live!Init

LEMMA StepForms ==
    ASSUME IInv, [Next]_vars
    PROVE  \/ pos' = pos
           \/ \E entry, s \in Prices : CreatePosition(entry, s)
           \/ \E requested \in Int, known \in BOOLEAN :
                  UpdatePositionStop(requested, known)
           \/ \E method \in Methods : UpdateTrailMethod(method)
           \/ ClosePosition
  <1>1. advice.stop \in Int /\ Prices \subseteq Int
    BY MarketAssumption DEF IInv, TypeOK
  <1> QED
    BY <1>1 DEF Next, vars, NextDay, SuggestStop, SuggestIntraday, Show

LEMMA StepLive ==
    ASSUME IInv, [Next]_vars
    PROVE  [Live!Next]_<<pos.status, pos.entry, pos.stop, pos.risk>>
  <1> USE DEF Live!Next, Live!Open, Live!RaiseStop, Live!Close
  <1>0. /\ pos.stop \in Int /\ advice.stop \in Int /\ Prices \subseteq Int
    BY MarketAssumption DEF IInv, TypeOK
  <1>1. ASSUME pos' = pos
        PROVE  [Live!Next]_<<pos.status, pos.entry, pos.stop, pos.risk>>
    BY <1>1
  <1>2. ASSUME NEW entry \in Prices, NEW s \in Prices, CreatePosition(entry, s)
        PROVE  Live!Open
    BY <1>2 DEF CreatePosition
  <1>3. ASSUME NEW requested \in Int, NEW known \in BOOLEAN,
               UpdatePositionStop(requested, known)
        PROVE  Live!RaiseStop
    <2>1. /\ Cents(requested, 1) \in Whole /\ Cents(requested, 1) \in Int
          /\ Cents(requested, 1) > Cents(pos.stop, 1)
      BY <1>3, CentsWhole DEF UpdatePositionStop, Whole
    <2>2. Cents(requested, 1) > pos.stop
      BY <1>0, <2>1, CentsRaise
    <2> QED
      BY <1>3, <2>2 DEF UpdatePositionStop, Change
  <1>4. ASSUME NEW method \in Methods, UpdateTrailMethod(method)
        PROVE  UNCHANGED <<pos.status, pos.entry, pos.stop, pos.risk>>
    BY <1>4 DEF UpdateTrailMethod, Change
  <1>5. ASSUME ClosePosition PROVE Live!Close
    BY <1>5 DEF ClosePosition, Change
  <1> QED
    BY <1>1, <1>2, <1>3, <1>4, <1>5, StepForms

\* A live position is a holding (portfolio/write.py): whatever the bars, the advice and
\* the orders to move its stop, the stop only rises until it is closed.
THEOREM TradeIsHolding == Spec => LiveSpec
  <1>1. IInv /\ [Next]_vars =>
            [Live!Next]_<<pos.status, pos.entry, pos.stop, pos.risk>>
    BY StepLive
  <1> QED
    BY <1>1, InitLive, TradeInv, PTL DEF Spec, LiveSpec, Live!Spec

\* Accepting today's advice settles the day, whatever the bars, the rules and
\* the method.
THEOREM TradeAdviceSettles == Spec => AdviceSettles
  <1> DEFINE Accepted == /\ Fresh /\ advice.action = "MOVE_STOP_UP"
                         /\ pos.status = "open"
                         /\ pos'.stop # pos.stop
                         /\ pos'.stop = Cents(advice.stop, 1)
  <1>1. ASSUME IInv, [Next]_vars, Accepted
        PROVE  Evaluate(pos', bars).action # "MOVE_STOP_UP"
    <2>1. /\ pos'.entry = pos.entry /\ pos'.risk = pos.risk
          /\ pos'.method = pos.method
      BY <1>1, StepForms
      DEF CreatePosition, UpdatePositionStop, UpdateTrailMethod, ClosePosition,
          Change
    <2>2. /\ pos'.stop = advice.stop
          /\ \A x \in RuleStops(Advised, bars) : advice.stop >= x
      BY <1>1 DEF IInv, AdviceHighest, Whole, Fresh
    <2>3. RuleStops(pos', bars) = RuleStops(Advised, bars)
      BY <1>1, <2>1, SameAdvice DEF Advised, Fresh
    <2>4. bars \in Histories /\ Managed(pos')
      BY <1>1, <2>1, <2>2 DEF IInv, TypeOK, Histories, Managed
    <2>5. LET u == Evaluate(pos', bars)
          IN  u.action = "MOVE_STOP_UP" =>
                  /\ u.stop \in Int /\ u.stop > pos'.stop
                  /\ u.stop \in RuleStops(pos', bars)
      BY <2>4, EvaluateType
    <2> QED
      BY <2>2, <2>3, <2>4, <2>5 DEF Managed
  <1>2. IInv /\ [Next]_vars =>
            [Accepted => Evaluate(pos', bars).action # "MOVE_STOP_UP"]_vars
    BY <1>1
  <1> QED
    BY <1>2, TradeInv, PTL DEF Spec, AdviceSettles

-----------------------------------------------------------------------------

(* Rounding to the cent lifts no stop over the close: the closes are whole   *)
(* cents, or every distance the rules keep from them is half a cent or more. *)
Coarse ==
    \/ Closes \subseteq Whole
    \/ /\ BreakevenAtR > 0 /\ \A p, q \in Prices : p > q => p - q >= 5
       /\ \A range \in Ranges : range # 0 => AtrMultiple * range >= 5
       /\ \A close \in Closes : close * TrailPct >= 500

LEMMA WholeTens ==
    ASSUME NEW x \in Whole
    PROVE  \E m \in Int : x = 10 * m
  <1>1. x \in Int /\ x = 10 * ((x + 5 * 1) \div (10 * 1))
    BY DEF Whole, Cents
  <1>2. (x + 5 * 1) \div (10 * 1) \in Int
    BY <1>1
  <1> QED
    BY <1>1, <1>2

\* What is rounded to the cent stays at or below what is half a cent higher,
\* and at or below what is whole cents and no lower.
LEMMA CentsBelow ==
    ASSUME NEW num \in Int, NEW den \in {1, 100}, NEW c \in Int,
           \/ c \in Whole /\ num <= den * c
           \/ num <= den * c - 5 * den
    PROVE  Cents(num, den) <= c
  <1> DEFINE k == (num + 5 * den) \div (10 * den)
  <1>1. k \in Int /\ (10 * den) * k <= num + 5 * den
    <2>1. CASE den = 1
      BY <2>1
    <2>2. CASE den = 100
      BY <2>2
    <2> QED
      BY <2>1, <2>2
  <1>2. Cents(num, den) = 10 * k
    BY DEF Cents
  <1> HIDE DEF k
  <1>3. CASE num <= den * c - 5 * den
    BY <1>1, <1>2, <1>3
  <1>4. CASE c \in Whole /\ num <= den * c
    <2>1. PICK m \in Int : c = 10 * m
      BY <1>4, WholeTens
    <2> QED
      BY <1>1, <1>2, <1>4, <2>1
  <1> QED
    BY <1>3, <1>4

\* None of the stops the rules ask for is above the close, but the average's.
LEMMA RuleStopsPlaceable ==
    ASSUME Coarse, NEW p, p.entry \in Int,
           \E entry, stop \in Prices : stop < entry /\ p.risk = entry - stop,
           p.method # "sma20", NEW bs \in Histories
    PROVE  \A x \in RuleStops(p, bs) : x <= LastClose(bs)
  <1> DEFINE last == LastClose(bs)
             range == bs[Len(bs)].atr
  <1>1. /\ last \in Closes /\ last \in Nat /\ range \in Ranges /\ range \in Nat
        /\ bs[Len(bs)].close = last
    <2>1. bs \in Seq(Bar) /\ Len(bs) \in 1..Len(bs)
      BY DEF Histories
    <2>2. bs[Len(bs)] \in Bar
      BY <2>1
    <2> QED
      BY <2>2, MarketAssumption DEF Bar, LastClose
  <1>2. /\ BreakevenAtR \in Nat /\ AtrMultiple \in Nat /\ TrailPct \in Nat
        /\ p.risk \in Nat /\ p.risk > 0
    BY RulesAssumption, MarketAssumption
  <1> HIDE DEF last, range
  <1>3. ASSUME Reached(p, last, BreakevenAtR)
        PROVE  Cents(p.entry, 1) <= last
    <2>1. BreakevenAtR * p.risk \in Nat /\ last - p.entry >= BreakevenAtR * p.risk
      BY <1>2, <1>3 DEF Reached
    <2>2. CASE Closes \subseteq Whole
      BY <1>1, <2>1, <2>2, CentsBelow
    <2>3. CASE ~(Closes \subseteq Whole)
      <3>1. BreakevenAtR > 0 /\ p.risk >= 5
        BY <2>3 DEF Coarse
      <3>2. BreakevenAtR * p.risk >= p.risk
        BY <1>2, <3>1
      <3> QED
        BY <1>1, <1>2, <2>1, <3>1, <3>2, CentsBelow
    <2> QED
      BY <2>2, <2>3
  <1>4. ASSUME range # 0
        PROVE  Cents(last - AtrMultiple * range, 1) <= last
    <2>1. AtrMultiple * range \in Nat
      BY <1>1, <1>2
    <2>2. last \in Whole \/ AtrMultiple * range >= 5
      BY <1>1, <1>4 DEF Coarse
    <2> QED
      BY <1>1, <2>1, <2>2, CentsBelow
  <1>5. Cents(last * (100 - TrailPct), 100) <= last
    <2>1. last * TrailPct \in Nat
      BY <1>1, <1>2
    <2>2. last * (100 - TrailPct) = 100 * last - last * TrailPct
      BY <1>1, <1>2
    <2>3. last \in Whole \/ last * TrailPct >= 500
      BY <1>1 DEF Coarse
    <2> QED
      BY <1>1, <2>1, <2>2, <2>3, CentsBelow
  <1>6. \A x \in TrailStops(p.method, bs) : x <= last
    BY <1>1, <1>4, <1>5 DEF TrailStops, range
  <1> QED
    BY <1>3, <1>6 DEF RuleStops, last

\* A stop advised today can be placed today, whatever was done meanwhile, if
\* prices are too coarse for the rounding to lift it over the close.
THEOREM TradeAdvicePlaceable ==
    ASSUME Coarse PROVE Spec => []AdvicePlaceable
  <1>1. IInv => AdvicePlaceable
    <2> SUFFICES ASSUME IInv, Fresh, advice.action = "MOVE_STOP_UP",
                        advice.method # "sma20"
                 PROVE  advice.stop <= LastClose(bars)
      BY DEF AdvicePlaceable
    <2>1. pos.status # "none"
      BY DEF IInv, AdviceGiven, NoAdvice
    <2>2. /\ Advised.entry \in Int /\ Advised.method # "sma20"
          /\ Advised.risk = pos.risk /\ bars \in Histories
      BY DEF Advised, IInv, TypeOK, Histories
    <2>3. advice.stop \in RuleStops(Advised, bars)
      BY DEF IInv, AdviceHighest, Fresh
    <2> QED
      BY <2>1, <2>2, <2>3, RuleStopsPlaceable DEF IInv, AdviceGiven
  <1> QED
    BY <1>1, TradeInv, PTL

-----------------------------------------------------------------------------

(* The backtest applies the same rules to a history of its own. *)

LEMMA SameMarket ==
    /\ Backtest!Bar = Bar /\ Backtest!Closing = Closing
    /\ Backtest!FirstBars = FirstBars
    /\ \A bs, d : Backtest!Traded(bs, d) = Traded(bs, d)
    /\ \A bs : Backtest!LastClose(bs) = LastClose(bs)
  BY DEF Backtest!Bar, Bar, Backtest!Closing, Closing, Backtest!FirstBars,
         FirstBars, Backtest!Traded, Traded, Backtest!LastClose, LastClose,
         Backtest!NextBar, NextBar, Backtest!Quote, Quote

LEMMA SameRules ==
    \A p, bs : Backtest!Evaluate(p, bs) = Evaluate(p, bs)
  <1>0. \A S : Backtest!Cardinality(S) = Cardinality(S) /\ Backtest!Max(S) = Max(S)
    BY DEF Backtest!Cardinality, Cardinality, Backtest!Max, Max
  <1>1. \A num, den : Backtest!Cents(num, den) = Cents(num, den)
    BY DEF Backtest!Cents, Cents
  <1>2. \A bs : Backtest!LastClose(bs) = LastClose(bs)
    BY DEF Backtest!LastClose, LastClose
  <1>3. \A bs, k : Backtest!SmaSum(bs, k) = SmaSum(bs, k)
    BY DEF Backtest!SmaSum, SmaSum
  <1>4. \A bs : Backtest!SmaBroken(bs) = SmaBroken(bs)
    BY <1>3, Zenon DEF Backtest!SmaBroken, SmaBroken
  <1>5. \A bs, d : Backtest!TimeExit(bs, d) = TimeExit(bs, d)
    BY <1>0 DEF Backtest!TimeExit, TimeExit
  <1>6. \A p, last, r : Backtest!Reached(p, last, r) = Reached(p, last, r)
    BY Zenon DEF Backtest!Reached, Reached
  <1>7. \A m, bs : Backtest!TrailStops(m, bs) = TrailStops(m, bs)
    <2> TAKE m, bs
    <2> DEFINE last == bs[Len(bs)]
               x1 == SmaSum(bs, Len(bs)) * (1000 - SmaBuffer)
               y1 == Backtest!SmaSum(bs, Len(bs)) * (1000 - SmaBuffer)
               x2 == last.close - AtrMultiple * last.atr
               x3 == last.close * (100 - TrailPct)
               averaged == m = "sma20" /\ Len(bs) >= TrailSma
               ranged == m = "atr" /\ last.atr # 0
    <2>1. TrailStops(m, bs) =
              IF averaged THEN {Cents(x1, 1000 * TrailSma)}
              ELSE IF ranged THEN {Cents(x2, 1)}
              ELSE IF m = "fixed_pct" THEN {Cents(x3, 100)} ELSE {}
      BY Zenon DEF TrailStops
    <2>2. Backtest!TrailStops(m, bs) =
              IF averaged THEN {Backtest!Cents(y1, 1000 * TrailSma)}
              ELSE IF ranged THEN {Backtest!Cents(x2, 1)}
              ELSE IF m = "fixed_pct" THEN {Backtest!Cents(x3, 100)} ELSE {}
      BY Zenon DEF Backtest!TrailStops
    <2>3. x1 = y1
      BY <1>3
    <2> HIDE DEF x1, y1, x2, x3, averaged, ranged
    <2>4. Backtest!TrailStops(m, bs) =
              IF averaged THEN {Cents(x1, 1000 * TrailSma)}
              ELSE IF ranged THEN {Cents(x2, 1)}
              ELSE IF m = "fixed_pct" THEN {Cents(x3, 100)} ELSE {}
      BY <1>1, <2>2, <2>3, Zenon
    <2> DEFINE stops == IF averaged THEN {Cents(x1, 1000 * TrailSma)}
                        ELSE IF ranged THEN {Cents(x2, 1)}
                        ELSE IF m = "fixed_pct" THEN {Cents(x3, 100)} ELSE {}
    <2>5. TrailStops(m, bs) = stops /\ Backtest!TrailStops(m, bs) = stops
      BY <2>1, <2>4
    <2> HIDE DEF stops
    <2> QED
      BY <2>5
  <1>8. \A p, bs : Backtest!RuleStops(p, bs) = RuleStops(p, bs)
    BY <1>1, <1>2, <1>6, <1>7, Zenon DEF Backtest!RuleStops, RuleStops
  <1>9. \A action, s : Backtest!Update(action, s) = Update(action, s)
    BY Zenon DEF Backtest!Update, Update
  <1> QED
    BY <1>0, <1>1, <1>2, <1>4, <1>5, <1>8, <1>9, Zenon DEF Backtest!Evaluate, Evaluate

\* The trades come one after the other, and the last is over before today, or
\* ended today and is not followed yet.
Sequence ==
    /\ Backtest!NonOverlapping
    /\ trades # <<>> => trades[Len(trades)].closed <= day
    /\ cur.life = "open" =>
           /\ cur.opened <= day
           /\ trades # <<>> => cur.opened > trades[Len(trades)].closed + 1

LastDay == history[Len(history)].day

\* The rules want the simulated position closed whatever its stop.
Expired ==
    \/ TimeExit(history, cur.opened)
    \/ ExitSignalDays # 0 /\ SmaBroken(history)

\* A day without a bar cannot expire a position that the day before did not.
Priced ==
    /\ Backtest!ExitsArePriced
    /\ cur.life = "open" => cur.stop > 0 /\ (LastDay # day => ~Expired)

SimInv == Backtest!TypeOK /\ Sequence /\ Priced

SimTrade == [opened : Nat, closed : 1..HistoryBars, price : Int,
           reason : Closing \cup {"open"}]

LEMMA SimType ==
    Backtest!TypeOK <=>
        /\ day \in 1..HistoryBars /\ history \in Histories
        /\ cur \in [life : {"none", "open", "closed"}, entry : Int, stop : Int,
                    risk : Int, method : {"sma20"}, opened : Nat]
        /\ trades \in Seq(SimTrade)
        /\ cur.life = "open" => cur.risk > 0
  BY SameMarket DEF Backtest!TypeOK, Histories, SimTrade

LEMMA InitSimInv == Backtest!Init => SimInv
  <1> SUFFICES ASSUME Backtest!Init PROVE SimInv
    OBVIOUS
  <1>1. /\ history \in Histories /\ day \in 1..HistoryBars
        /\ cur = Backtest!NoTrade /\ trades = <<>>
    BY FirstBarsType, SameMarket, PartsAssumption DEF Backtest!Init
  <1>2. Backtest!TypeOK
    BY <1>1, SimType DEF Backtest!NoTrade
  <1>3. Sequence /\ Priced
    BY <1>1 DEF Sequence, Priced, Backtest!NonOverlapping, Backtest!ExitsArePriced,
                Backtest!NoTrade
  <1> QED
    BY <1>2, <1>3 DEF SimInv

\* A day passes, with a bar or without.
LEMMA DayPasses ==
    ASSUME SimInv, NEW H, H \subseteq Traded(history, day + 1) \cup {history},
           Backtest!NextDay(H)
    PROVE  /\ day' = day + 1 /\ day' \in 1..HistoryBars
           /\ history' \in Histories
           /\ history' \in Traded(history, day + 1) => LastDay' = day'
           /\ history' \in Traded(history, day + 1) \cup {history}
  <1>1. history \in Histories /\ day \in 1..HistoryBars /\ HistoryBars \in Nat
    BY PartsAssumption, SimType DEF SimInv
  <1>2. /\ day < HistoryBars /\ day' = day + 1
        /\ history' \in Traded(history, day + 1) \cup {history}
    BY DEF Backtest!NextDay
  <1>3. history' \in Histories
    BY <1>1, <1>2, TradedType
  <1>4. history' \in Traded(history, day + 1) => LastDay' = day'
    BY <1>1, <1>2, TradedLast DEF LastDay
  <1> QED
    BY <1>1, <1>2, <1>3, <1>4

\* A trade is closed: what was a sequence of trades is one, and its price, if
\* the rules closed it, is a price.
LEMMA LeaveSimInv ==
    ASSUME SimInv, cur.life = "open", NEW price \in Int,
           NEW reason \in Closing \cup {"open"}, Backtest!Leave(price, reason),
           reason # "open" => price # 0
    PROVE  SimInv'
  <1> DEFINE t == [opened |-> cur.opened, closed |-> day, price |-> price,
                   reason |-> reason]
  <1>1. /\ cur' = [life |-> "closed", entry |-> cur.entry, stop |-> cur.stop,
                   risk |-> cur.risk, method |-> "sma20",
                   opened |-> cur.opened]
        /\ trades' = Append(trades, t)
        /\ day' = day /\ history' = history
    BY DEF Backtest!Leave, Backtest!market
  <1>2. /\ day \in 1..HistoryBars /\ history \in Histories
        /\ cur \in [life : {"none", "open", "closed"}, entry : Int, stop : Int,
                    risk : Int, method : {"sma20"}, opened : Nat]
        /\ trades \in Seq(SimTrade)
    BY SimType DEF SimInv
  <1>3. t \in SimTrade
    BY <1>2 DEF SimTrade
  <1>4. Backtest!TypeOK'
    <2>1. trades' \in Seq(SimTrade)
      BY <1>1, <1>2, <1>3
    <2>2. /\ cur' \in [life : {"none", "open", "closed"}, entry : Int, stop : Int,
                       risk : Int, method : {"sma20"}, opened : Nat]
          /\ cur'.life # "open"
      BY <1>1, <1>2
    <2> QED
      BY <1>1, <1>2, <2>1, <2>2, SameMarket
      DEF Backtest!TypeOK, Histories, SimTrade
  <1>5. /\ Len(trades') = Len(trades) + 1 /\ trades'[Len(trades')] = t
        /\ \A k \in 1..Len(trades) : trades'[k] = trades[k]
        /\ Len(trades) \in Nat
    BY <1>1, <1>2
  <1>6. Backtest!NonOverlapping'
    <2> SUFFICES ASSUME NEW k \in 2..Len(trades')
                 PROVE  trades'[k].opened > trades'[k - 1].closed + 1
      BY DEF Backtest!NonOverlapping
    <2>1. CASE k = Len(trades')
      BY <1>5, <2>1 DEF SimInv, Sequence
    <2>2. CASE k # Len(trades')
      BY <1>5, <2>2 DEF SimInv, Sequence, Backtest!NonOverlapping
    <2> QED
      BY <2>1, <2>2
  <1>7. Sequence'
    BY <1>1, <1>2, <1>5, <1>6 DEF Sequence
  <1>8. Backtest!ExitsArePriced'
    <2> SUFFICES ASSUME NEW k \in 1..Len(trades'), trades'[k].reason # "open"
                 PROVE  trades'[k].price # Backtest!NaN
      BY DEF Backtest!ExitsArePriced
    <2>1. CASE k = Len(trades')
      BY <1>5, <2>1 DEF Backtest!NaN
    <2>2. CASE k # Len(trades')
      BY <1>5, <2>2 DEF SimInv, Priced, Backtest!ExitsArePriced
    <2> QED
      BY <2>1, <2>2
  <1> QED
    BY <1>1, <1>4, <1>7, <1>8 DEF SimInv, Priced

\* The rules say of the simulated position what they say of a live one.
LEMMA EvaluateCur ==
    ASSUME SimInv
    PROVE  LET u == Backtest!Evaluate(cur, history)
           IN  /\ u.action \in Closing \cup {"MOVE_STOP_UP", "NO_ACTION"}
               /\ u.action = "MOVE_STOP_UP" => u.stop \in Int /\ u.stop > cur.stop
               /\ u.action \in {"CLOSE_TIME_EXIT", "CLOSE_EXIT_SIGNAL"} => Expired
               /\ u.action \notin Closing => ~Expired
  <1>1. Managed(cur) /\ history \in Histories
    BY SimType DEF SimInv, Managed
  <1>2. Backtest!Evaluate(cur, history) = Evaluate(cur, history)
    BY SameRules
  <1> DEFINE u == Evaluate(cur, history)
  <1>3. /\ u.action \in Closing \cup {"MOVE_STOP_UP", "NO_ACTION"}
        /\ u.action = "MOVE_STOP_UP" => u.stop \in Int /\ u.stop > cur.stop
    BY <1>1, EvaluateType DEF Whole
  <1>4. /\ u.action \in {"CLOSE_TIME_EXIT", "CLOSE_EXIT_SIGNAL"} => Expired
        /\ u.action \notin Closing => ~Expired
    BY EvaluateCloses, Zenon DEF Expired
  <1> QED
    BY <1>2, <1>3, <1>4

LEMMA PriceType ==
    ASSUME SimInv
    PROVE  /\ Backtest!Price \in Int /\ cur.stop \in Int
           /\ LastDay = day => Backtest!Price # 0
  <1>1. history \in Histories /\ cur.stop \in Int
    BY SimType DEF SimInv
  <1>2. LastClose(history) \in Nat \ {0}
    BY <1>1, HistoryType
  <1> QED
    BY <1>1, <1>2, SameMarket DEF Backtest!Price, Backtest!NaN, LastDay

\* The numbers the order of the trades is about.
LEMMA OrderTypes ==
    ASSUME SimInv
    PROVE  /\ day \in Nat /\ cur.opened \in Nat
           /\ trades # <<>> => trades[Len(trades)].closed \in Nat
  <1>1. trades \in Seq(SimTrade) /\ day \in Nat /\ cur.opened \in Nat
    BY PartsAssumption, SimType DEF SimInv
  <1>2. \A t \in SimTrade : t.closed \in Nat
    BY PartsAssumption DEF SimTrade
  <1> HIDE DEF SimTrade
  <1>3. trades # <<>> => trades[Len(trades)] \in SimTrade
    BY <1>1
  <1> QED
    BY <1>1, <1>2, <1>3

LEMMA StepSimInv == SimInv /\ [Backtest!Next]_Backtest!vars => SimInv'
  <1> SUFFICES ASSUME SimInv, [Backtest!Next]_Backtest!vars PROVE SimInv'
    OBVIOUS
  <1> DEFINE H == Backtest!Traded(history, day + 1)
  <1>0. H = Traded(history, day + 1)
    BY SameMarket
  <1>1. ASSUME Backtest!Skip PROVE SimInv'
    <2>1. Backtest!NextDay(H \cup {history})
      BY <1>1 DEF Backtest!Skip, Backtest!AnyDay
    <2> HIDE DEF H
    <2>2. day' = day + 1 /\ day' \in 1..HistoryBars /\ history' \in Histories
      BY <1>0, <2>1, DayPasses
    <2>3. cur' = cur /\ trades' = trades /\ cur.life # "open"
      BY <1>1 DEF Backtest!Skip
    <2>4. Backtest!TypeOK'
      BY <2>2, <2>3, SimType, SameMarket
      DEF SimInv, Backtest!TypeOK, Histories, SimTrade
    <2>5. Sequence'
      BY <2>2, <2>3, OrderTypes DEF SimInv, Sequence, Backtest!NonOverlapping
    <2>6. Priced'
      BY <2>3 DEF SimInv, Priced, Backtest!ExitsArePriced
    <2> QED
      BY <2>4, <2>5, <2>6 DEF SimInv
  <1>2. ASSUME NEW fill \in Prices, NEW stop \in Prices, Backtest!Enter(fill, stop)
        PROVE  SimInv'
    <2>1. /\ cur' = [life |-> "open", entry |-> fill, stop |-> stop,
                     risk |-> fill - stop, method |-> "sma20",
                     opened |-> day + 1]
          /\ trades' = trades /\ stop < fill /\ Backtest!Looking
          /\ Backtest!NextDay(H)
      BY <1>2 DEF Backtest!Enter
    <2>2. history' \in H
      BY <2>1 DEF Backtest!NextDay
    <2> HIDE DEF H
    <2>3. /\ day' = day + 1 /\ day' \in 1..HistoryBars /\ history' \in Histories
          /\ LastDay' = day'
      BY <1>0, <2>1, <2>2, DayPasses
    <2>4. fill \in Nat /\ stop \in Nat \ {0} /\ fill - stop > 0 /\ day \in Nat
      BY <2>1, MarketAssumption, OrderTypes
    <2>5. Backtest!TypeOK'
      <3>1. cur' \in [life : {"none", "open", "closed"}, entry : Int, stop : Int,
                      risk : Int, method : {"sma20"}, opened : Nat]
        BY <2>1, <2>4
      <3>2. cur'.risk > 0
        BY <2>1, <2>4
      <3> QED
        BY <2>1, <2>3, <3>1, <3>2, SimType, SameMarket
        DEF SimInv, Backtest!TypeOK, Histories, SimTrade
    <2>6. Sequence'
      BY <2>1, <2>3, OrderTypes
      DEF SimInv, Sequence, Backtest!NonOverlapping, Backtest!Looking
    <2>7. Priced'
      BY <2>1, <2>3, <2>4 DEF SimInv, Priced, Backtest!ExitsArePriced
    <2> QED
      BY <2>5, <2>6, <2>7 DEF SimInv
  <1>3. ASSUME Backtest!Exit PROVE SimInv'
    <2> DEFINE u == Backtest!Evaluate(cur, history)
    <2>1. /\ cur.life = "open" /\ u.action \in Closing
          /\ Backtest!Leave(IF u.action = "CLOSE_STOP_HIT" THEN cur.stop
                            ELSE Backtest!Price, u.action)
      BY <1>3, SameMarket DEF Backtest!Exit
    <2>2. CASE u.action = "CLOSE_STOP_HIT"
      <3>1. Backtest!Leave(cur.stop, u.action) /\ cur.stop \in Int /\ cur.stop # 0
        BY <2>1, <2>2, PriceType DEF SimInv, Priced
      <3> QED
        BY <2>1, <3>1, LeaveSimInv
    <2>3. CASE u.action # "CLOSE_STOP_HIT"
      <3>1. Backtest!Leave(Backtest!Price, u.action)
        BY <2>1, <2>3
      <3>2. Expired
        BY <2>1, <2>3, EvaluateCur DEF Closing
      <3>3. Backtest!Price \in Int /\ Backtest!Price # 0
        BY <2>1, <3>2, PriceType DEF SimInv, Priced
      <3> QED
        BY <2>1, <3>1, <3>3, LeaveSimInv
    <2> QED
      BY <2>2, <2>3
  <1>4. ASSUME Backtest!Hold PROVE SimInv'
    <2> DEFINE u == Backtest!Evaluate(cur, history)
               s == IF u.action = "MOVE_STOP_UP" THEN u.stop ELSE cur.stop
    <2>1. Backtest!NextDay(H \cup {history})
      BY <1>4 DEF Backtest!Hold, Backtest!AnyDay
    <2> HIDE DEF H
    <2>2. /\ day' = day + 1 /\ day' \in 1..HistoryBars /\ history' \in Histories
          /\ history' = history \/ LastDay' = day'
      BY <1>0, <2>1, DayPasses
    <2>3. /\ cur' = [life |-> "open", entry |-> cur.entry, stop |-> s,
                     risk |-> cur.risk, method |-> "sma20",
                     opened |-> cur.opened]
          /\ trades' = trades /\ cur.life = "open"
          /\ u.action \notin Closing
      BY <1>4, SameMarket DEF Backtest!Hold, Backtest!KeepWithStop
    <2>4. s \in Int /\ s > 0
      BY <2>3, EvaluateCur, PriceType DEF SimInv, Priced
    <2>5. ~Expired
      BY <2>3, EvaluateCur
    <2> HIDE DEF s
    <2>6. Backtest!TypeOK'
      <3>1. /\ cur \in [life : {"none", "open", "closed"}, entry : Int, stop : Int,
                        risk : Int, method : {"sma20"}, opened : Nat]
            /\ cur.risk > 0
        BY <2>3, SimType DEF SimInv
      <3>2. /\ cur' \in [life : {"none", "open", "closed"}, entry : Int, stop : Int,
                         risk : Int, method : {"sma20"}, opened : Nat]
            /\ cur'.risk > 0
        BY <2>3, <2>4, <3>1
      <3> QED
        BY <2>2, <2>3, <3>2, SimType, SameMarket
        DEF SimInv, Backtest!TypeOK, Histories, SimTrade
    <2>7. Sequence'
      BY <2>2, <2>3, OrderTypes DEF SimInv, Sequence, Backtest!NonOverlapping
    <2>8. LastDay' # day' => ~Expired'
      BY <2>2, <2>3, <2>5 DEF Expired
    <2>9. Priced'
      BY <2>3, <2>4, <2>8 DEF SimInv, Priced, Backtest!ExitsArePriced
    <2> QED
      BY <2>6, <2>7, <2>9 DEF SimInv
  <1>5. ASSUME Backtest!Censor PROVE SimInv'
    BY <1>5, PriceType, LeaveSimInv DEF Backtest!Censor
  <1>6. ASSUME UNCHANGED Backtest!vars PROVE SimInv'
    BY <1>6 DEF Backtest!vars, Backtest!market, SimInv, Backtest!TypeOK,
                Sequence, Backtest!NonOverlapping, Priced, LastDay, Expired,
                Backtest!ExitsArePriced
  <1> QED
    BY <1>1, <1>2, <1>3, <1>4, <1>5, <1>6 DEF Backtest!Next

\* The invariant of the backtest: the trades so far, in their order, and the position
\* that is simulated.
THEOREM ReplayInv == Backtest!Spec => []SimInv
  BY InitSimInv, StepSimInv, PTL DEF Backtest!Spec

\* Type correctness of the backtest.
THEOREM ReplayTypeCorrect == Backtest!Spec => []Backtest!TypeOK
  <1>1. SimInv => Backtest!TypeOK
    BY DEF SimInv
  <1> QED
    BY <1>1, ReplayInv, PTL

\* The trades of one ticker never overlap, a new signal is only considered
\* after the prior trade has closed, and the rules never close a trade on a day
\* that has no price for it.
THEOREM ReplayIsSound == Backtest!Spec => []TradesAreSound
  <1>1. SimInv => TradesAreSound
    BY DEF SimInv, Sequence, Priced, TradesAreSound
  <1> QED
    BY <1>1, ReplayInv, PTL

-----------------------------------------------------------------------------

LEMMA InitSim == Backtest!Init => Backtest!Sim!Init
  BY DEF Backtest!Init, Backtest!NoTrade, Backtest!Sim!Init

LEMMA StepSim ==
    ASSUME SimInv, [Backtest!Next]_Backtest!vars
    PROVE  [Backtest!Sim!Next]_<<cur.life, cur.entry, cur.stop, cur.risk>>
  <1> USE DEF Backtest!Sim!Next, Backtest!Sim!Open, Backtest!Sim!RaiseStop,
              Backtest!Sim!Close
  <1>1. ASSUME cur' = cur
        PROVE  [Backtest!Sim!Next]_<<cur.life, cur.entry, cur.stop, cur.risk>>
    BY <1>1
  <1>2. ASSUME NEW fill \in Prices, NEW stop \in Prices, Backtest!Enter(fill, stop)
        PROVE  Backtest!Sim!Open
    BY <1>2 DEF Backtest!Enter, Backtest!Looking
  <1>3. ASSUME Backtest!Exit \/ Backtest!Censor PROVE Backtest!Sim!Close
    BY <1>3 DEF Backtest!Exit, Backtest!Censor, Backtest!Leave
  <1>4. ASSUME Backtest!Hold
        PROVE  [Backtest!Sim!Next]_<<cur.life, cur.entry, cur.stop, cur.risk>>
    <2> DEFINE u == Backtest!Evaluate(cur, history)
    <2>1. \/ u.stop > cur.stop /\ Backtest!KeepWithStop(u.stop)
          \/ Backtest!KeepWithStop(cur.stop)
      BY <1>4, EvaluateCur DEF Backtest!Hold
    <2>2. cur.life = "open" /\ cur.stop \in Int
      BY <1>4, SimType DEF Backtest!Hold, SimInv
    <2> QED
      BY <2>1, <2>2 DEF Backtest!KeepWithStop
  <1> QED
    BY <1>1, <1>2, <1>3, <1>4 DEF Backtest!Next, Backtest!Skip, Backtest!vars

\* The simulated position is a holding, as the live one is.
THEOREM ReplayIsHolding == Backtest!Spec => SimSpec
  <1>1. SimInv /\ [Backtest!Next]_Backtest!vars =>
            [Backtest!Sim!Next]_<<cur.life, cur.entry, cur.stop, cur.risk>>
    BY StepSim
  <1> QED
    BY <1>1, InitSim, ReplayInv, PTL
    DEF Backtest!Spec, SimSpec, Backtest!SimSpec, Backtest!Sim!Spec

-----------------------------------------------------------------------------
(* The periods of a company's figures.                                       *)

Form == {"10-K", "20-F", "10-Q", "6-K", "8-K"}

\* A report is of the quarter that its form is for.
Fits(f) ==
    /\ f.form \in {"10-K", "20-F"} => Figures!Quarter(f.period) = 4
    /\ f.form = "10-Q" => Figures!Quarter(f.period) \in 1..3
    /\ f.form = "6-K" => Figures!Quarter(f.period) = 2

\* Who reports by quarters leaves none out, and others report ends of halves.
Regular ==
    \A q \in Figures!Reported :
        /\ company.reports = "quarters" => q = First \/ q - 1 \in Figures!Reported
        /\ company.reports # "quarters" => Figures!Quarter(q) \in {2, 4}

FilingsInv ==
    /\ filings \in Seq([form : Form, period : First..Last])
    /\ company \in Issuers /\ source \in Figures!Sources
    /\ source.name = "sec_edgar" => ~source.tells
    /\ \A i \in DOMAIN filings : Fits(filings[i])
    /\ Regular

LEMMA InitFilings == Figures!Init => FilingsInv
  <1> SUFFICES ASSUME Figures!Init PROVE FilingsInv
    OBVIOUS
  <1>1. filings = <<>> /\ Figures!Reported = {}
    BY DEF Figures!Init, Figures!Reported
  <1> QED
    BY <1>1 DEF Figures!Init, FilingsInv, Regular

LEMMA QuarterType ==
    ASSUME NEW q \in Int
    PROVE  /\ Figures!Quarter(q) \in 1..4
           /\ Figures!Quarter(q) = 4 <=> q % 4 = 0
           /\ Figures!Quarter(q) = 2 <=> q % 4 = 2
  BY DEF Figures!Quarter

LEMMA FilingType ==
    ASSUME FilingsInv
    PROVE  /\ First \in Nat /\ Last \in Nat /\ Len(filings) \in Nat
           /\ DOMAIN filings = 1 .. Len(filings)
           /\ \A i \in DOMAIN filings :
                  filings[i].form \in Form /\ filings[i].period \in First..Last
           /\ Figures!Reported \subseteq First..Last
  <1> DEFINE F == [form : Form, period : First..Last]
  <1>1. First \in Nat /\ Last \in Nat
    BY FiguresAssumption
  <1>2. filings \in Seq(F)
    BY DEF FilingsInv
  <1>3. \A i \in DOMAIN filings : filings[i] \in F
    <2> HIDE DEF F
    <2> QED
      BY <1>2
  <1>4. Len(filings) \in Nat /\ DOMAIN filings = 1 .. Len(filings)
    BY <1>2
  <1>5. \A i \in DOMAIN filings :
            filings[i].form \in Form /\ filings[i].period \in First..Last
    BY <1>3
  <1>6. Figures!Reported \subseteq First..Last
    BY <1>5 DEF Figures!Reported
  <1> QED
    BY <1>1, <1>4, <1>5, <1>6

\* The last period reported.
LEMMA LastReported ==
    ASSUME FilingsInv, Figures!Reported # {}
    PROVE  Figures!Max(Figures!Reported) \in Figures!Reported
  <1> DEFINE R == Figures!Reported
             S == {Last - q : q \in R}
  <1>1. R \subseteq First..Last /\ First \in Nat /\ Last \in Nat
    BY FilingType
  <1>2. S \subseteq 0..Last
    BY <1>1
  <1>3. IsFiniteSet(S)
    <2>1. IsFiniteSet(0..Last)
      BY <1>1, FS_Interval
    <2> QED
      BY <1>2, <2>1, FS_Subset
  <1>4. PICK x \in S : \A y \in S : x <= y
    <2> HIDE DEF S
    <2>1. S # {}
      BY DEF S
    <2>2. S \subseteq Nat
      BY <1>1, <1>2
    <2> QED
      BY <1>3, <2>1, <2>2, LeastNatural
  <1>5. PICK q \in R : x = Last - q
    BY <1>4
  <1>6. \A p \in R : q >= p
    BY <1>1, <1>4, <1>5
  <1> QED
    BY <1>5, <1>6 DEF Figures!Max

LEMMA StepFilings ==
    ASSUME FilingsInv, [Figures!Next]_(Figures!vars)
    PROVE  FilingsInv'
  <1> DEFINE R == Figures!Reported
  <1>0. First \in Nat /\ Last \in Nat /\ R \subseteq First..Last
    BY FilingType
  <1>1. ASSUME NEW form \in Form, NEW q \in First..Last, Figures!Add(form, q),
               Fits([form |-> form, period |-> q]),
               company.reports = "quarters" => q = First \/ q - 1 \in R,
               company.reports # "quarters" => Figures!Quarter(q) \in {2, 4}
        PROVE  FilingsInv'
    <2> DEFINE f == [form |-> form, period |-> q]
               F == [form : Form, period : First..Last]
    <2>1. filings' = Append(filings, f) /\ company' = company /\ source' = source
      BY <1>1 DEF Figures!Add
    <2>2. f \in F /\ filings \in Seq(F)
      BY DEF FilingsInv
    <2> HIDE DEF F
    <2>3. /\ filings' \in Seq(F) /\ DOMAIN filings' = 1 .. Len(filings) + 1
          /\ DOMAIN filings = 1 .. Len(filings) /\ Len(filings) \in Nat
          /\ \A i \in DOMAIN filings : filings'[i] = filings[i]
          /\ filings'[Len(filings) + 1] = f
      BY <2>1, <2>2
    <2>4. \A i \in DOMAIN filings' : i \in DOMAIN filings \/ i = Len(filings) + 1
      BY <2>3
    <2>5. \A i \in DOMAIN filings' : Fits(filings'[i])
      BY <1>1, <2>3, <2>4 DEF FilingsInv
    <2>6. Figures!Reported' = R \cup {q}
      BY <2>3, <2>4 DEF Figures!Reported
    <2>7. Regular'
      BY <1>1, <2>1, <2>6 DEF Regular, FilingsInv, Figures!Quarter
    <2> QED
      BY <2>1, <2>3, <2>5, <2>7 DEF FilingsInv, F
  <1>2. ASSUME Figures!Report PROVE FilingsInv'
    <2>1. PICK q \in First..Last :
              CASE company.reports = "quarters" ->
                     /\ q = First \/ q - 1 \in R
                     /\ Figures!Add(IF Figures!Quarter(q) = 4 THEN "10-K" ELSE "10-Q", q)
                [] company.reports = "halves" ->
                     /\ Figures!Quarter(q) \in {2, 4}
                     /\ \A p \in First .. q - 1 : Figures!Quarter(p) \in {2, 4} => p \in R
                     /\ Figures!Add(IF Figures!Quarter(q) = 4 THEN "20-F" ELSE "6-K", q)
                [] company.reports = "years" ->
                     /\ Figures!Quarter(q) = 4
                     /\ \A p \in First .. q - 1 : Figures!Quarter(p) = 4 => p \in R
                     /\ Figures!Add("20-F", q)
      BY <1>2 DEF Figures!Report
    <2>2. Figures!Quarter(q) \in 1..4
      BY <1>0, QuarterType
    <2>3. company.reports \in {"quarters", "halves", "years"}
      BY FiguresAssumption DEF FilingsInv
    <2>4. CASE company.reports = "quarters"
      <3>1. q = First \/ q - 1 \in R
        BY <2>1, <2>4
      <3>2. CASE Figures!Quarter(q) = 4
        <4>1. Figures!Add("10-K", q)
          BY <2>1, <2>4, <3>2
        <4> QED
          BY <1>1, <2>4, <3>1, <3>2, <4>1 DEF Fits, Form
      <3>3. CASE Figures!Quarter(q) # 4
        <4>1. Figures!Add("10-Q", q)
          BY <2>1, <2>4, <3>3
        <4>2. Figures!Quarter(q) \in 1..3
          BY <2>2, <3>3
        <4> QED
          BY <1>1, <2>4, <3>1, <4>1, <4>2 DEF Fits, Form
      <3> QED
        BY <3>2, <3>3
    <2>5. CASE company.reports = "halves"
      <3>1. Figures!Quarter(q) \in {2, 4}
        BY <2>1, <2>5
      <3>2. CASE Figures!Quarter(q) = 4
        <4>1. Figures!Add("20-F", q)
          BY <2>1, <2>5, <3>2
        <4> QED
          BY <1>1, <2>5, <3>1, <3>2, <4>1 DEF Fits, Form
      <3>3. CASE Figures!Quarter(q) # 4
        <4>1. Figures!Add("6-K", q)
          BY <2>1, <2>5, <3>3
        <4> QED
          BY <1>1, <2>5, <3>1, <3>3, <4>1 DEF Fits, Form
      <3> QED
        BY <3>2, <3>3
    <2>6. CASE company.reports = "years"
      <3>1. Figures!Quarter(q) = 4 /\ Figures!Add("20-F", q)
        BY <2>1, <2>6
      <3> QED
        BY <1>1, <2>6, <3>1 DEF Fits, Form
    <2> QED
      BY <2>3, <2>4, <2>5, <2>6
  <1>3. ASSUME Figures!Revise PROVE FilingsInv'
    <2>1. CASE \E i \in DOMAIN filings : Figures!Add(filings[i].form, filings[i].period)
      <3>1. PICK i \in DOMAIN filings : Figures!Add(filings[i].form, filings[i].period)
        BY <2>1
      <3> DEFINE f == filings[i]
      <3>2. f.form \in Form /\ f.period \in First..Last
        BY FilingType
      <3>3. f.period \in R
        BY DEF Figures!Reported
      <3>4. Fits(f)
        BY DEF FilingsInv
      <3>5. Fits([form |-> f.form, period |-> f.period])
        BY <3>4 DEF Fits
      <3> HIDE DEF f
      <3>6. Figures!Add(f.form, f.period)
        BY <3>1 DEF f
      <3> QED
        BY <1>1, <3>2, <3>3, <3>5, <3>6 DEF FilingsInv, Regular
    <2>2. CASE R # {} /\ Figures!Add("8-K", Figures!Max(R))
      <3>1. Figures!Max(R) \in R
        BY <2>2, LastReported
      <3>2. Fits([form |-> "8-K", period |-> Figures!Max(R)])
        BY DEF Fits
      <3>3. "8-K" \in Form
        BY DEF Form
      <3> QED
        BY <1>0, <1>1, <2>2, <3>1, <3>2, <3>3 DEF FilingsInv, Regular
    <2> QED
      BY <1>3, <2>1, <2>2 DEF Figures!Revise
  <1>4. ASSUME UNCHANGED Figures!vars PROVE FilingsInv'
    BY <1>4 DEF Figures!vars, FilingsInv, Regular, Figures!Reported, Figures!Sources,
                Figures!Concepts, Fits
  <1> QED
    BY <1>2, <1>3, <1>4 DEF Figures!Next

-----------------------------------------------------------------------------
(* Points, of which there is one at an end.                                  *)

Line(P) ==
    /\ \E lo, hi \in Int : \A v \in P : v.end \in lo..hi
    /\ \A v, w \in P : v.end = w.end => v = w

LEMMA Between ==
    ASSUME NEW P, Line(P), NEW S, S \subseteq P, NEW a \in Int, NEW b \in Int, a <= b + 1,
           \A w \in S : w.end \in a..b
    PROVE  IsFiniteSet(S) /\ Cardinality(S) \in Nat /\ Cardinality(S) <= b - a + 1
  <1> DEFINE f == [w \in S |-> w.end]
  <1>1. f \in Injection(S, a..b)
    BY DEF Line, Injection, IsInjective
  <1>2. IsFiniteSet(a..b) /\ Cardinality(a..b) <= b - a + 1
    BY FS_Interval
  <1> HIDE DEF f
  <1>3. IsFiniteSet(S) /\ Cardinality(S) <= Cardinality(a..b)
    BY <1>1, <1>2, FS_Injection
  <1>4. Cardinality(S) \in Nat /\ Cardinality(a..b) \in Nat
    BY <1>2, <1>3, FS_CardinalityType
  <1> QED
    BY <1>2, <1>3, <1>4

LEMMA LineFinite ==
    ASSUME NEW P, Line(P), NEW S, S \subseteq P
    PROVE  IsFiniteSet(S) /\ Line(S)
  <1>1. PICK lo \in Int, hi \in Int : \A v \in P : v.end \in lo..hi
    BY DEF Line
  <1>2. CASE lo <= hi + 1
    BY <1>1, <1>2, Between DEF Line
  <1>3. CASE lo > hi + 1
    <2>1. S = {}
      BY <1>1, <1>3
    <2> QED
      BY <2>1, FS_EmptySet DEF Line
  <1> QED
    BY <1>1, <1>2, <1>3

After(P, v) == {w \in P : w.end > v.end}

LEMMA LastOfIs ==
    ASSUME NEW P, NEW n
    PROVE  Figures!LastOf(P, n) = {v \in P : Cardinality(After(P, v)) < n}
  <1>1. \A v : Figures!Cardinality(After(P, v)) = Cardinality(After(P, v))
    BY DEF Figures!Cardinality, Cardinality
  <1> QED
    BY <1>1 DEF Figures!LastOf, After

\* The last one is the one after which there is none.
LEMMA Latest ==
    ASSUME NEW P, Line(P)
    PROVE  Figures!LastOf(P, 1) = {v \in P : After(P, v) = {}}
  <1> SUFFICES ASSUME NEW v \in P
               PROVE  Cardinality(After(P, v)) < 1 <=> After(P, v) = {}
    BY LastOfIs
  <1>1. IsFiniteSet(After(P, v))
    BY LineFinite DEF After
  <1>2. Cardinality(After(P, v)) \in Nat
    BY <1>1, FS_CardinalityType
  <1>3. Cardinality(After(P, v)) = 0 <=> After(P, v) = {}
    BY <1>1, FS_EmptySet
  <1> QED
    BY <1>2, <1>3

LEMMA LatestExists ==
    ASSUME NEW P, Line(P), P # {}
    PROVE  \E v \in P : After(P, v) = {}
  <1>1. PICK lo \in Int, hi \in Int : \A v \in P : v.end \in lo..hi
    BY DEF Line
  <1> DEFINE S == {hi - v.end : v \in P}
  <1>2. S \subseteq 0 .. hi - lo
    BY <1>1
  <1>3. IsFiniteSet(S)
    <2>1. IsFiniteSet(0 .. hi - lo)
      BY FS_Interval
    <2> QED
      BY <1>2, <2>1, FS_Subset
  <1>4. S \subseteq Nat /\ S # {}
    BY <1>2
  <1>5. PICK x \in S : \A y \in S : x <= y
    <2> HIDE DEF S
    <2> QED
      BY <1>3, <1>4, LeastNatural
  <1>6. PICK v \in P : x = hi - v.end
    BY <1>5
  <1>7. \A w \in P : ~(w.end > v.end)
    <2> SUFFICES ASSUME NEW w \in P PROVE ~(w.end > v.end)
      OBVIOUS
    <2>1. hi - v.end <= hi - w.end
      BY <1>5, <1>6
    <2> QED
      BY <1>1, <2>1
  <1> QED
    BY <1>7 DEF After

\* A series keeps the last points, its last is the last of all, and it has those of the
\* last year.
LEMMA SeriesTail ==
    ASSUME NEW P, Line(P), NEW n \in Nat, n >= 5, NEW v \in Figures!LastOf(Figures!LastOf(P, n), 1)
    PROVE  /\ v \in P /\ v.end \in Int
           /\ \A w \in P : w.end \in Int /\ w.end <= v.end
           /\ \A w \in P : w.end >= v.end - 4 => w \in Figures!LastOf(P, n)
  <1> DEFINE L == Figures!LastOf(P, n)
  <1>0. \A w \in P : w.end \in Int
    BY DEF Line
  <1>1. L \subseteq P /\ Line(L)
    BY LastOfIs, LineFinite
  <1>2. v \in L /\ After(L, v) = {}
    BY <1>1, Latest
  <1>3. PICK m \in P : After(P, m) = {}
    BY <1>1, <1>2, LatestExists
  <1>4. m \in L
    BY <1>3, FS_EmptySet, LastOfIs
  <1>5. \A w \in P : w.end <= m.end
    BY <1>0, <1>3 DEF After
  <1>6. m.end <= v.end
    BY <1>0, <1>1, <1>2, <1>4 DEF After
  <1>7. \A w \in P : w.end <= v.end
    BY <1>0, <1>1, <1>2, <1>5, <1>6
  <1>8. ASSUME NEW w \in P, w.end >= v.end - 4 PROVE w \in L
    <2>1. After(P, w) \subseteq P
      BY DEF After
    <2>2. \A u \in After(P, w) : u.end \in v.end - 3 .. v.end
      BY <1>0, <1>1, <1>2, <1>7, <1>8 DEF After
    <2>3. v.end - 3 \in Int /\ v.end \in Int /\ v.end - 3 <= v.end + 1
      BY <1>0, <1>1, <1>2
    <2>4. Cardinality(After(P, w)) \in Nat /\ Cardinality(After(P, w)) <= v.end - (v.end - 3) + 1
      BY <2>1, <2>2, <2>3, Between
    <2>5. Cardinality(After(P, w)) < n
      BY <2>3, <2>4
    <2> QED
      BY <2>5, LastOfIs
  <1> QED
    BY <1>0, <1>1, <1>2, <1>7, <1>8

-----------------------------------------------------------------------------
(* The facts of the filings, and the points that prevail.                    *)

\* A fact is stated by a filing, of a period that it is compared with.
Stated(concept, f) ==
    LET report == filings[f.by]
    IN  /\ f.by \in DOMAIN filings /\ f.form = report.form
        /\ f.end \in Figures!Compared(report) /\ f.span \in Figures!Spans(concept, report)
        /\ f.tag = IF concept = "revenue" THEN company.tags[report.period] ELSE 1

LEMMA FactIs ==
    ASSUME NEW concept, NEW f \in Figures!Facts(concept)
    PROVE  Stated(concept, f)
  <1>1. PICK i \in DOMAIN filings :
          \E end \in Figures!Compared(filings[i]), span \in Figures!Spans(concept, filings[i]) :
             f = [end |-> end, span |-> span, by |-> i, form |-> filings[i].form,
                  tag |-> IF concept = "revenue" THEN company.tags[filings[i].period] ELSE 1]
    BY DEF Figures!Facts
  <1> QED
    BY <1>1 DEF Stated

LEMMA FactExists ==
    ASSUME NEW concept, NEW i \in DOMAIN filings, NEW end \in Figures!Compared(filings[i]),
           NEW span \in Figures!Spans(concept, filings[i])
    PROVE  \E f \in Figures!Facts(concept) :
               /\ f.end = end /\ f.span = span /\ f.by = i /\ f.form = filings[i].form
  <1> DEFINE f == [end |-> end, span |-> span, by |-> i, form |-> filings[i].form,
                   tag |-> IF concept = "revenue" THEN company.tags[filings[i].period] ELSE 1]
  <1>1. f \in Figures!Facts(concept)
    BY DEF Figures!Facts
  <1> QED
    BY <1>1

LEMMA FactType ==
    ASSUME FilingsInv, NEW concept, NEW f, Stated(concept, f)
    PROVE  /\ f.by \in 1 .. Len(filings) /\ f.form \in Form
           /\ f.span \in 1..4 /\ f.end \in First - 8 .. Last
  <1> DEFINE p == filings[f.by].period
  <1>1. f.by \in 1 .. Len(filings) /\ f.form \in Form /\ p \in First..Last
    BY FilingType DEF Stated
  <1>2. Figures!Quarter(p) \in 1..4
    BY <1>1, FilingType, QuarterType
  <1>3. f.span \in {1, 4, Figures!Quarter(p)}
    BY DEF Stated, Figures!Spans
  <1>4. f.end \in {p, p - 4, p - 8}
    BY DEF Stated, Figures!Compared
  <1>5. First \in Int /\ Last \in Int
    BY FilingType
  <1> HIDE DEF p
  <1>6. f.span \in 1..4
    BY <1>2, <1>3
  <1>7. f.end \in First - 8 .. Last
    BY <1>1, <1>4, <1>5
  <1> QED
    BY <1>1, <1>6, <1>7

\* Which reports the facts of each frequency are from.
LEMMA FactKind ==
    ASSUME FilingsInv, NEW concept, NEW f, Stated(concept, f), Figures!Allowed(f)
    PROVE  /\ Figures!Frequency(f) = "quarterly" => f.form = "10-Q"
           /\ Figures!Frequency(f) = "annual" => f.form \in {"10-K", "20-F"}
           /\ f.form = "10-Q" => Figures!Frequency(f) = "quarterly"
           /\ f.form \in {"10-K", "20-F"} => Figures!Frequency(f) = "annual"
           /\ f.form \in {"10-Q", "10-K", "20-F", "6-K"}
  <1> DEFINE p == filings[f.by].period
  <1>1. f.by \in DOMAIN filings /\ f.form = filings[f.by].form /\ f.form \in Form
    BY FactType DEF Stated
  <1>2. f.form \in {"10-Q", "10-K", "20-F", "6-K"}
    BY <1>1 DEF Form, Figures!Allowed
  <1>3. Figures!Frequency(f) = "quarterly" <=> f.form = "10-Q"
    <2>1. CASE f.form = "6-K"
      <3>1. Figures!Quarter(p) = 2
        BY <1>1, <2>1 DEF FilingsInv, Fits
      <3>2. f.span = 2
        BY <1>1, <2>1, <3>1 DEF Stated, Figures!Spans, Figures!Period
      <3> QED
        BY <2>1, <3>2 DEF Figures!Frequency, Figures!Period
    <2>2. CASE f.form = "10-Q"
      BY <2>2 DEF Figures!Frequency, Figures!Period
    <2>3. CASE f.form \in {"10-K", "20-F"}
      BY <2>3 DEF Figures!Frequency, Figures!Period
    <2> QED
      BY <1>2, <2>1, <2>2, <2>3
  <1>4. Figures!Frequency(f) = "annual" <=> f.form \in {"10-K", "20-F"}
    <2>1. CASE f.form = "6-K"
      <3>1. Figures!Quarter(p) = 2
        BY <1>1, <2>1 DEF FilingsInv, Fits
      <3>2. f.span = 2
        BY <1>1, <2>1, <3>1 DEF Stated, Figures!Spans, Figures!Period
      <3> QED
        BY <2>1, <3>2 DEF Figures!Frequency, Figures!Period
    <2>2. CASE f.form = "10-Q"
      BY <2>2 DEF Figures!Frequency, Figures!Period
    <2>3. CASE f.form \in {"10-K", "20-F"}
      BY <2>3 DEF Figures!Frequency, Figures!Period
    <2> QED
      BY <1>2, <2>1, <2>2, <2>3
  <1> QED
    BY <1>2, <1>3, <1>4

\* A quarterly report is of the first to the third quarter, an annual one ends a year.
LEMMA FactPeriod ==
    ASSUME FilingsInv, NEW concept, NEW f, Stated(concept, f), Figures!Allowed(f)
    PROVE  /\ f.form = "10-Q" =>
                 /\ Figures!Quarter(filings[f.by].period) \in 1..3
                 /\ f.end \in {filings[f.by].period, filings[f.by].period - 4}
                 /\ concept # "cash" =>
                        f.span \in {1, Figures!Quarter(filings[f.by].period)}
           /\ f.form \in {"10-K", "20-F"} => f.span = 4 /\ f.end % 4 = 0
           /\ f.form = "6-K" => f.span = 2
  <1> DEFINE p == filings[f.by].period
  <1>1. /\ f.by \in DOMAIN filings /\ f.form = filings[f.by].form
        /\ p \in Int
    BY FilingType DEF Stated
  <1>2. f.form = "10-Q" =>
            /\ Figures!Quarter(p) \in 1..3 /\ f.end \in {p, p - 4}
            /\ concept # "cash" => f.span \in {1, Figures!Quarter(p)}
    BY <1>1 DEF FilingsInv, Fits, Stated, Figures!Compared, Figures!Spans, Figures!Period
  <1>3. ASSUME f.form \in {"10-K", "20-F"} PROVE f.span = 4 /\ f.end % 4 = 0
    <2>1. Figures!Quarter(p) = 4
      BY <1>1, <1>3 DEF FilingsInv, Fits
    <2>2. p % 4 = 0
      BY <1>1, <2>1, QuarterType
    <2>3. f.end \in {p, p - 4, p - 8}
      BY DEF Stated, Figures!Compared
    <2>4. f.span = 4
      BY <1>1, <1>3 DEF Stated, Figures!Spans, Figures!Period
    <2> HIDE DEF p
    <2> QED
      BY <1>1, <2>2, <2>3, <2>4
  <1>4. f.form = "6-K" => f.span = 2
    BY <1>1 DEF FilingsInv, Fits, Stated, Figures!Spans, Figures!Period
  <1> QED
    BY <1>2, <1>3, <1>4

Fit(told, frequency) ==
    {f \in told : Figures!Frequency(f) = frequency /\ Figures!Allowed(f)}

\* A point is the fact that no other at that end prevails over.
PointOf(v, told, frequency) ==
    \E f \in Fit(told, frequency) :
        /\ v = [end |-> f.end, span |-> f.span, by |-> f.by]
        /\ \A h \in Fit(told, frequency) : h.end = f.end => ~Figures!Prevails(h, f)

LEMMA PointIs ==
    ASSUME NEW told, NEW frequency, NEW v
    PROVE  v \in Figures!Points(told, frequency) <=> PointOf(v, told, frequency)
  BY DEF Figures!Points, PointOf, Fit

LEMMA PointsLine ==
    ASSUME FilingsInv, NEW concept, NEW told \in SUBSET Figures!Facts(concept), NEW frequency
    PROVE  Line(Figures!Points(told, frequency))
  <1> DEFINE P == Figures!Points(told, frequency)
  <1>1. \A f \in told : f.by \in Int /\ f.span \in Int /\ f.end \in First - 8 .. Last
    BY FactIs, FactType, FilingType
  <1>2. \A v \in P : v.end \in First - 8 .. Last
    BY <1>1, PointIs DEF PointOf, Fit
  <1>3. ASSUME NEW v \in P, NEW w \in P, v.end = w.end PROVE v = w
    <2>1. PICK f \in Fit(told, frequency) :
              /\ v = [end |-> f.end, span |-> f.span, by |-> f.by]
              /\ \A h \in Fit(told, frequency) : h.end = f.end => ~Figures!Prevails(h, f)
      BY PointIs DEF PointOf
    <2>2. PICK g \in Fit(told, frequency) :
              /\ w = [end |-> g.end, span |-> g.span, by |-> g.by]
              /\ \A h \in Fit(told, frequency) : h.end = g.end => ~Figures!Prevails(h, g)
      BY PointIs DEF PointOf
    <2>3. f.end = g.end
      BY <1>3, <2>1, <2>2
    <2>4. ~Figures!Prevails(g, f) /\ ~Figures!Prevails(f, g)
      BY <2>1, <2>2, <2>3
    <2>5. f.by = g.by /\ f.span = g.span
      BY <1>1, <2>4 DEF Figures!Prevails, Fit
    <2> QED
      BY <2>1, <2>2, <2>3, <2>5
  <1>4. First - 8 \in Int /\ Last \in Int
    BY FilingType
  <1> HIDE DEF P
  <1> QED
    BY <1>2, <1>3, <1>4 DEF Line, P

LEMMA PointExists ==
    ASSUME FilingsInv, NEW concept, NEW told \in SUBSET Figures!Facts(concept), NEW frequency,
           NEW f \in Fit(told, frequency)
    PROVE  \E v \in Figures!Points(told, frequency) : v.end = f.end
  <1> DEFINE same == {g \in Fit(told, frequency) : g.end = f.end}
             rank(g) == 5 * (Len(filings) - g.by) + g.span
             S == {rank(g) : g \in same}
  <1>1. \A g \in same : g.by \in 1 .. Len(filings) /\ g.span \in 1..4
    BY FactIs, FactType DEF Fit
  <1>2. Len(filings) \in Nat
    BY FilingType
  <1>3. S \subseteq 0 .. 5 * Len(filings) + 4
    <2> SUFFICES ASSUME NEW g \in same PROVE rank(g) \in 0 .. 5 * Len(filings) + 4
      OBVIOUS
    <2>1. g.by \in 1 .. Len(filings) /\ g.span \in 1..4
      BY <1>1
    <2> DEFINE n == Len(filings)
               by == g.by
               span == g.span
    <2>2. n \in Nat /\ by \in 1..n /\ span \in 1..4
      BY <1>2, <2>1
    <2> HIDE DEF n, by, span, same
    <2>3. 5 * (n - by) + span \in 0 .. 5 * n + 4
      BY <2>2
    <2> QED
      BY <2>3 DEF n, by, span
  <1>4. IsFiniteSet(S)
    <2>1. IsFiniteSet(0 .. 5 * Len(filings) + 4)
      BY <1>2, FS_Interval
    <2> QED
      BY <1>3, <2>1, FS_Subset
  <1>5. PICK x \in S : \A y \in S : x <= y
    <2>1. S # {}
      OBVIOUS
    <2>2. S \subseteq Nat
      BY <1>2, <1>3
    <2> HIDE DEF S
    <2> QED
      BY <1>4, <2>1, <2>2, LeastNatural
  <1>6. PICK g \in same : x = rank(g)
    BY <1>5
  <1>7. ASSUME NEW h \in same, Figures!Prevails(h, g) PROVE FALSE
    <2>1. rank(g) <= rank(h)
      BY <1>5, <1>6
    <2>2. /\ g.by \in 1 .. Len(filings) /\ g.span \in 1..4
          /\ h.by \in 1 .. Len(filings) /\ h.span \in 1..4
      BY <1>1
    <2>3. h.by > g.by \/ (h.by = g.by /\ h.span < g.span)
      BY <1>7 DEF Figures!Prevails
    <2>4. 5 * (Len(filings) - g.by) + g.span <= 5 * (Len(filings) - h.by) + h.span
      BY <2>1
    <2> HIDE DEF same, S, rank
    <2>5. \A n \in Nat : \A a, b \in 1..n, s, t \in 1..4 :
              5 * (n - a) + s <= 5 * (n - b) + t => ~(b > a) /\ ~(b = a /\ t < s)
      OBVIOUS
    <2> QED
      BY <1>2, <2>2, <2>3, <2>4, <2>5
  <1> DEFINE v == [end |-> g.end, span |-> g.span, by |-> g.by]
  <1>8. PointOf(v, told, frequency)
    BY <1>7 DEF PointOf
  <1> QED
    BY <1>8, PointIs

-----------------------------------------------------------------------------
(* The series.                                                               *)

Tag(concept) == Figures!Min({f.tag : f \in Figures!Facts(concept)})

\* The facts of a concept that a series is made of.
Told(concept) == {f \in Figures!Facts(concept) : f.tag = Tag(concept)}

Quarterlies(concept) == Figures!Points(Told(concept), "quarterly")
Annuals(concept) == Figures!Points(Told(concept), "annual")

LEMMA EdgarIs ==
    ASSUME NEW concept
    PROVE  Figures!EdgarSeries(concept) =
               IF Quarterlies(concept) # {} THEN Figures!Recent("quarterly", Quarterlies(concept))
               ELSE Figures!Recent("annual", Annuals(concept))
  BY DEF Figures!EdgarSeries, Quarterlies, Annuals, Told, Tag

\* What a fact in a series says, and the other facts of its filing that are in it too.
LEMMA ToldIs ==
    ASSUME FilingsInv, NEW concept, NEW frequency, NEW f \in Fit(Told(concept), frequency)
    PROVE  /\ f \in Told(concept) /\ Stated(concept, f) /\ Figures!Allowed(f)
           /\ Figures!Frequency(f) = frequency
           /\ \A end \in Figures!Compared(filings[f.by]) :
              \A span \in Figures!Spans(concept, filings[f.by]) :
                 \E h \in Fit(Told(concept), frequency) :
                     h.end = end /\ h.span = span /\ h.by = f.by
  <1>1. f \in Told(concept) /\ Stated(concept, f) /\ Figures!Allowed(f)
        /\ Figures!Frequency(f) = frequency
    BY FactIs DEF Fit, Told
  <1> SUFFICES ASSUME NEW end \in Figures!Compared(filings[f.by]),
                      NEW span \in Figures!Spans(concept, filings[f.by])
               PROVE  \E h \in Fit(Told(concept), frequency) :
                          h.end = end /\ h.span = span /\ h.by = f.by
    BY <1>1
  <1>2. PICK h \in Figures!Facts(concept) :
            h.end = end /\ h.span = span /\ h.by = f.by /\ h.form = filings[f.by].form
    BY <1>1, FactExists DEF Stated
  <1>3. Stated(concept, h)
    BY FactIs
  <1>4. h.tag = f.tag /\ h.form = f.form
    BY <1>1, <1>2, <1>3 DEF Stated
  <1>5. h \in Told(concept)
    BY <1>1, <1>4 DEF Told
  <1>6. Figures!Allowed(h)
    BY <1>1, <1>4 DEF Figures!Allowed
  <1>7. Figures!Frequency(h) = frequency
    <2>1. Figures!Frequency(f) = frequency /\ f.form # "6-K" => Figures!Frequency(h) = frequency
      BY <1>1, <1>3, <1>4, <1>6, FactKind DEF Figures!Frequency, Figures!Period
    <2>2. CASE f.form = "6-K"
      <3>1. f.span = 2 /\ h.span = 2
        BY <1>1, <1>3, <1>4, <1>6, <2>2, FactPeriod
      <3> QED
        BY <1>1, <1>4, <3>1 DEF Figures!Frequency
    <2> QED
      BY <1>1, <2>1, <2>2
  <1> QED
    BY <1>2, <1>5, <1>6, <1>7 DEF Fit

\* A quarterly point is of one quarter, as a filing states the quarter beside the year so
\* far.
LEMMA QuarterlySpan ==
    ASSUME FilingsInv, NEW concept, concept # "cash", NEW v \in Quarterlies(concept)
    PROVE  v.span = 1
  <1>1. PICK f \in Fit(Told(concept), "quarterly") :
            /\ v = [end |-> f.end, span |-> f.span, by |-> f.by]
            /\ \A h \in Fit(Told(concept), "quarterly") :
                   h.end = f.end => ~Figures!Prevails(h, f)
    BY PointIs DEF PointOf, Quarterlies
  <1>2. /\ Stated(concept, f) /\ Figures!Allowed(f) /\ f.form = "10-Q"
    BY ToldIs, FactKind
  <1>3. 1 \in Figures!Spans(concept, filings[f.by]) /\ f.end \in Figures!Compared(filings[f.by])
    BY <1>2 DEF Stated, Figures!Spans, Figures!Period
  <1>4. PICK h \in Fit(Told(concept), "quarterly") :
            h.end = f.end /\ h.span = 1 /\ h.by = f.by
    BY <1>3, ToldIs
  <1>5. ~(1 < f.span)
    BY <1>1, <1>4 DEF Figures!Prevails
  <1>6. f.span \in 1..4
    BY <1>2, FactType
  <1> QED
    BY <1>1, <1>5, <1>6

LEMMA AnnualSpan ==
    ASSUME FilingsInv, NEW concept, NEW v \in Annuals(concept)
    PROVE  v.span = 4 /\ v.end \in Int /\ v.end % 4 = 0
  <1>1. PICK f \in Fit(Told(concept), "annual") :
            v = [end |-> f.end, span |-> f.span, by |-> f.by]
    BY PointIs DEF PointOf, Annuals
  <1>2. /\ Stated(concept, f) /\ Figures!Allowed(f) /\ f.form \in {"10-K", "20-F"}
    BY ToldIs, FactKind
  <1> QED
    BY <1>1, <1>2, FactPeriod, FactType, FilingType

LEMMA StatementLine ==
    ASSUME FilingsInv, NEW ends, ends \subseteq Figures!Reported, NEW span
    PROVE  Line(Figures!Statement(ends, span))
  <1> DEFINE S == Figures!Statement(ends, span)
  <1>1. First \in Int /\ Last \in Int /\ ends \subseteq First..Last
    BY FilingType
  <1>2. \A v \in S : v.end \in ends /\ v = [end |-> v.end, span |-> span, by |-> 0]
    BY DEF Figures!Statement
  <1> HIDE DEF S
  <1>3. \A v \in S : v.end \in First..Last
    BY <1>1, <1>2
  <1>4. \A v, w \in S : v.end = w.end => v = w
    BY <1>2
  <1> QED
    BY <1>1, <1>3, <1>4 DEF Line, S

LEMMA EdgarLines ==
    ASSUME FilingsInv, NEW concept
    PROVE  Line(Quarterlies(concept)) /\ Line(Annuals(concept))
  <1>1. Told(concept) \in SUBSET Figures!Facts(concept)
    BY DEF Told
  <1> QED
    BY <1>1, PointsLine DEF Quarterlies, Annuals

LEMMA LastOfSubset ==
    ASSUME NEW P, NEW n
    PROVE  Figures!LastOf(P, n) \subseteq P
  BY LastOfIs

LEMMA RecentIs ==
    ASSUME NEW frequency, NEW P
    PROVE  /\ P = {} => Figures!Recent(frequency, P) = Figures!NoSeries
           /\ P # {} => Figures!Recent(frequency, P) =
                           [frequency |-> frequency, points |-> Figures!LastOf(P, 5)]
  BY DEF Figures!Recent

\* A series that is said to be of quarters or of years is, but for EDGAR's cash.
LEMMA SeriesSpan ==
    ASSUME FilingsInv, NEW concept \in Figures!Concepts
    PROVE  LET s == Figures!Series(concept)
           IN  /\ s.frequency \in {"quarterly", "annual", "unknown"}
               /\ s.frequency = "quarterly"
                     /\ ~(source.name = "sec_edgar" /\ concept = "cash")
                  => \A v \in s.points : v.span = 1
               /\ s.frequency = "annual" => \A v \in s.points : v.span = 4
  <1> DEFINE s == Figures!Series(concept)
             Sound(t, unless) ==
                 /\ t.frequency \in {"quarterly", "annual", "unknown"}
                 /\ t.frequency = "quarterly" /\ ~unless => \A v \in t.points : v.span = 1
                 /\ t.frequency = "annual" => \A v \in t.points : v.span = 4
  <1>0. \A unless : Sound(Figures!NoSeries, unless)
    BY DEF Figures!NoSeries
  <1>1. CASE source.name = "sec_edgar"
    <2>1. s = Figures!EdgarSeries(concept)
      BY <1>1 DEF Figures!Series
    <2>2. CASE Quarterlies(concept) # {}
      <3>1. s = [frequency |-> "quarterly", points |-> Figures!LastOf(Quarterlies(concept), 5)]
        BY <2>1, <2>2, EdgarIs, RecentIs
      <3>2. concept # "cash" => \A v \in s.points : v.span = 1
        BY <3>1, LastOfSubset, QuarterlySpan
      <3> QED
        BY <1>1, <3>1, <3>2
    <2>3. CASE Quarterlies(concept) = {} /\ Annuals(concept) # {}
      <3>1. s = [frequency |-> "annual", points |-> Figures!LastOf(Annuals(concept), 5)]
        BY <2>1, <2>3, EdgarIs, RecentIs
      <3>2. \A v \in s.points : v.span = 4
        BY <3>1, LastOfSubset, AnnualSpan
      <3> QED
        BY <3>1, <3>2
    <2>4. CASE Quarterlies(concept) = {} /\ Annuals(concept) = {}
      <3>1. s = Figures!NoSeries
        BY <2>1, <2>4, EdgarIs, RecentIs
      <3> QED
        BY <1>0, <3>1
    <2> QED
      BY <2>2, <2>3, <2>4
  <1>2. CASE source.name = "degiro"
    <2>1. s = Figures!DegiroSeries(concept)
      BY <1>2 DEF Figures!Series
    <2>2. CASE concept = "revenue" /\ Figures!Years # {}
      <3>1. s = [frequency |-> "annual",
                 points |-> Figures!LastOf(Figures!Statement(Figures!Years, 4), 7)]
        BY <2>1, <2>2 DEF Figures!DegiroSeries
      <3>2. \A v \in s.points : v.span = 4
        BY <3>1, LastOfSubset DEF Figures!Statement
      <3> QED
        BY <3>1, <3>2
    <2>3. CASE ~(concept = "revenue" /\ Figures!Years # {})
      <3>1. s = Figures!NoSeries
        BY <2>1, <2>3 DEF Figures!DegiroSeries
      <3> QED
        BY <1>0, <3>1
    <2> QED
      BY <2>2, <2>3
  <1>3. CASE source.name = "yfinance"
    <2>1. s = Figures!YahooSeries(concept)
      BY <1>3 DEF Figures!Series
    <2>2. source.has[concept] \in {"quarterly", "annual", "none"}
      BY DEF FilingsInv, Figures!Sources
    <2> DEFINE Q == Figures!Statement(Figures!Reported, 1)
               A == Figures!Statement(Figures!Years, 4)
    <2>3. CASE source.has[concept] = "quarterly"
      <3>1. s = Figures!Recent("quarterly", Q)
        BY <2>1, <2>3 DEF Figures!YahooSeries
      <3>2. \A v \in Figures!LastOf(Q, 5) : v.span = 1
        BY LastOfSubset DEF Figures!Statement
      <3> HIDE DEF Q
      <3>3. CASE Q = {}
        BY <1>0, <3>1, <3>3, RecentIs
      <3>4. CASE Q # {}
        <4>1. s = [frequency |-> "quarterly", points |-> Figures!LastOf(Q, 5)]
          BY <3>1, <3>4, RecentIs
        <4> QED
          BY <3>2, <4>1
      <3> QED
        BY <3>3, <3>4
    <2>4. CASE source.has[concept] = "annual"
      <3>1. s = Figures!Recent("annual", A)
        BY <2>1, <2>4 DEF Figures!YahooSeries
      <3>2. \A v \in Figures!LastOf(A, 5) : v.span = 4
        BY LastOfSubset DEF Figures!Statement
      <3> HIDE DEF A
      <3>3. CASE A = {}
        BY <1>0, <3>1, <3>3, RecentIs
      <3>4. CASE A # {}
        <4>1. s = [frequency |-> "annual", points |-> Figures!LastOf(A, 5)]
          BY <3>1, <3>4, RecentIs
        <4> QED
          BY <3>2, <4>1
      <3> QED
        BY <3>3, <3>4
    <2>5. CASE source.has[concept] = "none"
      <3>1. s = Figures!NoSeries
        BY <2>1, <2>5 DEF Figures!YahooSeries
      <3> QED
        BY <1>0, <3>1
    <2> QED
      BY <2>2, <2>3, <2>4, <2>5
  <1> QED
    BY <1>1, <1>2, <1>3 DEF FilingsInv, Figures!Sources

LEMMA MarginsSound ==
    ASSUME FilingsInv
    PROVE  Figures!MarginsAreLike
  <1> SUFFICES ASSUME NEW concept \in {"income", "cash"},
                      Figures!Margin(concept).frequency # "unknown",
                      ~(source.name = "sec_edgar" /\ concept = "cash"),
                      NEW r \in Figures!Margin(concept).points
               PROVE  r.num.span = r.den.span
    BY DEF Figures!MarginsAreLike
  <1> DEFINE n == Figures!Series(concept)
             d == Figures!Series("revenue")
  <1>1. n.frequency = d.frequency /\ n.frequency # "unknown"
    BY DEF Figures!Margin, Figures!Ratio
  <1>2. r.num \in n.points /\ r.den \in d.points
    BY DEF Figures!Margin, Figures!Ratio, Figures!Joined
  <1>3. /\ n.frequency \in {"quarterly", "annual", "unknown"}
        /\ n.frequency = "quarterly" => \A v \in n.points : v.span = 1
        /\ n.frequency = "annual" => \A v \in n.points : v.span = 4
    BY SeriesSpan DEF Figures!Concepts
  <1>4. /\ d.frequency = "quarterly" => \A v \in d.points : v.span = 1
        /\ d.frequency = "annual" => \A v \in d.points : v.span = 4
    BY SeriesSpan DEF Figures!Concepts
  <1> HIDE DEF n, d
  <1> QED
    BY <1>1, <1>2, <1>3, <1>4

-----------------------------------------------------------------------------
(* The growth of revenue.                                                    *)

\* The growth told of a series: its last point, and one of a year before, or of five
\* quarters before if there is no revenue to compare with in between.
Grows(g, P) ==
    /\ g.num \in P /\ g.num.end \in Int /\ g.den \in P
    /\ \A w \in P : w.end \in Int /\ w.end <= g.num.end
    /\ \/ g.den.end = g.num.end - 4
       \/ /\ g.den.end = g.num.end - 5
          /\ \A w \in P : w.end = g.num.end - 4 => Figures!Zero(w)

LEMMA GrowthIs ==
    ASSUME NEW P, Line(P), NEW n \in Nat, n >= 5,
           Figures!Series("revenue").points = Figures!LastOf(P, n), NEW g \in Figures!Growths
    PROVE  Grows(g, P) /\ g.num \in Figures!LastOf(P, n)
  <1> DEFINE points == Figures!LastOf(P, n)
             latest == Figures!LastOf(points, 1)
             Before(v, k) == {w \in points : w.end = v.end - k /\ ~Figures!Zero(w)}
  <1>1. g \in {[num |-> v, den |-> w] :
                   v \in latest, w \in UNION {IF Before(u, 4) # {} THEN Before(u, 4)
                                              ELSE Before(u, 5) : u \in latest}}
    BY DEF Figures!Growths
  <1>2. g.num \in latest
    BY <1>1
  <1>3. PICK u \in latest : g.den \in IF Before(u, 4) # {} THEN Before(u, 4) ELSE Before(u, 5)
    BY <1>1
  <1>4. /\ g.num \in P /\ g.num.end \in Int
        /\ \A w \in P : w.end \in Int /\ w.end <= g.num.end
        /\ \A w \in P : w.end >= g.num.end - 4 => w \in points
    BY <1>2, SeriesTail
  <1>5. u \in P /\ u.end \in Int /\ \A w \in P : w.end <= u.end
    BY SeriesTail
  <1>6. u.end = g.num.end
    BY <1>4, <1>5
  <1>7. points \subseteq P /\ latest \subseteq points
    BY LastOfSubset
  <1>8. g.den \in P
    BY <1>3, <1>7
  <1>9. CASE Before(u, 4) # {}
    <2>1. g.den.end = g.num.end - 4
      BY <1>3, <1>6, <1>9
    <2> HIDE DEF latest, points, Before
    <2> QED
      BY <1>2, <1>4, <1>7, <1>8, <2>1 DEF Grows, points
  <1>10. CASE Before(u, 4) = {}
    <2>1. g.den.end = g.num.end - 5
      BY <1>3, <1>6, <1>10
    <2>2. \A w \in points : w.end = u.end - 4 => Figures!Zero(w)
      BY <1>10
    <2> HIDE DEF latest, points, Before
    <2>3. ASSUME NEW w \in P, w.end = g.num.end - 4 PROVE Figures!Zero(w)
      <3>1. w \in points
        BY <1>4, <2>3
      <3> QED
        BY <1>6, <2>2, <2>3, <3>1
    <2> QED
      BY <1>2, <1>4, <1>7, <1>8, <2>1, <2>3 DEF Grows, points
  <1> QED
    BY <1>9, <1>10

LEMMA NoGrowth ==
    ASSUME Figures!Series("revenue").points = {}
    PROVE  Figures!Growths = {}
  BY LastOfSubset DEF Figures!Growths

LEMMA DryEnd ==
    ASSUME NEW w, w.end \in Int, w.span \in {1, 4}, Figures!Zero(w)
    PROVE  w.end \in company.dry
  BY DEF Figures!Zero

\* Of the growth, what holds of every provider.
Compares(g) ==
    /\ g.num.span = g.den.span
    /\ \/ g.den.end = g.num.end - 4
       \/ g.num.end - 4 \in company.dry

\* Of years there is none that ends five quarters before another.
LEMMA YearsCompare ==
    ASSUME NEW P, NEW g, Grows(g, P), \A v \in P : v.span = 4 /\ v.end % 4 = 0
    PROVE  Compares(g)
  <1>1. g.num.end \in Int /\ g.den.end \in Int /\ g.num.span = 4 /\ g.den.span = 4
        /\ g.num.end % 4 = 0 /\ g.den.end % 4 = 0
    BY DEF Grows
  <1>2. g.den.end # g.num.end - 5
    BY <1>1
  <1> QED
    BY <1>1, <1>2 DEF Grows, Compares

\* Of quarters, there is one in between.
LEMMA QuartersCompare ==
    ASSUME NEW P, NEW g, Grows(g, P), \A v \in P : v.span = 1,
           g.den.end = g.num.end - 5 => \E w \in P : w.end = g.num.end - 4
    PROVE  Compares(g)
  <1>1. g.num.span = 1 /\ g.den.span = 1
    BY DEF Grows
  <1>2. ASSUME g.den.end = g.num.end - 5, g.den.end # g.num.end - 4
        PROVE  g.num.end - 4 \in company.dry
    <2>1. PICK w \in P : w.end = g.num.end - 4
      BY <1>2
    <2>2. Figures!Zero(w) /\ w.end \in Int /\ w.span = 1
      BY <1>2, <2>1 DEF Grows
    <2> QED
      BY <2>1, <2>2, DryEnd
  <1> QED
    BY <1>1, <1>2 DEF Grows, Compares

LEMMA StatementHas ==
    ASSUME NEW ends, NEW span
    PROVE  /\ \A v \in Figures!Statement(ends, span) : v.end \in ends /\ v.span = span
           /\ \A e \in ends : \E v \in Figures!Statement(ends, span) : v.end = e
  <1>1. ASSUME NEW e \in ends PROVE \E v \in Figures!Statement(ends, span) : v.end = e
    <2>1. [end |-> e, span |-> span, by |-> 0] \in Figures!Statement(ends, span)
      BY DEF Figures!Statement
    <2> QED
      BY <2>1
  <1> QED
    BY <1>1 DEF Figures!Statement

\* Of statements of the quarters reported, none is missing between two of different years.
LEMMA NoneMissing ==
    ASSUME FilingsInv, NEW e \in Int, e \in Figures!Reported, e - 5 \in Figures!Reported
    PROVE  e - 4 \in Figures!Reported
  <1> DEFINE R == Figures!Reported
  <1>1. First \in Int /\ e - 5 >= First
    BY FilingType
  <1>2. CASE company.reports = "quarters"
    <2>1. \A q \in R : q = First \/ q - 1 \in R
      BY <1>2 DEF FilingsInv, Regular
    <2> HIDE DEF R
    <2>2. \A k \in 0..3 : e - k \in R => e - (k + 1) \in R
      <3> SUFFICES ASSUME NEW k \in 0..3, e - k \in R PROVE e - (k + 1) \in R
        OBVIOUS
      <3>1. (e - k) - 1 = e - (k + 1) /\ e - k # First
        BY <1>1
      <3> QED
        BY <2>1, <3>1
    <2>3. e - 0 = e
      OBVIOUS
    <2>4. e - 1 \in R
      BY <2>2, <2>3 DEF R
    <2>5. e - 2 \in R
      BY <2>2, <2>4
    <2>6. e - 3 \in R
      BY <2>2, <2>5
    <2>7. e - 4 \in R
      BY <2>2, <2>6
    <2> QED
      BY <2>7 DEF R
  <1>3. CASE company.reports # "quarters"
    <2>1. Figures!Quarter(e) \in {2, 4} /\ Figures!Quarter(e - 5) \in {2, 4}
      BY <1>3 DEF FilingsInv, Regular
    <2>2. e - 5 \in Int
      OBVIOUS
    <2>3. e % 4 \in {0, 2} /\ (e - 5) % 4 \in {0, 2}
      BY <2>1, <2>2, QuarterType
    <2>4. \A a \in Int : ~(a % 4 \in {0, 2} /\ (a - 5) % 4 \in {0, 2})
      OBVIOUS
    <2> QED
      BY <2>3, <2>4
  <1> QED
    BY <1>2, <1>3

LEMMA YahooCompares ==
    ASSUME FilingsInv, NEW g, Grows(g, Figures!Statement(Figures!Reported, 1))
    PROVE  Compares(g)
  <1> DEFINE R == Figures!Reported
             P == Figures!Statement(R, 1)
  <1>1. g.num \in P /\ g.den \in P /\ g.num.end \in Int
    BY DEF Grows
  <1>2. g.num.end \in R /\ g.den.end \in R
    BY <1>1, StatementHas
  <1>3. g.den.end = g.num.end - 5 => g.num.end - 4 \in R
    BY <1>1, <1>2, NoneMissing
  <1>4. \A v \in P : v.span = 1
    BY StatementHas
  <1>5. g.den.end = g.num.end - 5 => \E w \in P : w.end = g.num.end - 4
    BY <1>3, StatementHas
  <1> QED
    BY <1>4, <1>5, QuartersCompare

LEMMA YearsLine ==
    ASSUME FilingsInv
    PROVE  /\ Line(Figures!Statement(Figures!Years, 4))
           /\ \A v \in Figures!Statement(Figures!Years, 4) : v.span = 4 /\ v.end % 4 = 0
  <1>1. Figures!Years \subseteq Figures!Reported
    BY DEF Figures!Years
  <1>2. \A q \in Figures!Years : q \in Int /\ Figures!Quarter(q) = 4
    BY FilingType DEF Figures!Years
  <1>3. \A q \in Figures!Years : q % 4 = 0
    BY <1>2, QuarterType
  <1> QED
    BY <1>1, <1>3, StatementLine, StatementHas

-----------------------------------------------------------------------------
(* The growth that the facts of EDGAR tell.                                  *)

\* A report of a quarter is compared with the same quarter of the year before.
LEMMA QuarterlyCompares ==
    ASSUME FilingsInv, NEW g, Grows(g, Quarterlies("revenue"))
    PROVE  Compares(g)
  <1> DEFINE P == Quarterlies("revenue")
  <1>1. PICK f \in Fit(Told("revenue"), "quarterly") :
            g.num = [end |-> f.end, span |-> f.span, by |-> f.by]
    BY PointIs DEF Grows, PointOf, Quarterlies
  <1> DEFINE p == filings[f.by].period
  <1>2. /\ Stated("revenue", f) /\ Figures!Allowed(f) /\ f.form = "10-Q"
    BY ToldIs, FactKind
  <1>3. f.end \in {p, p - 4} /\ p \in Int
    <2>1. f.end \in {p, p - 4}
      BY <1>2, FactPeriod
    <2>2. f.by \in DOMAIN filings
      BY <1>2 DEF Stated
    <2> QED
      BY <2>1, <2>2, FilingType
  <1>4. f.span \in Figures!Spans("revenue", filings[f.by])
    BY <1>2 DEF Stated
  <1>5. \A e \in Figures!Compared(filings[f.by]) : \E w \in P : w.end = e
    <2> SUFFICES ASSUME NEW e \in Figures!Compared(filings[f.by])
                 PROVE  \E w \in P : w.end = e
      OBVIOUS
    <2>1. PICK h \in Fit(Told("revenue"), "quarterly") : h.end = e
      BY <1>4, ToldIs
    <2>2. Told("revenue") \in SUBSET Figures!Facts("revenue")
      BY DEF Told
    <2> QED
      BY <2>1, <2>2, PointExists DEF Quarterlies
  <1>6. {p, p - 4} \subseteq Figures!Compared(filings[f.by])
    BY DEF Figures!Compared
  <1>7. PICK w \in P : w.end = p
    BY <1>5, <1>6
  <1>8. f.end = p
    BY <1>1, <1>3, <1>7 DEF Grows
  <1>9. \E u \in P : u.end = g.num.end - 4
    BY <1>1, <1>5, <1>6, <1>8
  <1> QED
    BY <1>9, QuarterlySpan, QuartersCompare

\* Under one tag there are all facts of revenue.
LEMMA OneTag ==
    ASSUME FilingsInv, ~Figures!Retagged
    PROVE  Told("revenue") = Figures!Facts("revenue")
  <1> DEFINE F == Figures!Facts("revenue")
  <1>1. \A f \in F : \E q \in Figures!Reported : f.tag = company.tags[q]
    BY FactIs DEF Stated, Figures!Reported
  <1>2. \A q \in Figures!Reported : company.tags[q] \in Nat
    BY FiguresAssumption, FilingType DEF FilingsInv
  <1>3. \A f, h \in F : f.tag = h.tag /\ f.tag \in Nat
    BY <1>1, <1>2 DEF Figures!Retagged
  <1>4. ASSUME NEW f \in F PROVE f.tag = Tag("revenue")
    <2>1. {h.tag : h \in F} = {f.tag}
      BY <1>3
    <2>2. f.tag <= f.tag
      BY <1>3
    <2> QED
      BY <2>1, <2>2 DEF Tag, Figures!Min
  <1> QED
    BY <1>4 DEF Told

LEMMA QuarterShown ==
    ASSUME FilingsInv, Told("revenue") = Figures!Facts("revenue"),
           NEW i \in DOMAIN filings, filings[i].form = "10-Q"
    PROVE  \E v \in Quarterlies("revenue") : v.end = filings[i].period
  <1>1. filings[i].period \in Figures!Compared(filings[i])
        /\ 1 \in Figures!Spans("revenue", filings[i])
    BY DEF Figures!Compared, Figures!Spans, Figures!Period
  <1>2. PICK f \in Figures!Facts("revenue") :
            f.end = filings[i].period /\ f.by = i /\ f.form = "10-Q"
    BY <1>1, FactExists
  <1>3. Figures!Allowed(f)
    BY <1>2 DEF Figures!Allowed
  <1>4. Figures!Frequency(f) = "quarterly"
    BY <1>2, <1>3, FactIs, FactKind
  <1>5. f \in Fit(Told("revenue"), "quarterly")
    BY <1>3, <1>4 DEF Fit
  <1>6. Told("revenue") \in SUBSET Figures!Facts("revenue")
    BY DEF Told
  <1> QED
    BY <1>2, <1>5, <1>6, PointExists DEF Quarterlies

\* Cash is told of no later quarter than the last that is reported in a 10-Q.
LEMMA CashEnds ==
    ASSUME FilingsInv, NEW v \in Quarterlies("cash")
    PROVE  \E i \in DOMAIN filings :
               /\ filings[i].form = "10-Q" /\ filings[i].period \in Int
               /\ v.end \in Int /\ v.end <= filings[i].period
  <1>1. PICK f \in Fit(Told("cash"), "quarterly") :
            v = [end |-> f.end, span |-> f.span, by |-> f.by]
    BY PointIs DEF PointOf, Quarterlies
  <1>2. /\ Stated("cash", f) /\ Figures!Allowed(f) /\ f.form = "10-Q"
    BY ToldIs, FactKind
  <1>3. /\ f.by \in DOMAIN filings /\ filings[f.by].form = "10-Q"
        /\ filings[f.by].period \in Int
    BY <1>2, FilingType DEF Stated
  <1>4. f.end \in {filings[f.by].period, filings[f.by].period - 4}
    BY <1>2, FactPeriod
  <1>5. \A p \in Int : \A e \in {p, p - 4} : e \in Int /\ e <= p
    OBVIOUS
  <1> QED
    BY <1>1, <1>3, <1>4, <1>5

\* What was stated last stays.
LEMMA LastStated ==
    ASSUME FilingsInv, Told("revenue") = Figures!Facts("revenue"),
           NEW v \in Quarterlies("revenue") \cup Annuals("revenue"),
           NEW f \in Figures!Facts("revenue"),
           f.end = v.end, f.span = v.span, Figures!Allowed(f)
    PROVE  f.by <= v.by
  <1>1. Stated("revenue", f) /\ f.form \in {"10-Q", "10-K", "20-F", "6-K"}
    BY FactIs, FactKind
  <1>2. ASSUME NEW frequency, v \in Figures!Points(Told("revenue"), frequency),
               Figures!Frequency(f) = frequency
        PROVE  f.by <= v.by
    <2>1. PICK g \in Fit(Told("revenue"), frequency) :
              /\ v = [end |-> g.end, span |-> g.span, by |-> g.by]
              /\ \A h \in Fit(Told("revenue"), frequency) :
                     h.end = g.end => ~Figures!Prevails(h, g)
      BY <1>2, PointIs DEF PointOf
    <2>2. f \in Fit(Told("revenue"), frequency)
      BY <1>2 DEF Fit
    <2>3. ~(f.by > g.by)
      BY <2>1, <2>2 DEF Figures!Prevails
    <2>4. f.by \in Int /\ g.by \in Int
      BY <1>1, ToldIs, FactType, FilingType
    <2> QED
      BY <2>1, <2>3, <2>4
  <1>3. CASE v \in Quarterlies("revenue")
    <2>1. f.span = 1
      BY <1>3, QuarterlySpan
    <2>2. f.form = "10-Q"
      BY <1>1, <2>1, FactPeriod
    <2> QED
      BY <1>1, <1>2, <1>3, <2>2, FactKind DEF Quarterlies
  <1>4. CASE v \in Annuals("revenue")
    <2>1. f.span = 4
      BY <1>4, AnnualSpan
    <2>2. f.form # "10-Q"
      <3>1. f.form = "10-Q" => f.span \in {1} \cup 1..3
        BY <1>1, FactPeriod
      <3> QED
        BY <2>1, <3>1
    <2>3. f.form \in {"10-K", "20-F"}
      BY <1>1, <2>1, <2>2, FactPeriod
    <2> QED
      BY <1>1, <1>2, <1>4, <2>3, FactKind DEF Annuals
  <1> QED
    BY <1>3, <1>4

\* The most recent quarter is that of the growth: cash is told of no later one.
LEMMA MostRecentIs ==
    ASSUME FilingsInv, Told("revenue") = Figures!Facts("revenue"),
           source.name = "sec_edgar", NEW g, Grows(g, Quarterlies("revenue")),
           g.num \in Figures!LastOf(Quarterlies("revenue"), 5)
    PROVE  Figures!MostRecent = g.num.end
  <1> DEFINE r == Figures!Series("revenue")
             c == Figures!Series("cash")
             quarterly == {s \in {r, c} : s.frequency = "quarterly"}
             ends == {v.end : v \in UNION {s.points : s \in quarterly}}
  <1>1. Figures!MostRecent = IF ends = {} THEN 0 ELSE Figures!Max(ends)
    BY DEF Figures!MostRecent
  <1>2. r = [frequency |-> "quarterly", points |-> Figures!LastOf(Quarterlies("revenue"), 5)]
    BY EdgarIs, RecentIs DEF Grows, Figures!Series
  <1>3. g.num.end \in ends
    BY <1>2
  <1>4. g.num.end \in Int /\ \A v \in Quarterlies("revenue") : v.end \in Int /\ v.end <= g.num.end
    BY DEF Grows
  <1>5. \A v \in Quarterlies("cash") : v.end \in Int /\ v.end <= g.num.end
    <2> SUFFICES ASSUME NEW v \in Quarterlies("cash")
                 PROVE  v.end \in Int /\ v.end <= g.num.end
      OBVIOUS
    <2>1. PICK i \in DOMAIN filings :
              /\ filings[i].form = "10-Q" /\ filings[i].period \in Int
              /\ v.end \in Int /\ v.end <= filings[i].period
      BY CashEnds
    <2>2. PICK w \in Quarterlies("revenue") : w.end = filings[i].period
      BY <2>1, QuarterShown
    <2> QED
      BY <1>4, <2>1, <2>2
  <1>6. c.frequency = "quarterly" => c.points \subseteq Quarterlies("cash")
    <2>1. c = Figures!EdgarSeries("cash")
      BY DEF Figures!Series
    <2>2. CASE Quarterlies("cash") # {}
      <3>1. c = [frequency |-> "quarterly", points |-> Figures!LastOf(Quarterlies("cash"), 5)]
        BY <2>1, <2>2, EdgarIs, RecentIs
      <3> QED
        BY <3>1, LastOfSubset
    <2>3. CASE Quarterlies("cash") = {}
      <3>1. c = Figures!Recent("annual", Annuals("cash"))
        BY <2>1, <2>3, EdgarIs
      <3>2. c.frequency # "quarterly"
        BY <3>1 DEF Figures!Recent, Figures!NoSeries
      <3> QED
        BY <3>2
    <2> QED
      BY <2>2, <2>3
  <1>7. r.points \subseteq Quarterlies("revenue")
    BY <1>2, LastOfSubset
  <1> HIDE DEF r, c
  <1>8. \A e \in ends : e \in Int /\ e <= g.num.end
    BY <1>4, <1>5, <1>6, <1>7
  <1> HIDE DEF ends
  <1>9. \A x \in ends : (\A y \in ends : x >= y) => x = g.num.end
    BY <1>3, <1>4, <1>8
  <1>10. \A y \in ends : g.num.end >= y
    BY <1>4, <1>8
  <1> QED
    BY <1>1, <1>3, <1>9, <1>10 DEF Figures!Max

\* What holds of EDGAR's growth if the tag stays.
Current(g) ==
    /\ \A i \in DOMAIN filings :
           filings[i].period > g.num.end => filings[i].form # "10-Q"
    /\ Figures!Series("revenue").frequency = "quarterly" => Figures!MostRecent = g.num.end
    /\ \A v \in {g.num, g.den} : \A f \in Figures!Facts("revenue") :
           f.end = v.end /\ f.span = v.span /\ Figures!Allowed(f) => f.by <= v.by

LEMMA EdgarGrowth ==
    ASSUME FilingsInv, source.name = "sec_edgar", NEW g \in Figures!Growths
    PROVE  Compares(g) /\ (~Figures!Retagged => Current(g))
  <1> DEFINE r == Figures!Series("revenue")
             Q == Quarterlies("revenue")
             A == Annuals("revenue")
  <1>1. r = Figures!EdgarSeries("revenue")
    BY DEF Figures!Series
  <1>2. CASE Q # {}
    <2>1. r = [frequency |-> "quarterly", points |-> Figures!LastOf(Q, 5)]
      BY <1>1, <1>2, EdgarIs, RecentIs
    <2>2. Grows(g, Q) /\ g.num \in Figures!LastOf(Q, 5)
      BY <2>1, EdgarLines, GrowthIs
    <2>3. ASSUME ~Figures!Retagged PROVE Current(g)
      <3>1. Told("revenue") = Figures!Facts("revenue")
        BY <2>3, OneTag
      <3>2. ASSUME NEW i \in DOMAIN filings, filings[i].form = "10-Q"
            PROVE  ~(filings[i].period > g.num.end)
        <4>1. PICK v \in Q : v.end = filings[i].period
          BY <3>1, <3>2, QuarterShown
        <4> QED
          BY <2>2, <4>1 DEF Grows
      <3>3. Figures!MostRecent = g.num.end
        BY <2>2, <3>1, MostRecentIs
      <3>4. g.num \in Q /\ g.den \in Q
        BY <2>2 DEF Grows
      <3> QED
        BY <3>1, <3>2, <3>3, <3>4, LastStated DEF Current
    <2> QED
      BY <2>2, <2>3, QuarterlyCompares
  <1>3. CASE Q = {} /\ A # {}
    <2>1. r = [frequency |-> "annual", points |-> Figures!LastOf(A, 5)]
      BY <1>1, <1>3, EdgarIs, RecentIs
    <2>2. Grows(g, A)
      BY <2>1, EdgarLines, GrowthIs
    <2>3. ASSUME ~Figures!Retagged PROVE Current(g)
      <3>1. Told("revenue") = Figures!Facts("revenue")
        BY <2>3, OneTag
      <3>2. \A i \in DOMAIN filings : filings[i].form # "10-Q"
        BY <1>3, <3>1, QuarterShown
      <3>3. r.frequency # "quarterly"
        BY <2>1
      <3>4. g.num \in A /\ g.den \in A
        BY <2>2 DEF Grows
      <3> QED
        BY <3>1, <3>2, <3>3, <3>4, LastStated DEF Current
    <2> QED
      BY <2>2, <2>3, AnnualSpan, YearsCompare
  <1>4. CASE Q = {} /\ A = {}
    <2>1. r = Figures!NoSeries
      BY <1>1, <1>4, EdgarIs, RecentIs
    <2> QED
      BY <2>1, NoGrowth DEF Figures!NoSeries
  <1> QED
    BY <1>2, <1>3, <1>4

LEMMA OtherGrowth ==
    ASSUME FilingsInv, source.name # "sec_edgar", NEW g \in Figures!Growths
    PROVE  Compares(g)
  <1> DEFINE r == Figures!Series("revenue")
             R == Figures!Statement(Figures!Reported, 1)
             Y == Figures!Statement(Figures!Years, 4)
  <1>1. ASSUME NEW n \in Nat, n >= 5, r.points = Figures!LastOf(Y, n) PROVE Compares(g)
    <2>1. Grows(g, Y)
      BY <1>1, YearsLine, GrowthIs
    <2> QED
      BY <2>1, YearsLine, YearsCompare
  <1>2. ASSUME r.points = Figures!LastOf(R, 5) PROVE Compares(g)
    <2>1. Line(R)
      BY StatementLine
    <2>2. Grows(g, R)
      BY <1>2, <2>1, GrowthIs
    <2> QED
      BY <2>2, YahooCompares
  <1>3. r.points # {}
    BY NoGrowth
  <1>4. r # Figures!NoSeries
    BY <1>3 DEF Figures!NoSeries
  <1>5. CASE source.name = "degiro"
    <2>1. r = Figures!DegiroSeries("revenue")
      BY <1>5 DEF Figures!Series
    <2>2. r.points = Figures!LastOf(Y, 7)
      BY <1>4, <2>1 DEF Figures!DegiroSeries
    <2> QED
      BY <1>1, <2>2
  <1>6. CASE source.name = "yfinance"
    <2>1. r = Figures!YahooSeries("revenue")
      BY <1>6 DEF Figures!Series
    <2>2. source.has["revenue"] \in {"quarterly", "annual", "none"}
      BY DEF FilingsInv, Figures!Sources, Figures!Concepts
    <2>3. r = Figures!Recent("quarterly", R) \/ r = Figures!Recent("annual", Y)
      BY <1>4, <2>1, <2>2 DEF Figures!YahooSeries
    <2>4. r.points = Figures!LastOf(R, 5) \/ r.points = Figures!LastOf(Y, 5)
      BY <1>4, <2>3 DEF Figures!Recent
    <2> QED
      BY <1>1, <1>2, <2>4
  <1> QED
    BY <1>5, <1>6 DEF FilingsInv, Figures!Sources

LEMMA GrowthSound ==
    ASSUME FilingsInv
    PROVE  Figures!GrowthComparesYears
  BY EdgarGrowth, OtherGrowth DEF Figures!GrowthComparesYears, Compares, Current

\* The growth of revenue that is told compares with the same period a year before, and
\* a margin that is said to be of quarters or of years divides figures of as many,
\* whatever is filed, amended and stated under another tag.
THEOREM PeriodsHold == MCSpec => []PeriodsAreLike
  <1> DEFINE Inv == part = "filings" => FilingsInv
  <1>1. MCInit => Inv
    BY InitFilings DEF MCInit
  <1>2. Inv /\ [MCNext]_<<part, vars, backtest, ranks, cards, reports>> => Inv'
    <2> SUFFICES ASSUME Inv, [MCNext]_<<part, vars, backtest, ranks, cards, reports>>,
                        part' = "filings"
                 PROVE  FilingsInv'
      OBVIOUS
    <2>1. part = "filings" /\ [Figures!Next]_(Figures!vars)
      BY DEF MCNext, reports, Figures!vars
    <2> QED
      BY <2>1, StepFilings
  <1>3. Inv => PeriodsAreLike
    BY GrowthSound, MarginsSound DEF PeriodsAreLike
  <1> QED
    BY <1>1, <1>2, <1>3, PTL DEF MCSpec

-----------------------------------------------------------------------------
(* What a card warns of.                                                     *)

Labels == {"strong", "neutral", "weak"}

LEMMA TechnicalIs == \A c : Cards!TechnicalLabel(c) \in Labels
  BY DEF Cards!TechnicalLabel, Labels

LEMMA StatusIs ==
    ASSUME NEW score
    PROVE  /\ Cards!Status(score) \in Labels \cup {"unavailable"}
           /\ score # Cards!None => Cards!Status(score) \in Labels
  BY DEF Cards!Status, Labels

LEMMA FundamentalsIs == \A s : Cards!FundamentalsLabel(s) \in Labels
  BY StatusIs DEF Cards!FundamentalsLabel, Labels

LEMMA ValuationIs ==
    \A s : Cards!ValuationLabel(s) \in {"cheap", "fair", "expensive", "unknown"}
  <1> SUFFICES ASSUME NEW s
               PROVE  Cards!ValuationLabel(s) \in {"cheap", "fair", "expensive", "unknown"}
    OBVIOUS
  <1> DEFINE weighed == IF Cards!Missing(s) THEN Cards!None
                        ELSE IF Cards!Profile(s) = "default" THEN Cards!None
                             ELSE Cards!SectorScore(s)
             status == Cards!Status(IF weighed # Cards!None THEN weighed
                                    ELSE Cards!PillarScore(s, "valuation"))
  <1>1. status \in Labels \cup {"unavailable"}
    BY StatusIs
  <1>2. Cards!ValuationLabel(s) =
            CASE status = "strong" -> "cheap"
              [] status = "neutral" -> "fair"
              [] status = "weak" -> "expensive"
              [] status = "unavailable" -> "unknown"
    BY DEF Cards!ValuationLabel
  <1> HIDE DEF status
  <1> QED
    BY <1>1, <1>2 DEF Labels

\* A company that has a sheet is not missing.
LEMMA SheetKnown ==
    ASSUME NEW s \in Sheet
    PROVE  /\ ~Cards!Missing(s)
           /\ LET good == [s EXCEPT !.coverage = "supported", !.freshness = "current",
                                    !.quality = "high"]
              IN  /\ ~Cards!Missing(good)
                  /\ good.coverage = "supported" /\ good.freshness = "current"
                  /\ good.quality = "high"
  <1>1. "pillar" \in DOMAIN s /\ "coverage" \in DOMAIN s /\ "freshness" \in DOMAIN s
        /\ "quality" \in DOMAIN s
    BY DEF Sheet
  <1>2. "pillar" \notin DOMAIN Cards!NoSnapshot
    BY DEF Cards!NoSnapshot
  <1> QED
    BY <1>1, <1>2 DEF Cards!Missing

\* What is taken off the points for the figures.
Penalty(s) ==
    LET coverage == [supported |-> 0, partial |-> -2, insufficient |-> -4, unsupported |-> -4]
    IN  IF Cards!Missing(s) THEN -2
        ELSE coverage[s.coverage] - (IF s.freshness = "stale" THEN 4 ELSE 0)
                                  - (IF s.quality = "low" THEN 2 ELSE 0)

LEMMA PenaltyIs ==
    ASSUME NEW t \in Labels, NEW f \in Labels,
           NEW v \in {"cheap", "fair", "expensive", "unknown"}
    PROVE  \E n \in Int : \A s : Penalty(s) \in Int =>
               Cards!Points(t, f, v, "weak", s) = n + Penalty(s)
  <1> DEFINE signal == [strong |-> 8, neutral |-> 4, weak |-> 0]
             price == [cheap |-> 2, fair |-> 1, expensive |-> -2, unknown |-> 0]
             n == signal[t] + signal[f] + price[v] - 1
  <1>1. signal[t] \in Int /\ signal[f] \in Int /\ price[v] \in Int
    BY DEF Labels
  <1>2. \A s : Cards!Points(t, f, v, "weak", s) =
                   signal[t] + signal[f] + price[v] + 0 + Penalty(s) - 1
    BY DEF Cards!Points, Penalty
  <1> HIDE DEF signal, price
  <1>3. n \in Int
    BY <1>1
  <1>4. \A s : Penalty(s) \in Int => Cards!Points(t, f, v, "weak", s) = n + Penalty(s)
    BY <1>1, <1>2
  <1> HIDE DEF n
  <1> QED
    BY <1>3, <1>4

Word == {"no_snapshot", "coverage", "stale", "quality", "months_old", "pillars",
         "no_catalysts", "no_rr", "manage_only"}

\* What is said of a reason, before what is said of the next.
Said(w) == w \in Seq(Word)

LEMMA Joining ==
    ASSUME NEW a, NEW b, Said(a), Said(b)
    PROVE  /\ Said(a \o b) /\ Len(a \o b) = Len(a) + Len(b)
           /\ Len(a) \in Nat /\ Len(b) \in Nat
           /\ a = <<>> => a \o b = b
           /\ Len(a) > 0 => (a \o b)[1] = a[1]
  BY DEF Said

LEMMA OneWord ==
    ASSUME NEW w \in Word
    PROVE  Said(<<w>>) /\ Len(<<w>>) = 1 /\ <<w>>[1] = w /\ Said(<<>>)
  BY DEF Said, Word

Serious == {"no_snapshot", "coverage", "stale", "quality"}

\* What is told of the first that has something to tell comes first.
LEMMA FirstTold ==
    ASSUME NEW a, NEW b, Said(a), Said(b),
           a # <<>> => a[1] \in Serious, b # <<>> => b[1] \in Serious
    PROVE  /\ Said(a \o b)
           /\ a \o b # <<>> => (a \o b)[1] \in Serious
           /\ a # <<>> \/ b # <<>> => a \o b # <<>>
  <1>1. CASE a = <<>>
    <2>1. a \o b = b
      BY <1>1, Joining
    <2> QED
      BY <1>1, <2>1
  <1>2. CASE a # <<>>
    <2>1. Len(a) > 0
      BY <1>2 DEF Said
    <2>2. Said(a \o b) /\ Len(a \o b) > 0 /\ (a \o b)[1] = a[1]
      BY <2>1, Joining
    <2> QED
      BY <1>2, <2>2
  <1> QED
    BY <1>1, <1>2

LEMMA ThenTold ==
    ASSUME NEW a, NEW b, Said(a), Said(b), a # <<>> => a[1] \in Serious
    PROVE  /\ Said(a \o b)
           /\ a # <<>> => a \o b # <<>> /\ (a \o b)[1] \in Serious
  <1>1. CASE a = <<>>
    BY <1>1, Joining
  <1>2. CASE a # <<>>
    <2>1. Len(a) > 0
      BY <1>2 DEF Said
    <2>2. Said(a \o b) /\ Len(a \o b) > 0 /\ (a \o b)[1] = a[1]
      BY <2>1, Joining
    <2> QED
      BY <1>2, <2>2
  <1> QED
    BY <1>1, <1>2

LEMMA FiveTold ==
    ASSUME NEW a, NEW b, NEW c, NEW d, NEW e,
           Said(a), Said(b), Said(c), Said(d), Said(e),
           a # <<>> => a[1] \in Serious, b # <<>> => b[1] \in Serious,
           c # <<>> => c[1] \in Serious
    PROVE  LET told == (((a \o b) \o c) \o d) \o e
           IN  /\ Said(told)
               /\ a # <<>> \/ b # <<>> \/ c # <<>> => told # <<>> /\ told[1] \in Serious
  <1>1. /\ Said(a \o b) /\ (a \o b # <<>> => (a \o b)[1] \in Serious)
        /\ a # <<>> \/ b # <<>> => a \o b # <<>>
    BY FirstTold
  <1>2. /\ Said((a \o b) \o c)
        /\ (a \o b) \o c # <<>> => ((a \o b) \o c)[1] \in Serious
        /\ a # <<>> \/ b # <<>> \/ c # <<>> => (a \o b) \o c # <<>>
    BY <1>1, FirstTold
  <1>0. PICK w : w = (a \o b) \o c
    OBVIOUS
  <1>3. Said(w \o d) /\ (w # <<>> => w \o d # <<>> /\ (w \o d)[1] \in Serious)
    <2>1. Said(w) /\ (w # <<>> => w[1] \in Serious)
      BY <1>0, <1>2
    <2> QED
      BY <2>1, ThenTold
  <1>4. /\ Said(((w \o d) \o e))
        /\ w # <<>> => (w \o d) \o e # <<>> /\ ((w \o d) \o e)[1] \in Serious
    <2>1. CASE w \o d = <<>>
      BY <1>3, <2>1, Joining
    <2>2. CASE w \o d # <<>> /\ w # <<>>
      BY <1>3, <2>2, ThenTold
    <2>3. CASE w = <<>>
      BY <1>3, <2>3, Joining
    <2> QED
      BY <2>1, <2>2, <2>3
  <1> QED
    BY <1>0, <1>2, <1>4

LEMMA DeficitsAre ==
    ASSUME NEW s
    PROVE  /\ Said(Cards!Deficits(s))
           /\ \/ Cards!Missing(s) \/ s.coverage # "supported"
              \/ s.freshness = "stale" \/ s.quality = "low"
              => Cards!Deficits(s) # <<>> /\ Cards!Deficits(s)[1] \in Serious
  <1>0. /\ {"no_snapshot", "coverage", "stale", "quality"} \subseteq Word
        /\ {"months_old", "pillars"} \subseteq Word
    BY DEF Word
  <1>1. CASE Cards!Missing(s)
    <2>1. Cards!Deficits(s) = <<"no_snapshot">>
      BY <1>1 DEF Cards!Deficits
    <2>2. /\ Said(<<"no_snapshot">>) /\ <<"no_snapshot">> # <<>>
          /\ <<"no_snapshot">>[1] = "no_snapshot"
      BY <1>0, OneWord
    <2> QED
      BY <1>1, <2>1, <2>2 DEF Serious
  <1>2. CASE ~Cards!Missing(s)
    <2>a. PICK a, b, c :
            /\ a = IF s.coverage # "supported" THEN <<"coverage">> ELSE <<>>
            /\ b = IF s.freshness = "stale" THEN <<"stale">> ELSE <<>>
            /\ c = IF s.quality = "low" THEN <<"quality">> ELSE <<>>
      OBVIOUS
    <2> DEFINE d == Cards!If(s.freshness_penalty > 1500, "months_old")
               e == Cards!If(s.coverage_penalty > 2500, "pillars")
    <2>2. Cards!Deficits(s) = (((a \o b) \o c) \o d) \o e
      BY <1>2, <2>a DEF Cards!Deficits, Cards!If
    <2>3. /\ Said(a) /\ (a # <<>> => a[1] \in Serious)
          /\ s.coverage # "supported" => a # <<>>
      BY <1>0, <2>a, OneWord DEF Serious
    <2>4. /\ Said(b) /\ (b # <<>> => b[1] \in Serious)
          /\ s.freshness = "stale" => b # <<>>
      BY <1>0, <2>a, OneWord DEF Serious
    <2>5. /\ Said(c) /\ (c # <<>> => c[1] \in Serious)
          /\ s.quality = "low" => c # <<>>
      BY <1>0, <2>a, OneWord DEF Serious
    <2>6. Said(d) /\ Said(e)
      BY <1>0, OneWord DEF Cards!If
    <2> QED
      BY <1>2, <2>2, <2>3, <2>4, <2>5, <2>6, FiveTold
  <1> QED
    BY <1>1, <1>2

LEMMA Appended ==
    ASSUME NEW W, NEW n \in Seq(W), NEW d \in Seq(W)
    PROVE  \A i \in 1 .. Len(n) + Len(d) :
               (n \o d)[i] = IF i <= Len(n) THEN n[i] ELSE d[i - Len(n)]
  OBVIOUS

LEMMA SecondOf ==
    ASSUME NEW n, NEW d, Said(n), Said(d), Len(n) = 1, d # <<>>
    PROVE  Said(n \o d) /\ Len(n \o d) >= 2 /\ (n \o d)[2] = d[1]
  <1>1. Len(d) \in Nat /\ Len(d) >= 1
    BY DEF Said
  <1>2. Said(n \o d) /\ Len(n \o d) = 1 + Len(d)
    BY Joining
  <1>3. \A i \in 1 .. Len(n) + Len(d) :
            (n \o d)[i] = IF i <= Len(n) THEN n[i] ELSE d[i - Len(n)]
    BY Appended DEF Said
  <1>4. 2 \in 1 .. Len(n) + Len(d)
    BY <1>1
  <1> QED
    BY <1>1, <1>2, <1>3, <1>4

LEMMA SecondStays ==
    ASSUME NEW u, NEW w, Said(u), Said(w), Len(u) >= 2
    PROVE  Said(u \o w) /\ Len(u \o w) >= 2 /\ (u \o w)[2] = u[2]
  BY DEF Said

\* The second warning is the first deficit.
LEMMA SecondWarning ==
    ASSUME NEW c, NEW s, Cards!Deficits(s) # <<>>
    PROVE  /\ 2 \in DOMAIN Cards!Warnings(c, s)
           /\ Cards!Warnings(c, s)[2] = Cards!Deficits(s)[1]
  <1>1. PICK n, d, r, m :
            /\ n = <<"no_catalysts">> /\ d = Cards!Deficits(s)
            /\ r = IF c.rr = Cards!None THEN <<"no_rr">> ELSE <<>>
            /\ m = IF c.mode = "MANAGE_ONLY" THEN <<"manage_only">> ELSE <<>>
    OBVIOUS
  <1>2. Cards!Warnings(c, s) = Cards!FirstTwo(((n \o d) \o r) \o m)
    BY <1>1 DEF Cards!Warnings, Cards!If
  <1>3. Said(n) /\ Len(n) = 1 /\ Said(d) /\ d # <<>> /\ Said(r) /\ Said(m)
    <2>1. {"no_rr", "manage_only", "no_catalysts"} \subseteq Word
      BY DEF Word
    <2> QED
      BY <1>1, <2>1, OneWord, DeficitsAre
  <1>4. PICK told : told = ((n \o d) \o r) \o m
    OBVIOUS
  <1>5. Said(told) /\ Len(told) >= 2 /\ told[2] = d[1]
    <2>1. Said(n \o d) /\ Len(n \o d) >= 2 /\ (n \o d)[2] = d[1]
      BY <1>3, SecondOf
    <2>2. /\ Said((n \o d) \o r) /\ Len((n \o d) \o r) >= 2
          /\ ((n \o d) \o r)[2] = d[1]
      BY <1>3, <2>1, SecondStays
    <2> QED
      BY <1>3, <1>4, <2>2, SecondStays
  <1>6. Len(told) \in Nat
    BY <1>5 DEF Said
  <1>7. Cards!Min({2, Len(told)}) = 2
    BY <1>5, <1>6 DEF Cards!Min
  <1>8. Cards!FirstTwo(told) = SubSeq(told, 1, 2)
    BY <1>7 DEF Cards!FirstTwo
  <1> QED
    BY <1>1, <1>2, <1>4, <1>5, <1>6, <1>8 DEF Said

\* What the screener says of a candidate.
LEMMA SummaryTells ==
    ASSUME NEW c, NEW known \in Sheet, NEW found \in {Cards!NoSnapshot, known},
           LET shown == Cards!Summary(c, found)
               points == Cards!Points(Cards!TechnicalLabel(c), Cards!FundamentalsLabel(known),
                             Cards!ValuationLabel(known), "weak",
                             [known EXCEPT !.coverage = "supported",
                                           !.freshness = "current", !.quality = "high"])
           IN  /\ shown.points < points
               /\ Cards!FundamentalsLabel(known) = shown.fundamentals
               /\ Cards!ValuationLabel(known) = shown.valuation
    PROVE  \E i \in DOMAIN Cards!Summary(c, found).warnings :
               Cards!Summary(c, found).warnings[i] \in Serious
  <1> DEFINE t == Cards!TechnicalLabel(c)
             f == Cards!FundamentalsLabel(found)
             v == Cards!ValuationLabel(found)
             good == [known EXCEPT !.coverage = "supported", !.freshness = "current",
                                   !.quality = "high"]
             shown == Cards!Summary(c, found)
  <1>1. /\ shown.fundamentals = f /\ shown.valuation = v
        /\ shown.warnings = Cards!Warnings(c, found)
        /\ shown.points = Cards!Points(t, f, v, "weak", found)
    BY DEF Cards!Summary, Cards!Decide
  <1>2. t \in Labels /\ f \in Labels /\ v \in {"cheap", "fair", "expensive", "unknown"}
    BY TechnicalIs, FundamentalsIs, ValuationIs
  <1>3. Cards!Points(t, f, v, "weak", found) < Cards!Points(t, f, v, "weak", good)
    BY <1>1
  <1>4. Penalty(good) = 0
    <2>1. /\ ~Cards!Missing(good) /\ good.coverage = "supported"
          /\ good.freshness = "current" /\ good.quality = "high"
      BY SheetKnown
    <2> HIDE DEF good
    <2> QED
      BY <2>1 DEF Penalty
  <1>5. PICK n \in Int : \A s : Penalty(s) \in Int =>
                             Cards!Points(t, f, v, "weak", s) = n + Penalty(s)
    <2> HIDE DEF t, f, v
    <2> QED
      BY <1>2, PenaltyIs
  <1>6. CASE Cards!Missing(found)
    BY <1>1, <1>6, DeficitsAre, SecondWarning
  <1>7. CASE ~Cards!Missing(found)
    <2>1. found \in Sheet
      BY <1>7 DEF Cards!Missing
    <2>2. found.coverage \in {"supported", "partial", "insufficient", "unsupported"}
      BY <2>1 DEF Sheet
    <2>3. Penalty(found) \in Int
      BY <1>7, <2>2 DEF Penalty
    <2>4. Penalty(found) < 0
      <3> HIDE DEF t, f, v, good
      <3> QED
        BY <1>3, <1>4, <1>5, <2>3
    <2>5. found.coverage # "supported" \/ found.freshness = "stale" \/ found.quality = "low"
      BY <1>7, <2>4 DEF Penalty
    <2> QED
      BY <1>1, <2>5, DeficitsAre, SecondWarning
  <1> QED
    BY <1>6, <1>7

-----------------------------------------------------------------------------
(* What the server and the browser make of a sheet.                          *)

Unknown == -999999

Scored(x) == x = Unknown \/ (x \in Nat /\ x <= 10000)

LEMMA SheetType ==
    ASSUME NEW s \in Sheets
    PROVE  /\ s \in Sheet /\ ~Cards!Missing(s)
           /\ \A p \in {"growth", "profitability", "balance_sheet", "cash_flow", "valuation"} :
                  Scored(s.pillar[p])
           /\ \A m \in {"trailing_pe", "price_to_sales", "price_to_book"} :
                  s.multiples[m] \in Int
           /\ s.book \in Int /\ SharePrice \in Nat /\ SharePrice >= 10
           /\ s.book # Unknown /\ s.book <= 0 => s.multiples["price_to_book"] \notin 1..100
  <1>1. s \in Sheet
    BY CardsAssumption
  <1>2. /\ DOMAIN Scores!Pillars = {"growth", "profitability", "balance_sheet", "cash_flow",
                                   "valuation"}
        /\ Scores!Pillars["valuation"] = {"trailing_pe", "price_to_sales", "price_to_book"}
    BY DEF Scores!Pillars
  <1>3. s.pillar \in [DOMAIN Scores!Pillars -> Score]
    BY <1>1 DEF Sheet
  <1>4. s.multiples \in [Scores!Pillars["valuation"] -> Int] /\ s.book \in Int
    BY <1>1 DEF Sheet
  <1>5. \A p \in DOMAIN Scores!Pillars : Scored(s.pillar[p])
    <2>1. \A x \in Score : Scored(x)
      <3> DEFINE top == Scores!One
                 none == Scores!None
      <3>1. top = 10000 /\ none = Unknown
        BY DEF Scores!One, Scores!None, Unknown
      <3>2. Score = (0 .. top) \cup {none}
        BY DEF Score
      <3> HIDE DEF top, none
      <3> SUFFICES ASSUME NEW x \in Score PROVE Scored(x)
        OBVIOUS
      <3>3. top \in Nat /\ none = Unknown
        BY <3>1
      <3>4. x = Unknown \/ (x \in Nat /\ x <= top)
        BY <3>2, <3>3
      <3> QED
        BY <3>1, <3>4 DEF Scored
    <2> QED
      BY <1>3, <2>1
  <1>6. \A m \in Scores!Pillars["valuation"] : s.multiples[m] \in Int
    BY <1>4
  <1>7. s.book # Unknown /\ s.book <= 0 => s.multiples["price_to_book"] \notin 1..100
    BY WorthAssumption DEF Scores!None, Unknown
  <1> QED
    BY <1>1, <1>2, <1>4, <1>5, <1>6, <1>7, SheetKnown, CardsAssumption, WorthAssumption

Allowing(s, b) ==
    [earnings |-> s.multiples["trailing_pe"] # Cards!None
                  /\ s.multiples["trailing_pe"] \in 1..800,
     sales |-> s.multiples["price_to_sales"] # Cards!None
               /\ s.multiples["price_to_sales"] \in 1..200,
     book |-> b # Cards!None /\ b > 0]

Order(s) == Cards!MethodOrder(Cards!Profile(s))

Fitting(s, b) == {i \in 1..3 : Allowing(s, b)[Order(s)[i]]}

Method(s, b) == Order(s)[Cards!Min(Fitting(s, b))]

Grade(s) == Cards!Mean([p \in Cards!Quality |-> s.pillar[p]])

Rated(s, p) == Cards!OrElse(s.pillar[p], Grade(s))

Growing(s) ==
    IF Cards!Profile(s) = "mature_cashflow" /\ s.pillar["cash_flow"] # Cards!None
    THEN Cards!Max({Rated(s, "growth"), s.pillar["cash_flow"]}) ELSE Rated(s, "growth")

LEMMA EstimateIs ==
    ASSUME NEW s, NEW b
    PROVE  Cards!Estimate(s, b) =
             IF Grade(s) = Cards!None \/ Fitting(s, b) = {} THEN Cards!NoEstimate
             ELSE CASE Method(s, b) = "earnings" ->
                           Cards!FromEarnings(s.multiples["trailing_pe"], Grade(s), Growing(s))
                    [] Method(s, b) = "sales" ->
                           Cards!FromSales(s.multiples["price_to_sales"], Grade(s), Growing(s))
                    [] Method(s, b) = "book" ->
                           Cards!FromBook(b, Grade(s), Rated(s, "profitability"),
                                          Rated(s, "balance_sheet"))
  BY DEF Cards!Estimate, Grade, Fitting, Method, Growing, Rated, Order, Allowing

LEMMA OrderIs ==
    ASSUME NEW s
    PROVE  \A i \in 1..3 : Order(s)[i] \in {"earnings", "sales", "book"}
  BY DEF Order, Cards!MethodOrder

LEMMA Fittings ==
    ASSUME NEW s, NEW b, Fitting(s, b) # {}
    PROVE  /\ Method(s, b) \in {"earnings", "sales", "book"}
           /\ Allowing(s, b)[Method(s, b)]
  <1>1. Fitting(s, b) \subseteq 1..3
    BY DEF Fitting
  <1>2. \E x \in Fitting(s, b) : \A y \in Fitting(s, b) : x <= y
    <2>1. CASE 1 \in Fitting(s, b)
      BY <1>1, <2>1
    <2>2. CASE 1 \notin Fitting(s, b) /\ 2 \in Fitting(s, b)
      <3>1. \A y \in Fitting(s, b) : 2 <= y
        BY <1>1, <2>2
      <3> QED
        BY <2>2, <3>1
    <2>3. CASE 1 \notin Fitting(s, b) /\ 2 \notin Fitting(s, b)
      <3>1. Fitting(s, b) = {3}
        BY <1>1, <2>3
      <3> QED
        BY <3>1
    <2> QED
      BY <2>1, <2>2, <2>3
  <1>3. Cards!Min(Fitting(s, b)) \in Fitting(s, b)
    BY <1>2 DEF Cards!Min
  <1>4. Cards!Min(Fitting(s, b)) \in 1..3 /\ Allowing(s, b)[Method(s, b)]
    BY <1>3 DEF Fitting, Method
  <1> QED
    BY <1>4, OrderIs DEF Method

\* Of what a share owns only a positive value matters.
LEMMA BooksAgree ==
    ASSUME NEW s, NEW b, NEW c, ~(b # Cards!None /\ b > 0), ~(c # Cards!None /\ c > 0)
    PROVE  Cards!Estimate(s, b) = Cards!Estimate(s, c)
  <1>1. Allowing(s, b) = Allowing(s, c) /\ Allowing(s, b).book = FALSE
    BY Zenon DEF Allowing
  <1>2. Fitting(s, b) = Fitting(s, c)
    BY <1>1 DEF Fitting
  <1>3. Method(s, b) = Method(s, c)
    BY <1>2 DEF Method
  <1>4. CASE Fitting(s, b) = {}
    BY <1>2, <1>4, EstimateIs
  <1>5. CASE Fitting(s, b) # {}
    <2>1. Method(s, b) \in {"earnings", "sales"}
      BY <1>1, <1>5, Fittings
    <2> QED
      BY <1>2, <1>3, <2>1, EstimateIs
  <1> QED
    BY <1>4, <1>5

LEMMA SameEstimate ==
    ASSUME NEW s \in Sheets
    PROVE  Cards!LocalFairValue(s) = Cards!Estimate(s, Cards!ServerBook(s))
  <1>1. s.book \in Int
        /\ (s.book # Unknown /\ s.book <= 0 => s.multiples["price_to_book"] \notin 1..100)
    BY SheetType
  <1>2. CASE s.book = Cards!None \/ s.book > 0
    <2>1. Cards!ServerBook(s) = Cards!LocalBook(s)
      BY <1>2 DEF Cards!ServerBook, Cards!LocalBook, Cards!None, Unknown
    <2> QED
      BY <2>1 DEF Cards!LocalFairValue
  <1>3. CASE ~(s.book = Cards!None \/ s.book > 0)
    <2>1. Cards!LocalBook(s) = Cards!None
      BY <1>1, <1>3 DEF Cards!LocalBook, Cards!None, Unknown
    <2>2. Cards!ServerBook(s) = s.book
      BY <1>3 DEF Cards!ServerBook
    <2> QED
      BY <1>3, <2>1, <2>2, BooksAgree DEF Cards!LocalFairValue
  <1> QED
    BY <1>2, <1>3

-----------------------------------------------------------------------------
(* An estimate is not rounded to nothing.                                    *)

LEMMA MeanType ==
    ASSUME NEW f, IsFiniteSet(DOMAIN f), \A x \in DOMAIN f : Scored(f[x])
    PROVE  Cards!Mean(f) = Unknown \/ Cards!Mean(f) \in Nat
  <1> DEFINE known == {n \in DOMAIN f : f[n] # Cards!None}
             sum == SumFunctionOnSet(f, known)
             count == Cardinality(known)
  <1>1. Cards!Mean(f) = IF known = {} THEN Cards!None ELSE sum \div count
    BY DEF Cards!Mean, Cards!SumFunctionOnSet, Cards!FoldFunctionOnSet, Cards!MapThenFoldSet,
           SumFunctionOnSet, FoldFunctionOnSet, MapThenFoldSet, Cards!Cardinality, Cardinality
  <1>2. IsFiniteSet(known)
    BY FS_Subset
  <1>3. \A n \in known : f[n] \in Nat
    BY DEF Scored, Cards!None, Unknown
  <1>4. sum \in Nat
    BY <1>2, <1>3, SumType
  <1>5. count \in Nat /\ (known # {} => count # 0)
    BY <1>2, FS_CardinalityType, FS_EmptySet
  <1>6. Cards!None = Unknown
    BY DEF Cards!None, Unknown
  <1> HIDE DEF known, sum, count
  <1> QED
    BY <1>1, <1>4, <1>5, <1>6

LEMMA Larger ==
    ASSUME NEW a \in Int, NEW b \in Int
    PROVE  Cards!Max({a, b}) = IF a >= b THEN a ELSE b
  BY DEF Cards!Max

LEMMA Smaller ==
    ASSUME NEW a \in Int, NEW b \in Int
    PROVE  Cards!Min({a, b}) = IF a <= b THEN a ELSE b
  BY DEF Cards!Min

LEMMA Clamped ==
    ASSUME NEW n \in Int, NEW low \in Int, NEW high \in Int
    PROVE  Cards!Clamp(n, low, high) \in Int /\ Cards!Clamp(n, low, high) >= low
  <1> DEFINE less == Cards!Min({high, n})
  <1>1. less \in Int
    BY Smaller
  <1>2. Cards!Clamp(n, low, high) = Cards!Max({low, less})
    BY DEF Cards!Clamp
  <1> HIDE DEF less
  <1> QED
    BY <1>1, <1>2, Larger

LEMMA FourFinite ==
    ASSUME NEW a, NEW b, NEW c, NEW d
    PROVE  IsFiniteSet({a, b, c, d})
  <1>1. IsFiniteSet({a})
    BY FS_Singleton
  <1>2. IsFiniteSet({a} \cup {b})
    BY <1>1, FS_AddElement
  <1>3. IsFiniteSet(({a} \cup {b}) \cup {c})
    BY <1>2, FS_AddElement
  <1>4. IsFiniteSet((({a} \cup {b}) \cup {c}) \cup {d})
    BY <1>3, FS_AddElement
  <1>5. {a, b, c, d} = (({a} \cup {b}) \cup {c}) \cup {d}
    OBVIOUS
  <1> QED
    BY <1>4, <1>5

LEMMA Grading ==
    ASSUME NEW s \in Sheets, Grade(s) # Cards!None
    PROVE  /\ Grade(s) \in Int /\ Growing(s) \in Int
           /\ \A p \in {"growth", "profitability", "balance_sheet"} : Rated(s, p) \in Int
  <1>0. Cards!None = Unknown /\ Unknown \in Int
    BY DEF Cards!None, Unknown
  <1>1. Cards!Quality = {"growth", "profitability", "balance_sheet", "cash_flow"}
    BY DEF Cards!Quality, Cards!Pillars
  <1>2. \A p \in {"growth", "profitability", "balance_sheet", "cash_flow"} :
            Scored(s.pillar[p])
    BY SheetType
  <1>3. IsFiniteSet(Cards!Quality)
    BY <1>1, FourFinite
  <1>4. Grade(s) = Unknown \/ Grade(s) \in Nat
    <2> DEFINE f == [p \in Cards!Quality |-> s.pillar[p]]
    <2>1. \A x \in DOMAIN f : Scored(f[x])
      BY <1>1, <1>2
    <2>2. IsFiniteSet(DOMAIN f)
      BY <1>3
    <2>3. Grade(s) = Cards!Mean(f)
      BY DEF Grade
    <2> HIDE DEF f
    <2> QED
      BY <2>1, <2>2, <2>3, MeanType
  <1>5. \A p \in {"growth", "profitability", "balance_sheet", "cash_flow"} :
            s.pillar[p] \in Int
    BY <1>0, <1>2 DEF Scored
  <1>6. \A p \in {"growth", "profitability", "balance_sheet"} : Rated(s, p) \in Int
    BY <1>0, <1>4, <1>5 DEF Rated, Cards!OrElse
  <1>7. Growing(s) \in Int
    <2> DEFINE rated == Rated(s, "growth")
               cash == s.pillar["cash_flow"]
    <2>1. rated \in Int /\ cash \in Int
      BY <1>5, <1>6
    <2>2. Growing(s) = rated \/ Growing(s) = Cards!Max({rated, cash})
      BY DEF Growing
    <2> HIDE DEF rated, cash
    <2> QED
      BY <2>1, <2>2, Larger
  <1> QED
    BY <1>0, <1>4, <1>6, <1>7

LEMMA Times ==
    ASSUME NEW a \in Nat, NEW b \in Nat, NEW c \in Nat, NEW d \in Nat, a >= c, b >= d
    PROVE  a * b >= c * d /\ a * b \in Nat
  OBVIOUS

LEMMA NotNothing ==
    ASSUME NEW n \in Nat, NEW d \in Nat, d > 0, 2 * n >= d
    PROVE  Cards!Rounded(n, d) # 0
  <1>1. (2 * n + d) \div (2 * d) # 0
    OBVIOUS
  <1> QED
    BY <1>1 DEF Cards!Rounded

LEMMA EstimateStands ==
    ASSUME NEW s \in Sheets, NEW b \in Int, Cards!Estimate(s, b) # Cards!NoEstimate
    PROVE  Cards!Estimate(s, b).base # 0
  <1> DEFINE pe == s.multiples["trailing_pe"]
             ps == s.multiples["price_to_sales"]
             grade == Grade(s)
             growing == Growing(s)
             profit == Rated(s, "profitability")
             balance == Rated(s, "balance_sheet")
  <1>1. grade # Cards!None /\ Fitting(s, b) # {}
    BY EstimateIs
  <1>2. /\ grade \in Int /\ growing \in Int /\ profit \in Int /\ balance \in Int
    BY <1>1, Grading
  <1>3. /\ Method(s, b) \in {"earnings", "sales", "book"}
        /\ Allowing(s, b)[Method(s, b)]
    BY <1>1, Fittings
  <1>4. pe \in Int /\ ps \in Int /\ SharePrice \in Nat /\ SharePrice >= 10
    BY SheetType
  <1>5. Cards!One = 10000
    BY DEF Cards!One
  <1>6. CASE Method(s, b) = "earnings"
    <2>1. pe \in 1..800
      <3>1. Allowing(s, b)["earnings"]
        BY <1>3, <1>6
      <3>2. Allowing(s, b)["earnings"] = (pe # Cards!None /\ pe \in 1..800)
        BY Zenon DEF Allowing
      <3> HIDE DEF pe, ps
      <3> QED
        BY <3>1, <3>2, Zenon
    <2>2. Cards!Estimate(s, b) = Cards!FromEarnings(pe, grade, growing)
      BY <1>1, <1>6, EstimateIs
    <2> HIDE DEF pe, grade, growing
    <2> DEFINE scored == 12 * Cards!One + 12 * grade + 4 * growing
               least == 10 * Cards!One
               most == 32 * Cards!One
               base == Cards!Clamp(scored, least, most)
    <2>0. scored \in Int /\ least = 100000 /\ most \in Int
      BY <1>2, <1>5
    <2>3. base \in Int /\ base >= 100000
      <3>1. scored \in Int /\ least \in Int /\ most \in Int
        BY <2>0
      <3> HIDE DEF scored, least, most
      <3>2. base \in Int /\ base >= least
        <4> SUFFICES Cards!Clamp(scored, least, most) \in Int
                     /\ Cards!Clamp(scored, least, most) >= least
          BY Zenon
        <4> QED
          BY ONLY <3>1, Clamped, Zenon
      <3> QED
        BY <2>0, <3>2
    <2>4. Cards!Estimate(s, b).base =
              Cards!Rounded(SharePrice * 10 * base, pe * Cards!One)
      BY <2>2 DEF Cards!FromEarnings, Cards!Range3
    <2> HIDE DEF base
    <2>5. SharePrice * 10 * base >= 100 * 100000 /\ SharePrice * 10 * base \in Nat
      BY <1>4, <2>3, Times
    <2>6. pe * Cards!One \in Nat /\ pe * Cards!One > 0 /\ pe * Cards!One <= 8000000
      BY <1>5, <2>1
    <2> QED
      BY <2>4, <2>5, <2>6, NotNothing
  <1>7. CASE Method(s, b) = "sales"
    <2>1. ps \in 1..200
      <3>1. Allowing(s, b)["sales"]
        BY <1>3, <1>7
      <3>2. Allowing(s, b)["sales"] = (ps # Cards!None /\ ps \in 1..200)
        BY Zenon DEF Allowing
      <3> HIDE DEF pe, ps
      <3> QED
        BY <3>1, <3>2, Zenon
    <2>2. Cards!Estimate(s, b) = Cards!FromSales(ps, grade, growing)
      BY <1>1, <1>7, EstimateIs
    <2> HIDE DEF ps, grade, growing
    <2> DEFINE scored == 15000 + 3 * grade + (3 * growing) \div 2
               least == Cards!One
               most == 8 * Cards!One
               base == Cards!Clamp(scored, least, most)
    <2>0. scored \in Int /\ least = 10000 /\ most \in Int
      BY <1>2, <1>5
    <2>3. base \in Int /\ base >= 10000
      <3>1. scored \in Int /\ least \in Int /\ most \in Int
        BY <2>0
      <3> HIDE DEF scored, least, most
      <3>2. base \in Int /\ base >= least
        <4> SUFFICES Cards!Clamp(scored, least, most) \in Int
                     /\ Cards!Clamp(scored, least, most) >= least
          BY Zenon
        <4> QED
          BY ONLY <3>1, Clamped, Zenon
      <3> QED
        BY <2>0, <3>2
    <2>4. Cards!Estimate(s, b).base =
              Cards!Rounded(SharePrice * 10 * base, ps * Cards!One)
      BY <2>2 DEF Cards!FromSales, Cards!Range3
    <2> HIDE DEF base
    <2>5. SharePrice * 10 * base >= 100 * 10000 /\ SharePrice * 10 * base \in Nat
      BY <1>4, <2>3, Times
    <2>6. ps * Cards!One \in Nat /\ ps * Cards!One > 0 /\ ps * Cards!One <= 2000000
      BY <1>5, <2>1
    <2> QED
      BY <2>4, <2>5, <2>6, NotNothing
  <1>8. CASE Method(s, b) = "book"
    <2>1. b > 0
      <3>1. Allowing(s, b)["book"]
        BY <1>3, <1>8
      <3>2. Allowing(s, b)["book"] = (b # Cards!None /\ b > 0)
        BY Zenon DEF Allowing
      <3> HIDE DEF pe, ps
      <3> QED
        BY <3>1, <3>2, Zenon
    <2>2. Cards!Estimate(s, b) = Cards!FromBook(b, grade, profit, balance)
      BY <1>1, <1>8, EstimateIs
    <2> HIDE DEF grade, profit, balance
    <2> DEFINE weighed == (75 * grade + 125 * profit + 85 * balance) \div 100
               scored == 9000 + weighed
               least == 8000
               most == 45000
               base == Cards!Clamp(scored, least, most)
    <2>0. scored \in Int /\ least = 8000 /\ most \in Int
      <3>1. weighed \in Int
        BY <1>2
      <3> HIDE DEF weighed
      <3> QED
        BY <3>1
    <2>3. base \in Int /\ base >= 8000
      <3>1. scored \in Int /\ least \in Int /\ most \in Int
        BY <2>0
      <3> HIDE DEF scored, least, most
      <3>2. base \in Int /\ base >= least
        <4> SUFFICES Cards!Clamp(scored, least, most) \in Int
                     /\ Cards!Clamp(scored, least, most) >= least
          BY Zenon
        <4> QED
          BY ONLY <3>1, Clamped, Zenon
      <3> QED
        BY <2>0, <3>2
    <2>4. Cards!Estimate(s, b).base = Cards!Rounded(b * base, Cards!One)
      BY <2>2 DEF Cards!FromBook, Cards!Range3
    <2> HIDE DEF base
    <2>5. b * base >= 1 * 8000 /\ b * base \in Nat
      BY <2>1, <2>3, Times
    <2> QED
      BY <1>5, <2>4, <2>5, NotNothing
  <1> QED
    BY <1>3, <1>6, <1>7, <1>8

LEMMA SameWorth ==
    ASSUME NEW s \in Sheets
    PROVE  Cards!LocalFairValue(s) = Cards!FairValue(s)
  <1> DEFINE e == Cards!Estimate(s, Cards!ServerBook(s))
  <1>1. Cards!ServerBook(s) \in Int
    <2>1. /\ s.book \in Int /\ s.multiples["price_to_book"] \in Int /\ SharePrice \in Nat
          /\ Cards!None \in Int
      BY SheetType DEF Cards!None
    <2> QED
      BY <2>1 DEF Cards!ServerBook
  <1>2. e # Cards!NoEstimate => e.base # 0
    BY <1>1, EstimateStands
  <1>3. Cards!FairValue(s) = e
    BY <1>2, SheetType DEF Cards!FairValue
  <1> QED
    BY <1>3, SameEstimate

-----------------------------------------------------------------------------
(* The label of the server and that of the browser.                          *)

\* A multiple that is weighed, by its worth.
Worth(s, w) ==
    IF s.multiples[w[1]] = Cards!None THEN Cards!None
    ELSE Cards!Portion(s.multiples[w[1]], w[2], w[3])

LEMMA SameWeighing ==
    ASSUME NEW s \in Sheets, s.pillar["growth"] # 0, s.pillar["cash_flow"] # 0
    PROVE  Cards!LocalWeighing(s) = Cards!Weighing(s)
  <1>1. ~Cards!Missing(s)
    BY SheetType
  <1>2. \A p \in {"growth", "cash_flow"} :
            Cards!Leaning(Cards!PillarScore(s, p)) = Cards!OrElse(s.pillar[p], 5500)
    BY <1>1 DEF Cards!Leaning, Cards!PillarScore, Cards!OrElse
  <1> DEFINE growth == Cards!OrElse(s.pillar["growth"], 5500)
             cash == Cards!OrElse(s.pillar["cash_flow"], 5500)
  <1>3. /\ Cards!Leaning(Cards!PillarScore(s, "growth")) = growth
        /\ Cards!Leaning(Cards!PillarScore(s, "cash_flow")) = cash
    BY <1>2
  <1> HIDE DEF growth, cash
  <1> QED
    BY <1>3 DEF Cards!LocalWeighing, Cards!Weighing, growth, cash

LEMMA SameScore ==
    ASSUME NEW s
    PROVE  LET w == Cards!Weighing(s)
           IN  Cards!SectorScore(s) =
                   Cards!Mean(<<Worth(s, w[1]), Worth(s, w[1]), Worth(s, w[2])>>)
  <1> DEFINE w == Cards!Weighing(s)
             e == Worth(s, w[1])
             f == Worth(s, w[2])
             scores == [i \in 1..3 |-> Worth(s, w[IF i = 3 THEN 2 ELSE 1])]
  <1>1. Cards!SectorScore(s) = Cards!Mean(scores)
    BY DEF Cards!SectorScore, Worth
  <1>2. scores = [i \in 1..3 |-> IF i = 3 THEN f ELSE e]
    OBVIOUS
  <1> HIDE DEF e, f
  <1>3. [i \in 1..3 |-> IF i = 3 THEN f ELSE e] = <<e, e, f>>
    OBVIOUS
  <1> QED
    BY <1>1, <1>2, <1>3 DEF e, f

LEMMA SameLabel ==
    ASSUME NEW s \in Sheets, s.pillar["growth"] # 0, s.pillar["cash_flow"] # 0
    PROVE  Cards!LocalLabel(s) = Cards!ValuationLabel(s)
  <1> DEFINE w == Cards!Weighing(s)
             weighed == IF Cards!Profile(s) = "default" THEN Cards!None
                        ELSE Cards!SectorScore(s)
             status == Cards!Status(IF weighed # Cards!None THEN weighed
                                    ELSE s.pillar["valuation"])
  <1>1. ~Cards!Missing(s)
    BY SheetType
  <1>2. Cards!ValuationLabel(s) =
            CASE status = "strong" -> "cheap"
              [] status = "neutral" -> "fair"
              [] status = "weak" -> "expensive"
              [] status = "unavailable" -> "unknown"
    BY <1>1 DEF Cards!ValuationLabel, Cards!PillarScore
  <1>3. weighed = IF Cards!Profile(s) = "default" THEN Cards!None
                  ELSE Cards!Mean(<<Worth(s, w[1]), Worth(s, w[1]), Worth(s, w[2])>>)
    BY SameScore
  <1>4. Cards!LocalLabel(s) =
            [strong |-> "cheap", neutral |-> "fair", weak |-> "expensive",
             unavailable |-> "unknown"][status]
    <2> DEFINE local == IF Cards!Profile(s) = "default" THEN Cards!None
                        ELSE Cards!Mean(<<Worth(s, w[1]), Worth(s, w[1]), Worth(s, w[2])>>)
               shown == Cards!Status(IF local # Cards!None THEN local
                                     ELSE s.pillar["valuation"])
    <2>1. Cards!LocalWeighing(s) = w
      BY SameWeighing
    <2>2. Cards!LocalLabel(s) =
              [strong |-> "cheap", neutral |-> "fair", weak |-> "expensive",
               unavailable |-> "unknown"][shown]
      BY <2>1 DEF Cards!LocalLabel, Worth
    <2>3. shown = status
      BY <1>3
    <2> HIDE DEF shown, status
    <2> QED
      BY <2>2, <2>3
  <1>5. status \in Labels \cup {"unavailable"}
    BY StatusIs
  <1> HIDE DEF status
  <1> QED
    BY <1>2, <1>4, <1>5 DEF Labels

-----------------------------------------------------------------------------
(* The card, from the screener to its opening.                               *)

\* A card says what was made of the snapshot there was; once seen, it says of the sheet
\* what the server says, but for a label that may be the browser's.
Shown ==
    /\ card.fair = Cards!FairValue(sheet)
    /\ card.valuation \in {Cards!ValuationLabel(sheet), Cards!LocalLabel(sheet)}

CardInv ==
    IF part = "card"
    THEN /\ sheet \in Sheets
         /\ card # Cards!NoCard =>
                IF card.seen THEN Shown
                ELSE \E found \in {Cards!NoSnapshot, sheet} :
                         card = Cards!Summary(setup, found)
    ELSE card = Cards!NoCard

LEMMA InitCard == MCInit => CardInv
  BY DEF MCInit, Cards!Init, CardInv

LEMMA StepCard ==
    ASSUME CardInv, [MCNext]_<<part, vars, backtest, ranks, cards, reports>>
    PROVE  CardInv'
  <1>1. part' = part
    BY DEF MCNext
  <1>2. CASE part = "card" /\ Cards!Next
    <2>1. CASE Cards!Screen
      <3>1. \A found : Cards!Summary(setup, found).seen = FALSE
        BY DEF Cards!Summary
      <3> QED
        BY <1>1, <1>2, <2>1, <3>1 DEF CardInv, Cards!Screen
    <2>2. CASE Cards!Open
      <3>1. PICK found \in {Cards!NoSnapshot, sheet} : card = Cards!Summary(setup, found)
        BY <1>2, <2>2 DEF CardInv, Cards!Open
      <3>2. /\ "seen" \in DOMAIN card /\ "valuation" \in DOMAIN card
            /\ "fair" \in DOMAIN card
            /\ card.fair = Cards!FairValue(found)
            /\ card.valuation = Cards!ValuationLabel(found)
        BY <3>1 DEF Cards!Summary, Cards!Decide
      <3>3. sheet \in Sheets /\ sheet' = sheet
        BY <1>2, <2>2 DEF CardInv, Cards!Open
      <3>4. card' # Cards!NoCard => card'.seen = TRUE
        BY <2>2, <3>2 DEF Cards!Open
      <3>5. Shown'
        <4>1. CASE card.fair # Cards!NoEstimate
          <5>1. found = sheet
            BY <3>2, <4>1 DEF Cards!FairValue, Cards!Missing
          <5>2. card'.fair = card.fair /\ card'.valuation = card.valuation
            BY <2>2, <3>2, <4>1 DEF Cards!Open
          <5> QED
            BY <3>2, <3>3, <5>1, <5>2 DEF Shown
        <4>2. CASE card.fair = Cards!NoEstimate
          <5>1. /\ card'.fair = Cards!LocalFairValue(sheet)
                /\ card'.valuation = Cards!LocalLabel(sheet)
            BY <2>2, <3>2, <4>2 DEF Cards!Open
          <5> QED
            BY <3>3, <5>1, SameWorth DEF Shown
        <4> QED
          BY <4>1, <4>2
      <3> QED
        BY <1>1, <1>2, <3>3, <3>4, <3>5 DEF CardInv
    <2> QED
      BY <1>2, <2>1, <2>2 DEF Cards!Next
  <1>3. CASE ~(part = "card" /\ Cards!Next)
    <2>1. UNCHANGED cards
      BY <1>3 DEF MCNext, cards
    <2> QED
      BY <1>1, <2>1 DEF CardInv, Shown, cards
  <1> QED
    BY <1>2, <1>3

LEMMA DeficitsSound ==
    ASSUME CardInv
    PROVE  DeficitsTold
  <1> SUFFICES ASSUME card # Cards!NoCard, ~card.seen,
                      LET points == Cards!Points(Cards!TechnicalLabel(setup),
                                        Cards!FundamentalsLabel(sheet),
                                        Cards!ValuationLabel(sheet), "weak",
                                        [sheet EXCEPT !.coverage = "supported",
                                            !.freshness = "current", !.quality = "high"])
                      IN  /\ card.points < points
                          /\ Cards!FundamentalsLabel(sheet) = card.fundamentals
                          /\ Cards!ValuationLabel(sheet) = card.valuation
               PROVE  \E i \in DOMAIN card.warnings : card.warnings[i] \in Serious
    BY DEF DeficitsTold, Cards!DeficitsTold, Serious
  <1>1. sheet \in Sheet
    BY CardsAssumption DEF CardInv
  <1>2. PICK found \in {Cards!NoSnapshot, sheet} : card = Cards!Summary(setup, found)
    BY DEF CardInv
  <1> QED
    BY <1>1, <1>2, SummaryTells

\* A conviction that would be higher with good figures comes with a warning of what is
\* wrong with them, of any setup and any snapshot: of the two that are shown, one is the
\* first deficit (_drivers of decision_summary.py).
THEOREM DeficitsAreTold == MCSpec => []DeficitsTold
  BY InitCard, StepCard, DeficitsSound, PTL DEF MCSpec

LEMMA CardsSound ==
    ASSUME CardInv
    PROVE  ServersValuation
  <1> SUFFICES ASSUME card # Cards!NoCard, card.seen
               PROVE  /\ card.fair = Cards!FairValue(sheet)
                      /\ card.valuation = Cards!ValuationLabel(sheet)
                             \/ 0 \in {sheet.pillar["growth"], sheet.pillar["cash_flow"]}
    BY DEF ServersValuation, Cards!ServersValuation
  <1>1. sheet \in Sheets /\ Shown
    BY DEF CardInv
  <1> QED
    BY <1>1, SameLabel DEF Shown

\* A card that was seen shows the label and the range that the server makes of the
\* snapshot, of any setup and any snapshot and whichever of decision_summary.py and
\* decisionSummary.ts made them, unless a pillar scored nothing: the two estimate alike,
\* as no estimate is rounded to nothing, and label alike, as they lean on like scores.
THEOREM CardsAgree == MCSpec => []ServersValuation
  BY InitCard, StepCard, CardsSound, PTL DEF MCSpec

-----------------------------------------------------------------------------
(* What better figures make of the scores.                                   *)

\* Both are told or neither is, and the first is no less.
NoLess(a, b) ==
    \/ a = Ranks!None /\ b = Ranks!None
    \/ a \in Nat /\ b \in Nat /\ a >= b

LEMMA NoneIs == Ranks!None \notin Nat /\ Ranks!None \in Int /\ Ranks!One = 10000
  BY DEF Ranks!None, Ranks!One

LEMMA DivGrows ==
    ASSUME NEW n \in Int, NEW m \in Int, NEW d \in Nat, d > 0, n >= m
    PROVE  /\ n \div d >= m \div d /\ n \div d \in Int
           /\ m \div d \in Int /\ (m \in Nat => m \div d \in Nat)
  OBVIOUS

LEMMA TimesGrow ==
    ASSUME NEW a \in Nat, NEW b \in Nat, NEW c \in Nat, NEW d \in Nat, a >= c, b >= d
    PROVE  a * b >= c * d /\ a * b \in Nat /\ c * d \in Nat
  OBVIOUS

LEMMA MeanIs ==
    ASSUME NEW f, NEW known, known = {n \in DOMAIN f : f[n] # Ranks!None}
    PROVE  Ranks!Mean(f) =
               IF known = {} THEN Ranks!None
               ELSE SumFunctionOnSet(f, known) \div Cardinality(known)
  BY DEF Ranks!Mean, Ranks!SumFunctionOnSet, Ranks!FoldFunctionOnSet,
         Ranks!MapThenFoldSet, SumFunctionOnSet, FoldFunctionOnSet, MapThenFoldSet,
         Ranks!Cardinality, Cardinality

LEMMA MeanGrows ==
    ASSUME NEW f, NEW g, DOMAIN f = DOMAIN g, IsFiniteSet(DOMAIN f),
           \A x \in DOMAIN f : NoLess(f[x], g[x])
    PROVE  NoLess(Ranks!Mean(f), Ranks!Mean(g))
  <1> DEFINE known == {n \in DOMAIN f : f[n] # Ranks!None}
             sum(h) == SumFunctionOnSet(h, known)
             count == Cardinality(known)
  <1>1. known = {n \in DOMAIN g : g[n] # Ranks!None}
    BY NoneIs DEF NoLess
  <1>2. Ranks!Mean(f) = IF known = {} THEN Ranks!None ELSE sum(f) \div count
    BY MeanIs
  <1>3. Ranks!Mean(g) = IF known = {} THEN Ranks!None ELSE sum(g) \div count
    BY <1>1, MeanIs
  <1>4. IsFiniteSet(known)
    BY FS_Subset
  <1>5. \A n \in known : f[n] \in Nat /\ g[n] \in Nat /\ f[n] >= g[n]
    BY DEF NoLess
  <1>6. sum(f) >= sum(g) /\ sum(f) \in Nat /\ sum(g) \in Nat
    BY <1>4, <1>5, SumGrows, SumType
  <1>7. count \in Nat /\ (known # {} => count > 0)
    <2>1. count \in Nat
      BY <1>4, FS_CardinalityType
    <2>2. count = 0 <=> known = {}
      BY <1>4, FS_EmptySet
    <2> HIDE DEF known, count
    <2> QED
      BY <2>1, <2>2
  <1> HIDE DEF known, sum, count
  <1>8. known # {} => /\ sum(f) \div count >= sum(g) \div count
                      /\ sum(f) \div count \in Nat /\ sum(g) \div count \in Nat
    BY <1>6, <1>7, DivGrows
  <1> QED
    BY <1>2, <1>3, <1>8 DEF NoLess

LEMMA MoreOf ==
    ASSUME NEW a \in Int, NEW b \in Int
    PROVE  Ranks!Max({a, b}) = IF a >= b THEN a ELSE b
  BY DEF Ranks!Max

LEMMA LessOf ==
    ASSUME NEW a \in Int, NEW b \in Int
    PROVE  Ranks!Min({a, b}) = IF a <= b THEN a ELSE b
  BY DEF Ranks!Min

LEMMA ClampGrows ==
    ASSUME NEW a \in Int, NEW b \in Int, NEW high \in Nat, a >= b
    PROVE  NoLess(Ranks!Clamp(a, 0, high), Ranks!Clamp(b, 0, high))
  <1> DEFINE x == Ranks!Min({high, a})
             y == Ranks!Min({high, b})
  <1>1. x \in Int /\ y \in Int /\ x >= y
    BY LessOf
  <1>2. Ranks!Clamp(a, 0, high) = Ranks!Max({0, x}) /\ Ranks!Clamp(b, 0, high) = Ranks!Max({0, y})
    BY DEF Ranks!Clamp
  <1> HIDE DEF x, y
  <1>3. /\ Ranks!Max({0, x}) = (IF 0 >= x THEN 0 ELSE x)
        /\ Ranks!Max({0, y}) = (IF 0 >= y THEN 0 ELSE y)
    BY <1>1, MoreOf
  <1>4. (IF 0 >= x THEN 0 ELSE x) \in Nat /\ (IF 0 >= y THEN 0 ELSE y) \in Nat
        /\ (IF 0 >= x THEN 0 ELSE x) >= (IF 0 >= y THEN 0 ELSE y)
    BY <1>1
  <1> QED
    BY <1>2, <1>3, <1>4 DEF NoLess

LEMMA PortionGrows ==
    ASSUME NEW a \in Int, NEW b \in Int, NEW weak \in Int, NEW strong \in Int,
           weak # strong, IF strong > weak THEN a >= b ELSE a <= b
    PROVE  NoLess(Ranks!Portion(a, weak, strong), Ranks!Portion(b, weak, strong))
  <1> DEFINE x == IF strong > weak THEN ((a - weak) * Ranks!One) \div (strong - weak)
                  ELSE ((weak - a) * Ranks!One) \div (weak - strong)
             y == IF strong > weak THEN ((b - weak) * Ranks!One) \div (strong - weak)
                  ELSE ((weak - b) * Ranks!One) \div (weak - strong)
  <1>1. CASE strong > weak
    <2> DEFINE n == (a - weak) * Ranks!One
               m == (b - weak) * Ranks!One
               d == strong - weak
    <2>1. n \in Int /\ m \in Int /\ d \in Nat /\ d > 0 /\ n >= m
      BY <1>1, NoneIs
    <2>2. x = n \div d /\ y = m \div d
      BY <1>1
    <2> HIDE DEF n, m, d, x, y
    <2> QED
      BY <2>1, <2>2, DivGrows, ClampGrows, NoneIs DEF Ranks!Portion, x, y
  <1>2. CASE ~(strong > weak)
    <2> DEFINE n == (weak - a) * Ranks!One
               m == (weak - b) * Ranks!One
               d == weak - strong
    <2>1. n \in Int /\ m \in Int /\ d \in Nat /\ d > 0 /\ n >= m
      BY <1>2, NoneIs
    <2>2. x = n \div d /\ y = m \div d
      BY <1>2
    <2> HIDE DEF n, m, d, x, y
    <2> QED
      BY <2>1, <2>2, DivGrows, ClampGrows, NoneIs DEF Ranks!Portion, x, y
  <1> QED
    BY <1>1, <1>2

\* The first figures are as many as the others, and none of quality is worse.
Ahead(a, b) ==
    \A m \in Ranks!Metrics :
        /\ a[m] = Ranks!None <=> b[m] = Ranks!None
        /\ IF m \in Ranks!Pillars["valuation"] THEN a[m] = b[m]
           ELSE IF Ranks!Rising(m) THEN a[m] >= b[m]
           ELSE a[m] <= b[m]

LEMMA PillarsAre ==
    /\ DOMAIN Ranks!Pillars =
           {"growth", "profitability", "balance_sheet", "cash_flow", "valuation"}
    /\ Ranks!Pillars["growth"] = {"revenue_growth", "earnings_growth"}
    /\ Ranks!Pillars["profitability"] = {"gross_margin", "operating_margin", "return_on_equity"}
    /\ Ranks!Pillars["balance_sheet"] = {"debt_to_equity", "current_ratio", "net_cash"}
    /\ Ranks!Pillars["cash_flow"] = {"fcf_margin"}
    /\ Ranks!Pillars["valuation"] = {"trailing_pe", "price_to_sales", "price_to_book"}
  BY DEF Ranks!Pillars

LEMMA MetricsAre ==
    Ranks!Metrics =
        {"revenue_growth", "earnings_growth", "gross_margin", "operating_margin",
         "return_on_equity", "debt_to_equity", "current_ratio", "net_cash", "fcf_margin",
         "trailing_pe", "price_to_sales", "price_to_book"}
  BY DEF Ranks!Metrics, Ranks!Marks

LEMMA MarksAre ==
    \A m \in Ranks!Metrics :
        /\ Ranks!Marks[m][1] \in Int /\ Ranks!Marks[m][2] \in Int
        /\ Ranks!Marks[m][1] # Ranks!Marks[m][2]
  BY MetricsAre DEF Ranks!Marks

LEMMA MetricsFinite == IsFiniteSet(Ranks!Metrics)
  <1> DEFINE last == {"fcf_margin", "trailing_pe", "price_to_sales", "price_to_book"}
             worth == {"return_on_equity", "debt_to_equity", "current_ratio", "net_cash"}
             gains == {"revenue_growth", "earnings_growth", "gross_margin",
                       "operating_margin"}
  <1>1. IsFiniteSet(last) /\ IsFiniteSet(worth) /\ IsFiniteSet(gains)
    BY FourFinite
  <1>2. Ranks!Metrics = (last \cup worth) \cup gains
    BY MetricsAre
  <1> HIDE DEF last, worth, gains
  <1> QED
    BY <1>1, <1>2, FS_Union

LEMMA PillarMetrics ==
    \A p \in DOMAIN Ranks!Pillars :
        Ranks!Pillars[p] \subseteq Ranks!Metrics /\ IsFiniteSet(Ranks!Pillars[p])
  <1> SUFFICES ASSUME NEW p \in DOMAIN Ranks!Pillars
               PROVE  Ranks!Pillars[p] \subseteq Ranks!Metrics /\ IsFiniteSet(Ranks!Pillars[p])
    OBVIOUS
  <1>1. Ranks!Pillars[p] \subseteq Ranks!Metrics
    BY PillarsAre, MetricsAre
  <1>2. IsFiniteSet(Ranks!Metrics)
    BY MetricsFinite
  <1> QED
    BY <1>1, <1>2, FS_Subset

LEMMA MarkGrows ==
    ASSUME NEW a \in [Ranks!Metrics -> Int], NEW b \in [Ranks!Metrics -> Int], Ahead(a, b),
           NEW m \in Ranks!Metrics
    PROVE  NoLess(IF a[m] = Ranks!None THEN Ranks!None
                  ELSE Ranks!Portion(a[m], Ranks!Marks[m][1], Ranks!Marks[m][2]),
                  IF b[m] = Ranks!None THEN Ranks!None
                  ELSE Ranks!Portion(b[m], Ranks!Marks[m][1], Ranks!Marks[m][2]))
  <1> DEFINE weak == Ranks!Marks[m][1]
             strong == Ranks!Marks[m][2]
  <1>1. weak \in Int /\ strong \in Int /\ weak # strong
    BY MarksAre
  <1>2. a[m] \in Int /\ b[m] \in Int /\ (a[m] = Ranks!None <=> b[m] = Ranks!None)
    BY DEF Ahead
  <1>3. IF strong > weak THEN a[m] >= b[m] ELSE a[m] <= b[m]
    BY <1>1, <1>2 DEF Ahead, Ranks!Rising
  <1> HIDE DEF weak, strong
  <1>4. NoLess(Ranks!Portion(a[m], weak, strong), Ranks!Portion(b[m], weak, strong))
    BY <1>1, <1>2, <1>3, PortionGrows
  <1>5. NoLess(IF a[m] = Ranks!None THEN Ranks!None ELSE Ranks!Portion(a[m], weak, strong),
               IF b[m] = Ranks!None THEN Ranks!None ELSE Ranks!Portion(b[m], weak, strong))
    BY <1>2, <1>4 DEF NoLess
  <1> QED
    BY <1>5 DEF weak, strong

LEMMA PillarGrows ==
    ASSUME NEW a \in [Ranks!Metrics -> Int], NEW b \in [Ranks!Metrics -> Int], Ahead(a, b),
           NEW p \in DOMAIN Ranks!Pillars
    PROVE  NoLess(Ranks!Pillar(a, p), Ranks!Pillar(b, p))
  <1> DEFINE f == [m \in Ranks!Pillars[p] |->
                       IF a[m] = Ranks!None THEN Ranks!None
                       ELSE Ranks!Portion(a[m], Ranks!Marks[m][1], Ranks!Marks[m][2])]
             g == [m \in Ranks!Pillars[p] |->
                       IF b[m] = Ranks!None THEN Ranks!None
                       ELSE Ranks!Portion(b[m], Ranks!Marks[m][1], Ranks!Marks[m][2])]
  <1>1. \A m \in Ranks!Pillars[p] : NoLess(f[m], g[m])
    BY MarkGrows, PillarMetrics
  <1>2. DOMAIN f = Ranks!Pillars[p] /\ DOMAIN g = Ranks!Pillars[p]
    OBVIOUS
  <1>3. Ranks!Pillar(a, p) = Ranks!Mean(f) /\ Ranks!Pillar(b, p) = Ranks!Mean(g)
    BY DEF Ranks!Pillar
  <1>4. IsFiniteSet(Ranks!Pillars[p])
    BY PillarMetrics
  <1> HIDE DEF f, g
  <1> QED
    BY <1>1, <1>2, <1>3, <1>4, MeanGrows

LEMMA ValuedAlike ==
    ASSUME NEW a \in [Ranks!Metrics -> Int], NEW b \in [Ranks!Metrics -> Int], Ahead(a, b)
    PROVE  /\ Ranks!Pillar(a, "valuation") = Ranks!Pillar(b, "valuation")
           /\ [m \in Ranks!Pillars["valuation"] |-> a[m]]
                  = [m \in Ranks!Pillars["valuation"] |-> b[m]]
  <1>1. \A m \in Ranks!Pillars["valuation"] : a[m] = b[m]
    BY PillarMetrics, PillarsAre DEF Ahead
  <1> QED
    BY <1>1 DEF Ranks!Pillar

-----------------------------------------------------------------------------
(* What a better record makes of the snapshot.                               *)

\* What is told of the company beside its figures and their age is the same.
LEMMA RecordIs ==
    ASSUME NEW r \in Reports
    PROVE  /\ DOMAIN r = {"figures", "supported", "age", "sector", "frequency", "cadence",
                          "points", "derived", "error"}
           /\ r.figures \in [Ranks!Metrics -> Int] /\ r.age \in Int
           /\ r.points \in Seq(Nat)
  <1>1. Scores!Metrics = Ranks!Metrics
    BY DEF Scores!Metrics, Ranks!Metrics, Scores!Marks, Ranks!Marks
  <1> QED
    BY <1>1, RanksAssumption

LEMMA Otherwise ==
    ASSUME NEW r \in Reports, NEW q \in Reports, Ranks!Better(r, q)
    PROVE  /\ r.supported = q.supported /\ r.sector = q.sector /\ r.error = q.error
           /\ r.frequency = q.frequency /\ r.cadence = q.cadence
           /\ r.points = q.points /\ r.derived = q.derived
  <1> DEFINE x == [r EXCEPT !.figures = 0, !.age = 0]
             y == [q EXCEPT !.figures = 0, !.age = 0]
  <1>1. x = y
    BY DEF Ranks!Better
  <1>2. /\ x.supported = r.supported /\ x.sector = r.sector /\ x.error = r.error
        /\ x.frequency = r.frequency /\ x.cadence = r.cadence
        /\ x.points = r.points /\ x.derived = r.derived
    BY RecordIs
  <1>3. /\ y.supported = q.supported /\ y.sector = q.sector /\ y.error = q.error
        /\ y.frequency = q.frequency /\ y.cadence = q.cadence
        /\ y.points = q.points /\ y.derived = q.derived
    BY RecordIs
  <1> HIDE DEF x, y
  <1> QED
    BY <1>1, <1>2, <1>3

LEMMA SeriesType ==
    ASSUME NEW r \in Reports
    PROVE  Ranks!SeriesGrowth(r) \in Int
  <1> DEFINE points == r.points
             last == Len(points)
             back == IF r.frequency = "annual" THEN 1 ELSE 4
             before == last - back
             growth == (points[last] * Ranks!One) \div points[before] - Ranks!One
  <1>1. points \in Seq(Nat) /\ last \in Nat /\ back \in 1..4
    BY RecordIs
  <1>2. Ranks!SeriesGrowth(r) =
            IF before < 1 THEN Ranks!None
            ELSE IF points[before] = 0 THEN Ranks!None ELSE growth
    BY DEF Ranks!SeriesGrowth
  <1> HIDE DEF back
  <1>3. CASE before < 1
    BY <1>2, <1>3, NoneIs
  <1>4. CASE before >= 1 /\ points[before] = 0
    BY <1>2, <1>1, <1>4, NoneIs
  <1>5. CASE before >= 1 /\ points[before] # 0
    <2>1. before \in 1..last /\ last \in 1..last
      BY <1>1, <1>5
    <2>2. points[before] \in Nat /\ points[before] > 0 /\ points[last] \in Nat
      <3>1. \A i \in 1..last : points[i] \in Nat
        BY <1>1
      <3>2. points[before] \in Nat /\ points[last] \in Nat
        BY ONLY <2>1, <3>1
      <3> HIDE DEF points, before, last
      <3> QED
        BY <1>5, <3>2
    <2>3. Ranks!SeriesGrowth(r) = growth
      BY <1>2, <1>1, <1>5
    <2> DEFINE n == points[last] * Ranks!One
               d == points[before]
    <2>4. n \in Int /\ d \in Nat /\ d > 0
      BY <2>2, NoneIs
    <2>5. Ranks!SeriesGrowth(r) = n \div d - Ranks!One
      BY <2>3
    <2> HIDE DEF n, d
    <2>6. n \div d \in Int
      BY <2>4, DivGrows
    <2> QED
      BY <2>5, <2>6, NoneIs
  <1>6. before \in Int
    BY <1>1
  <1>7. before < 1 \/ before >= 1
    BY <1>6
  <1> QED
    BY <1>3, <1>4, <1>5, <1>7

LEMMA FiguresType ==
    ASSUME NEW r \in Reports
    PROVE  Ranks!Figures(r) \in [Ranks!Metrics -> Int]
  <1>1. r.figures \in [Ranks!Metrics -> Int] /\ Ranks!SeriesGrowth(r) \in Int
    BY RecordIs, SeriesType
  <1> QED
    BY <1>1 DEF Ranks!Figures

LEMMA SameSeries ==
    ASSUME NEW r \in Reports, NEW q \in Reports, Ranks!Better(r, q)
    PROVE  Ranks!SeriesGrowth(r) = Ranks!SeriesGrowth(q)
  <1>1. r.points = q.points /\ r.frequency = q.frequency
    BY Otherwise
  <1> DEFINE growth(points, frequency) ==
                 IF Len(points) - (IF frequency = "annual" THEN 1 ELSE 4) < 1 THEN Ranks!None
                 ELSE IF points[Len(points) - (IF frequency = "annual" THEN 1 ELSE 4)] = 0
                 THEN Ranks!None
                 ELSE (points[Len(points)] * Ranks!One)
                          \div points[Len(points) - (IF frequency = "annual" THEN 1 ELSE 4)]
                      - Ranks!One
  <1>2. Ranks!SeriesGrowth(r) = growth(r.points, r.frequency)
    BY Zenon DEF Ranks!SeriesGrowth
  <1>3. Ranks!SeriesGrowth(q) = growth(q.points, q.frequency)
    BY Zenon DEF Ranks!SeriesGrowth
  <1> HIDE DEF growth
  <1> QED
    BY <1>1, <1>2, <1>3

LEMMA FiguresAhead ==
    ASSUME NEW r \in Reports, NEW q \in Reports, Ranks!Better(r, q)
    PROVE  Ahead(Ranks!Figures(r), Ranks!Figures(q))
  <1>1. Ahead(r.figures, q.figures)
    BY DEF Ahead, Ranks!Better
  <1>2. /\ r.figures \in [Ranks!Metrics -> Int] /\ q.figures \in [Ranks!Metrics -> Int]
        /\ Ranks!SeriesGrowth(r) \in Int
        /\ Ranks!SeriesGrowth(r) = Ranks!SeriesGrowth(q) /\ r.frequency = q.frequency
    BY RecordIs, SeriesType, SameSeries, Otherwise
  <1>3. "revenue_growth" \in Ranks!Metrics
    BY MetricsAre
  <1>4. r.figures["revenue_growth"] = Ranks!None <=> q.figures["revenue_growth"] = Ranks!None
    BY <1>1, <1>3 DEF Ahead
  <1>5. CASE r.figures["revenue_growth"] # Ranks!None \/ r.frequency = "unknown"
    BY <1>1, <1>2, <1>4, <1>5 DEF Ranks!Figures
  <1>6. CASE ~(r.figures["revenue_growth"] # Ranks!None \/ r.frequency = "unknown")
    <2> DEFINE a == [r.figures EXCEPT !["revenue_growth"] = Ranks!SeriesGrowth(r)]
               b == [q.figures EXCEPT !["revenue_growth"] = Ranks!SeriesGrowth(r)]
    <2>1. Ranks!Figures(r) = a /\ Ranks!Figures(q) = b
      BY <1>2, <1>4, <1>6 DEF Ranks!Figures
    <2>2. \A m \in Ranks!Metrics :
              IF m = "revenue_growth" THEN a[m] = b[m] /\ a[m] \in Int
              ELSE a[m] = r.figures[m] /\ b[m] = q.figures[m]
      BY <1>2
    <2> HIDE DEF a, b
    <2> QED
      BY <1>1, <2>1, <2>2 DEF Ahead
  <1> QED
    BY <1>5, <1>6

\* Growth beyond belief is that of the series, for it is not told, or was so before.
LEMMA ExtremeLess ==
    ASSUME NEW r \in Reports, NEW q \in Reports, Ranks!Better(r, q),
           Ranks!Extreme(Ranks!Figures(r))
    PROVE  Ranks!Extreme(Ranks!Figures(q))
  <1> DEFINE a == Ranks!Figures(r)
             b == Ranks!Figures(q)
  <1>1. /\ r.figures \in [Ranks!Metrics -> Int] /\ q.figures \in [Ranks!Metrics -> Int]
        /\ Ranks!SeriesGrowth(r) = Ranks!SeriesGrowth(q) /\ r.frequency = q.frequency
    BY RecordIs, SameSeries, Otherwise
  <1>2. PICK m \in Ranks!Pillars["growth"] :
            a[m] # Ranks!None /\ Ranks!Max({a[m], -a[m]}) > 3 * Ranks!One
    BY DEF Ranks!Extreme
  <1>3. ~(r.figures[m] # Ranks!None /\ Ranks!Max({r.figures[m], -r.figures[m]}) > 3 * Ranks!One)
    BY DEF Ranks!Better, Ranks!Extreme
  <1>4. a[m] # r.figures[m]
    BY <1>2, <1>3
  <1>5. m \in Ranks!Metrics /\ "revenue_growth" \in Ranks!Metrics
    BY PillarsAre, MetricsAre
  <1>6. /\ ~(r.figures["revenue_growth"] # Ranks!None \/ r.frequency = "unknown")
        /\ a = [r.figures EXCEPT !["revenue_growth"] = Ranks!SeriesGrowth(r)]
    BY <1>4 DEF Ranks!Figures
  <1>7. m = "revenue_growth"
    BY <1>1, <1>4, <1>5, <1>6
  <1>8. q.figures["revenue_growth"] = Ranks!None
    BY <1>5, <1>6 DEF Ranks!Better
  <1>9. b = [q.figures EXCEPT !["revenue_growth"] = Ranks!SeriesGrowth(r)]
    BY <1>1, <1>6, <1>8 DEF Ranks!Figures
  <1>10. a[m] = b[m]
    BY <1>1, <1>5, <1>6, <1>7, <1>9
  <1> HIDE DEF a, b
  <1>11. Ranks!Extreme(b)
    BY <1>2, <1>10 DEF Ranks!Extreme
  <1> QED
    BY <1>11 DEF b

LEMMA SameCoverage ==
    ASSUME NEW r \in Reports, NEW q \in Reports, Ranks!Better(r, q)
    PROVE  /\ Ranks!Coverage(r, Ranks!Figures(r)) = Ranks!Coverage(q, Ranks!Figures(q))
           /\ Ranks!Coverage(r, Ranks!Figures(r)) \in
                  {"supported", "partial", "insufficient", "unsupported"}
  <1> DEFINE a == Ranks!Figures(r)
             b == Ranks!Figures(q)
             told(f) == {m \in Ranks!Metrics : f[m] # Ranks!None}
             net(f) == IF f["net_cash"] # Ranks!None THEN 2 ELSE 0
             grade(s_, n) == CASE ~s_ -> "unsupported"
                               [] s_ /\ n >= 7 -> "supported"
                               [] s_ /\ n \in 4..6 -> "partial"
                               [] s_ /\ n < 4 -> "insufficient"
             count(f) == Ranks!Cardinality(told(f)) + net(f)
  <1>1. Ranks!Coverage(r, a) = grade(r.supported, count(a))
    BY DEF Ranks!Coverage
  <1>2. Ranks!Coverage(q, b) = grade(q.supported, count(b))
    BY DEF Ranks!Coverage
  <1>3. \A m \in Ranks!Metrics : a[m] = Ranks!None <=> b[m] = Ranks!None
    BY FiguresAhead DEF Ahead
  <1>4. told(a) = told(b)
    BY <1>3
  <1>5. net(a) = net(b)
    BY <1>3, MetricsAre
  <1>6. r.supported = q.supported /\ r.supported \in BOOLEAN
    BY Otherwise, RanksAssumption
  <1>7. IsFiniteSet(told(a))
    BY MetricsFinite, FS_Subset
  <1>8. Ranks!Cardinality(told(a)) \in Nat
    <2>1. Cardinality(told(a)) \in Nat
      BY <1>7, FS_CardinalityType
    <2> HIDE DEF told
    <2> QED
      BY <2>1 DEF Ranks!Cardinality, Cardinality
  <1> HIDE DEF told
  <1>9. count(a) \in Nat /\ count(a) = count(b)
    BY <1>4, <1>5, <1>8
  <1> HIDE DEF count, a, b
  <1>10. grade(r.supported, count(a)) \in
             {"supported", "partial", "insufficient", "unsupported"}
    BY <1>6, <1>9
  <1> HIDE DEF grade
  <1>11. Ranks!Coverage(r, a) = Ranks!Coverage(q, b)
    BY <1>1, <1>2, <1>6, <1>9
  <1> QED
    BY <1>1, <1>10, <1>11 DEF a, b

LEMMA Fresher ==
    ASSUME NEW r \in Reports, NEW q \in Reports, Ranks!Better(r, q)
    PROVE  /\ Ranks!Freshness(r.age) \in {"current", "stale", "unknown"}
           /\ Ranks!Freshness(q.age) \in {"current", "stale", "unknown"}
           /\ Ranks!Freshness(q.age) = "current" => Ranks!Freshness(r.age) = "current"
           /\ Ranks!Freshness(r.age) = "unknown" <=> Ranks!Freshness(q.age) = "unknown"
  <1>1. /\ r.age \in Int /\ q.age \in Int /\ r.age <= q.age
        /\ r.age = Ranks!None <=> q.age = Ranks!None
    BY RecordIs DEF Ranks!Better
  <1>2. StaleAfter \in Nat
    BY PartsAssumption
  <1> QED
    BY <1>1, <1>2 DEF Ranks!Freshness

LEMMA LessPenalty ==
    ASSUME NEW r \in Reports, NEW q \in Reports, Ranks!Better(r, q)
    PROVE  /\ Ranks!FreshnessPenalty(r.age) \in Nat /\ Ranks!FreshnessPenalty(q.age) \in Nat
           /\ Ranks!FreshnessPenalty(r.age) <= Ranks!FreshnessPenalty(q.age)
  <1>1. /\ r.age \in Int /\ q.age \in Int /\ r.age <= q.age
        /\ r.age = Ranks!None <=> q.age = Ranks!None
    BY RecordIs DEF Ranks!Better
  <1> DEFINE penalty(age) == IF age = Ranks!None \/ age > 365 THEN 5000
                             ELSE IF age <= 90 THEN 0
                             ELSE IF age <= 180 THEN 1500 ELSE 3000
  <1>2. ASSUME NEW age \in Int
        PROVE  Ranks!FreshnessPenalty(age) = penalty(age)
    BY DEF Ranks!FreshnessPenalty, Ranks!None
  <1>3. penalty(r.age) \in Nat /\ penalty(q.age) \in Nat /\ penalty(r.age) <= penalty(q.age)
    BY <1>1
  <1> HIDE DEF penalty
  <1> QED
    BY <1>1, <1>2, <1>3

LEMMA SameDirection ==
    ASSUME NEW r \in Reports, NEW q \in Reports, Ranks!Better(r, q)
    PROVE  Ranks!Direction(r) = Ranks!Direction(q)
  <1>1. r.points = q.points /\ r.frequency = q.frequency
    BY Otherwise
  <1> DEFINE delta(points) == points[Len(points)] - points[Len(points) - 1]
             before(points) == points[Len(points) - 1]
             trend(points) ==
                 IF 100 * Ranks!Max({delta(points), -delta(points)})
                        <= 3 * Ranks!Max({before(points), -before(points)}) THEN "stable"
                 ELSE IF delta(points) > 0 THEN "improving" ELSE "deteriorating"
             direction(points, frequency) ==
                 CASE Len(points) < 2 -> "unknown"
                   [] Len(points) >= 2 /\ frequency = "unknown" -> "not_comparable"
                   [] Len(points) >= 2 /\ frequency # "unknown" -> trend(points)
  <1>2. Ranks!Direction(r) = direction(r.points, r.frequency)
    BY Zenon DEF Ranks!Direction
  <1>3. Ranks!Direction(q) = direction(q.points, q.frequency)
    BY Zenon DEF Ranks!Direction
  <1> HIDE DEF direction
  <1> QED
    BY <1>1, <1>2, <1>3

LEMMA BetterQuality ==
    ASSUME NEW r \in Reports, NEW q \in Reports, Ranks!Better(r, q)
    PROVE  /\ Ranks!DataQuality(r, Ranks!Figures(r)) \in {"low", "medium", "high"}
           /\ Ranks!DataQuality(q, Ranks!Figures(q)) \in {"low", "medium", "high"}
           /\ Ranks!DataQuality(r, Ranks!Figures(r)) = "low" =>
                  Ranks!DataQuality(q, Ranks!Figures(q)) = "low"
           /\ Ranks!DataQuality(q, Ranks!Figures(q)) = "high" =>
                  Ranks!DataQuality(r, Ranks!Figures(r)) = "high"
  <1> DEFINE doubtful(x) == IF "unknown" \in {x.cadence, x.frequency} THEN x.derived
                            ELSE x.cadence # x.frequency
             thin(x) == \/ Ranks!Direction(x) = "not_comparable"
                        \/ Ranks!Direction(x) = "unknown"
                        \/ x.frequency = "annual"
             flawed(x) == x.error \/ (x.points # <<>> /\ doubtful(x))
             short(x) == x.points # <<>> /\ thin(x)
             quality(x) == IF flawed(x) \/ Ranks!Extreme(Ranks!Figures(x)) THEN "low"
                           ELSE IF short(x) THEN "medium" ELSE "high"
  <1>1. ASSUME NEW x \in Reports
        PROVE  Ranks!DataQuality(x, Ranks!Figures(x)) = quality(x)
    BY Zenon DEF Ranks!DataQuality
  <1>2. /\ r.error = q.error /\ r.frequency = q.frequency /\ r.cadence = q.cadence
        /\ r.points = q.points /\ r.derived = q.derived
        /\ Ranks!Direction(r) = Ranks!Direction(q)
    BY Otherwise, SameDirection
  <1>3. flawed(r) <=> flawed(q)
    BY <1>2, Zenon
  <1>4. short(r) <=> short(q)
    BY <1>2, Zenon
  <1>5. Ranks!Extreme(Ranks!Figures(r)) => Ranks!Extreme(Ranks!Figures(q))
    BY ExtremeLess
  <1> HIDE DEF flawed, short
  <1>6. /\ quality(r) \in {"low", "medium", "high"} /\ quality(q) \in {"low", "medium", "high"}
        /\ quality(r) = "low" => quality(q) = "low"
        /\ quality(q) = "high" => quality(r) = "high"
    BY <1>3, <1>4, <1>5
  <1> QED
    BY <1>1, <1>6

LEMMA ConfidenceGrows ==
    ASSUME NEW c \in {"supported", "partial", "insufficient", "unsupported"},
           NEW f \in {"current", "stale", "unknown"}, NEW g \in {"current", "stale", "unknown"},
           NEW x \in {"low", "medium", "high"}, NEW y \in {"low", "medium", "high"},
           g = "current" => f = "current", f = "unknown" <=> g = "unknown",
           x = "low" => y = "low", y = "high" => x = "high"
    PROVE  /\ Ranks!Confidence(c, f, x) \in Nat /\ Ranks!Confidence(c, g, y) \in Nat
           /\ Ranks!Confidence(c, f, x) >= Ranks!Confidence(c, g, y)
  <1> DEFINE cover == [supported |-> 90, partial |-> 60, insufficient |-> 30, unsupported |-> 10]
             fresh == [current |-> 100, stale |-> 55, unknown |-> 45]
             trust == [high |-> 100, medium |-> 75, low |-> 45]
  <1>1. cover[c] \in Nat
    OBVIOUS
  <1>2. fresh[f] \in Nat /\ fresh[g] \in Nat /\ fresh[f] >= fresh[g]
    OBVIOUS
  <1>3. trust[x] \in Nat /\ trust[y] \in Nat /\ trust[x] >= trust[y]
    OBVIOUS
  <1>4. /\ Ranks!Confidence(c, f, x) = (cover[c] * fresh[f] * trust[x]) \div 100
        /\ Ranks!Confidence(c, g, y) = (cover[c] * fresh[g] * trust[y]) \div 100
    BY DEF Ranks!Confidence
  <1> HIDE DEF cover, fresh, trust
  <1>5. /\ cover[c] * fresh[f] >= cover[c] * fresh[g]
        /\ cover[c] * fresh[f] \in Nat /\ cover[c] * fresh[g] \in Nat
    BY <1>1, <1>2, TimesGrow
  <1> DEFINE n == cover[c] * fresh[f] * trust[x]
             m == cover[c] * fresh[g] * trust[y]
  <1>6. n >= m /\ n \in Nat /\ m \in Nat
    BY <1>3, <1>5, TimesGrow
  <1> HIDE DEF n, m
  <1>7. n \div 100 >= m \div 100 /\ n \div 100 \in Nat /\ m \div 100 \in Nat
    BY <1>6, DivGrows
  <1> QED
    BY <1>4, <1>7 DEF n, m

\* One snapshot is of figures as many and as dear as the other, and in nothing worse.
Stronger(s, t) ==
    /\ ~Ranks!Missing(s) /\ ~Ranks!Missing(t)
    /\ s.coverage = t.coverage
    /\ s.coverage \in {"supported", "partial", "insufficient", "unsupported"}
    /\ s.freshness = "stale" => t.freshness = "stale"
    /\ s.quality = "low" => t.quality = "low"
    /\ s.confidence \in Nat /\ t.confidence \in Nat /\ s.confidence >= t.confidence
    /\ s.freshness_penalty \in Nat /\ t.freshness_penalty \in Nat
    /\ s.freshness_penalty <= t.freshness_penalty
    /\ s.coverage_penalty \in Nat /\ s.coverage_penalty = t.coverage_penalty
    /\ NoLess(s.business_quality, t.business_quality)
    /\ s.valuation = t.valuation /\ (s.valuation \in Nat \/ s.valuation = Ranks!None)
    /\ \A p \in Ranks!Quality : NoLess(s.pillar[p], t.pillar[p])

PillarsOf(r) == [p \in DOMAIN Ranks!Pillars |-> Ranks!Pillar(Ranks!Figures(r), p)]

LEMMA SnapshotIs ==
    ASSUME NEW r, NEW s, s = Ranks!Snapshot(r)
    PROVE  /\ ~Ranks!Missing(s)
           /\ s.pillar = PillarsOf(r)
           /\ s.coverage = Ranks!Coverage(r, Ranks!Figures(r))
           /\ s.freshness = Ranks!Freshness(r.age)
           /\ s.quality = Ranks!DataQuality(r, Ranks!Figures(r))
           /\ s.confidence = Ranks!Confidence(s.coverage, s.freshness, s.quality)
           /\ s.freshness_penalty = Ranks!FreshnessPenalty(r.age)
           /\ s.coverage_penalty = Ranks!CoveragePenalty(PillarsOf(r))
           /\ s.business_quality = Ranks!Mean([p \in Ranks!Quality |-> PillarsOf(r)[p]])
           /\ s.valuation = PillarsOf(r)["valuation"]
  <1>1. s # Ranks!NoSnapshot
    <2>1. "pillar" \in DOMAIN s
      BY DEF Ranks!Snapshot
    <2>2. "pillar" \notin DOMAIN Ranks!NoSnapshot
      BY DEF Ranks!NoSnapshot
    <2> QED
      BY <2>1, <2>2
  <1> QED
    BY <1>1 DEF Ranks!Snapshot, Ranks!Missing, PillarsOf

LEMMA SameCoveragePenalty ==
    ASSUME NEW r \in Reports, NEW q \in Reports, Ranks!Better(r, q)
    PROVE  /\ Ranks!CoveragePenalty(PillarsOf(r)) = Ranks!CoveragePenalty(PillarsOf(q))
           /\ Ranks!CoveragePenalty(PillarsOf(r)) \in Nat
  <1> DEFINE all == DOMAIN Ranks!Pillars
             untold(f) == {p \in all : f[p] = Ranks!None}
             penalty(set) == (Cardinality(set) * Ranks!One) \div Cardinality(all)
  <1>1. \A p \in all : PillarsOf(r)[p] = Ranks!None <=> PillarsOf(q)[p] = Ranks!None
    BY FiguresType, FiguresAhead, PillarGrows, NoneIs DEF NoLess, PillarsOf
  <1>2. untold(PillarsOf(r)) = untold(PillarsOf(q))
    BY <1>1
  <1>3. DOMAIN PillarsOf(r) = all /\ DOMAIN PillarsOf(q) = all
    BY DEF PillarsOf
  <1>4. /\ Ranks!CoveragePenalty(PillarsOf(r)) = penalty(untold(PillarsOf(r)))
        /\ Ranks!CoveragePenalty(PillarsOf(q)) = penalty(untold(PillarsOf(q)))
    BY <1>3 DEF Ranks!CoveragePenalty, Ranks!Cardinality, Cardinality
  <1>5. IsFiniteSet(all)
    <2>1. IsFiniteSet({"growth", "profitability", "balance_sheet", "cash_flow"})
      BY FourFinite
    <2>2. all = {"growth", "profitability", "balance_sheet", "cash_flow"} \cup {"valuation"}
      BY PillarsAre
    <2> HIDE DEF all
    <2> QED
      BY <2>1, <2>2, FS_AddElement
  <1>6. "growth" \in all
    BY PillarsAre
  <1> DEFINE set == untold(PillarsOf(r))
             n == Cardinality(set)
             d == Cardinality(all)
  <1>7. set \subseteq all
    OBVIOUS
  <1>8. IsFiniteSet(set)
    BY <1>5, <1>7, FS_Subset
  <1> HIDE DEF all, set
  <1>9. n \in Nat /\ d \in Nat /\ d # 0
    <2>1. n \in Nat /\ d \in Nat
      BY <1>5, <1>8, FS_CardinalityType
    <2>2. d = 0 <=> all = {}
      BY <1>5, FS_EmptySet
    <2> HIDE DEF d
    <2> QED
      BY <1>6, <2>1, <2>2
  <1> DEFINE k == n * Ranks!One
  <1>10. k \in Nat
    BY <1>9, NoneIs
  <1>11. k \div d \in Nat
    <2> HIDE DEF k, n, d
    <2> QED
      BY <1>9, <1>10, DivGrows
  <1>12. penalty(set) \in Nat
    BY <1>11
  <1> HIDE DEF penalty
  <1> QED
    BY <1>2, <1>4, <1>12 DEF set

LEMMA QualityIs ==
    /\ Ranks!Quality = {"growth", "profitability", "balance_sheet", "cash_flow"}
    /\ Ranks!Quality \subseteq DOMAIN Ranks!Pillars
    /\ IsFiniteSet(Ranks!Quality)
  <1>1. Ranks!Quality = {"growth", "profitability", "balance_sheet", "cash_flow"}
    BY PillarsAre DEF Ranks!Quality
  <1>2. IsFiniteSet({"growth", "profitability", "balance_sheet", "cash_flow"})
    BY FourFinite
  <1> QED
    BY <1>1, <1>2, PillarsAre

LEMMA SnapshotGrows ==
    ASSUME NEW r \in Reports, NEW q \in Reports, Ranks!Better(r, q)
    PROVE  Stronger(Ranks!Snapshot(r), Ranks!Snapshot(q))
  <1> DEFINE s == Ranks!Snapshot(r)
             t == Ranks!Snapshot(q)
             a == Ranks!Figures(r)
             b == Ranks!Figures(q)
  <1>1. a \in [Ranks!Metrics -> Int] /\ b \in [Ranks!Metrics -> Int] /\ Ahead(a, b)
    BY FiguresType, FiguresAhead
  <1>2. \A p \in DOMAIN Ranks!Pillars : NoLess(PillarsOf(r)[p], PillarsOf(q)[p])
    BY <1>1, PillarGrows DEF PillarsOf
  <1>3. PillarsOf(r)["valuation"] = PillarsOf(q)["valuation"]
    BY <1>1, ValuedAlike, PillarsAre DEF PillarsOf
  <1>4. PillarsOf(r)["valuation"] \in Nat \/ PillarsOf(r)["valuation"] = Ranks!None
    BY <1>2, PillarsAre DEF NoLess
  <1>5. \A p \in Ranks!Quality : NoLess(PillarsOf(r)[p], PillarsOf(q)[p])
    BY <1>2, QualityIs
  <1>6. NoLess(Ranks!Mean([p \in Ranks!Quality |-> PillarsOf(r)[p]]),
               Ranks!Mean([p \in Ranks!Quality |-> PillarsOf(q)[p]]))
    <2> DEFINE f == [p \in Ranks!Quality |-> PillarsOf(r)[p]]
               g == [p \in Ranks!Quality |-> PillarsOf(q)[p]]
    <2>1. /\ DOMAIN f = Ranks!Quality /\ DOMAIN g = Ranks!Quality
          /\ \A p \in Ranks!Quality : NoLess(f[p], g[p])
      BY <1>5
    <2> HIDE DEF f, g
    <2>2. NoLess(Ranks!Mean(f), Ranks!Mean(g))
      BY <2>1, QualityIs, MeanGrows
    <2> QED
      BY <2>2 DEF f, g
  <1>7. /\ s.pillar = PillarsOf(r) /\ t.pillar = PillarsOf(q)
        /\ s.coverage = Ranks!Coverage(r, a) /\ t.coverage = Ranks!Coverage(q, b)
        /\ s.freshness = Ranks!Freshness(r.age) /\ t.freshness = Ranks!Freshness(q.age)
        /\ s.quality = Ranks!DataQuality(r, a) /\ t.quality = Ranks!DataQuality(q, b)
        /\ s.confidence = Ranks!Confidence(s.coverage, s.freshness, s.quality)
        /\ t.confidence = Ranks!Confidence(t.coverage, t.freshness, t.quality)
    BY SnapshotIs
  <1>8. /\ ~Ranks!Missing(s) /\ ~Ranks!Missing(t)
        /\ s.freshness_penalty = Ranks!FreshnessPenalty(r.age)
        /\ t.freshness_penalty = Ranks!FreshnessPenalty(q.age)
        /\ s.coverage_penalty = Ranks!CoveragePenalty(PillarsOf(r))
        /\ t.coverage_penalty = Ranks!CoveragePenalty(PillarsOf(q))
        /\ s.business_quality = Ranks!Mean([p \in Ranks!Quality |-> PillarsOf(r)[p]])
        /\ t.business_quality = Ranks!Mean([p \in Ranks!Quality |-> PillarsOf(q)[p]])
        /\ s.valuation = PillarsOf(r)["valuation"] /\ t.valuation = PillarsOf(q)["valuation"]
    BY SnapshotIs
  <1>9. /\ s.coverage = t.coverage
        /\ s.coverage \in {"supported", "partial", "insufficient", "unsupported"}
    BY <1>7, SameCoverage
  <1>10. /\ s.freshness \in {"current", "stale", "unknown"}
         /\ t.freshness \in {"current", "stale", "unknown"}
         /\ t.freshness = "current" => s.freshness = "current"
         /\ s.freshness = "unknown" <=> t.freshness = "unknown"
    BY <1>7, Fresher
  <1>11. /\ s.quality \in {"low", "medium", "high"} /\ t.quality \in {"low", "medium", "high"}
         /\ s.quality = "low" => t.quality = "low"
         /\ t.quality = "high" => s.quality = "high"
    BY <1>7, BetterQuality
  <1> HIDE DEF s, t, a, b
  <1>12. s.confidence \in Nat /\ t.confidence \in Nat /\ s.confidence >= t.confidence
    BY <1>7, <1>9, <1>10, <1>11, ConfidenceGrows
  <1>13. /\ s.freshness_penalty \in Nat /\ t.freshness_penalty \in Nat
         /\ s.freshness_penalty <= t.freshness_penalty
    BY <1>8, LessPenalty
  <1>14. s.coverage_penalty \in Nat /\ s.coverage_penalty = t.coverage_penalty
    BY <1>8, SameCoveragePenalty
  <1>15. Stronger(s, t)
    BY <1>3, <1>4, <1>5, <1>6, <1>7, <1>8, <1>9, <1>10, <1>11, <1>12, <1>13, <1>14
       DEF Stronger
  <1> QED
    BY <1>15 DEF s, t

-----------------------------------------------------------------------------
(* What a stronger snapshot makes of the decision and of the place.          *)

NoWeaker(f, g) ==
    /\ f \in Labels /\ g \in Labels
    /\ g = "strong" => f = "strong"
    /\ f = "weak" => g = "weak"

ValuationLabels == {"cheap", "fair", "expensive", "unknown"}

LEMMA ScoreLabelIs ==
    ASSUME NEW score
    PROVE  Ranks!Status(score) \in {"unavailable", "strong", "neutral", "weak"}
  BY DEF Ranks!Status

LEMMA StatusGrows ==
    ASSUME NEW a \in Nat, NEW b \in Nat, a >= b
    PROVE  NoWeaker(Ranks!Status(a), Ranks!Status(b))
  BY NoneIs DEF Ranks!Status, NoWeaker, Labels

LEMMA FundamentalsGrow ==
    ASSUME NEW s, NEW t, Stronger(s, t)
    PROVE  NoWeaker(Ranks!FundamentalsLabel(s), Ranks!FundamentalsLabel(t))
  <1> DEFINE f == [p \in Ranks!Quality |-> Ranks!PillarScore(s, p)]
             g == [p \in Ranks!Quality |-> Ranks!PillarScore(t, p)]
  <1>1. /\ DOMAIN f = Ranks!Quality /\ DOMAIN g = Ranks!Quality
        /\ \A p \in Ranks!Quality : NoLess(f[p], g[p])
    BY DEF Stronger, Ranks!PillarScore
  <1>2. /\ Ranks!FundamentalsLabel(s) =
               IF Ranks!Mean(f) = Ranks!None THEN "neutral" ELSE Ranks!Status(Ranks!Mean(f))
        /\ Ranks!FundamentalsLabel(t) =
               IF Ranks!Mean(g) = Ranks!None THEN "neutral" ELSE Ranks!Status(Ranks!Mean(g))
    BY DEF Ranks!FundamentalsLabel
  <1> HIDE DEF f, g
  <1>3. NoLess(Ranks!Mean(f), Ranks!Mean(g))
    BY <1>1, QualityIs, MeanGrows
  <1>4. CASE Ranks!Mean(f) = Ranks!None
    BY <1>2, <1>3, <1>4, NoneIs DEF NoLess, NoWeaker, Labels
  <1>5. CASE Ranks!Mean(f) # Ranks!None
    BY <1>2, <1>3, <1>5, NoneIs, StatusGrows DEF NoLess
  <1> QED
    BY <1>4, <1>5

LEMMA SnapshotLabelIs ==
    ASSUME NEW s
    PROVE  Ranks!ValuationLabel(s) \in ValuationLabels
  <1> DEFINE weighed == IF Ranks!Missing(s) THEN Ranks!None
                        ELSE IF Ranks!Profile(s) = "default" THEN Ranks!None
                        ELSE Ranks!SectorScore(s)
             status == Ranks!Status(IF weighed # Ranks!None THEN weighed
                                    ELSE Ranks!PillarScore(s, "valuation"))
  <1>1. status \in {"unavailable", "strong", "neutral", "weak"}
    BY ScoreLabelIs
  <1>2. Ranks!ValuationLabel(s) = CASE status = "strong" -> "cheap"
                                    [] status = "neutral" -> "fair"
                                    [] status = "weak" -> "expensive"
                                    [] status = "unavailable" -> "unknown"
    BY DEF Ranks!ValuationLabel
  <1> HIDE DEF status
  <1> QED
    BY <1>1, <1>2 DEF ValuationLabels

LEMMA SetupLabelIs ==
    ASSUME NEW c
    PROVE  Ranks!TechnicalLabel(c) \in Labels
  BY DEF Ranks!TechnicalLabel, Labels

\* Better fundamentals never make a lesser action of a candidate, as long as its company
\* is valued the same and there is no news of it.
LEMMA ActionGrows ==
    ASSUME NEW technical \in Labels, NEW f, NEW g, NoWeaker(f, g), NEW valuation, NEW mode_
    PROVE  /\ Ranks!ActionPriority[Ranks!Action(technical, f, valuation, "weak", mode_)] \in Nat
           /\ Ranks!ActionPriority[Ranks!Action(technical, g, valuation, "weak", mode_)] \in Nat
           /\ Ranks!ActionPriority[Ranks!Action(technical, f, valuation, "weak", mode_)]
                  >= Ranks!ActionPriority[Ranks!Action(technical, g, valuation, "weak", mode_)]
  BY DEF Ranks!ActionPriority, Ranks!Action, NoWeaker, Labels

LEMMA PointsGrow ==
    ASSUME NEW s, NEW t, Stronger(s, t), NEW f, NEW g, NoWeaker(f, g),
           NEW technical \in Labels, NEW valuation \in ValuationLabels
    PROVE  /\ Ranks!Points(technical, f, valuation, "weak", s) \in Int
           /\ Ranks!Points(technical, g, valuation, "weak", t) \in Int
           /\ Ranks!Points(technical, f, valuation, "weak", s)
                  >= Ranks!Points(technical, g, valuation, "weak", t)
  <1> DEFINE signal == [strong |-> 8, neutral |-> 4, weak |-> 0]
             news == [active |-> 4, neutral |-> 2, weak |-> 0]
             price == [cheap |-> 2, fair |-> 1, expensive |-> -2, unknown |-> 0]
             coverage == [supported |-> 0, partial |-> -2,
                          insufficient |-> -4, unsupported |-> -4]
             doubts(x) == coverage[x.coverage] - (IF x.freshness = "stale" THEN 4 ELSE 0)
                                               - (IF x.quality = "low" THEN 2 ELSE 0)
  <1>1. /\ Ranks!Points(technical, f, valuation, "weak", s) =
               signal[technical] + signal[f] + price[valuation] + news["weak"] + doubts(s) - 1
        /\ Ranks!Points(technical, g, valuation, "weak", t) =
               signal[technical] + signal[g] + price[valuation] + news["weak"] + doubts(t) - 1
    BY DEF Ranks!Points, Stronger
  <1>2. /\ signal[technical] \in Int /\ signal[f] \in Int /\ signal[g] \in Int
        /\ signal[f] >= signal[g]
    BY DEF NoWeaker, Labels
  <1>3. price[valuation] \in Int /\ news["weak"] \in Int
    BY DEF ValuationLabels
  <1>4. coverage[s.coverage] \in Int /\ coverage[s.coverage] = coverage[t.coverage]
    BY DEF Stronger
  <1> HIDE DEF coverage
  <1>5. doubts(s) \in Int /\ doubts(t) \in Int /\ doubts(s) >= doubts(t)
    BY <1>4 DEF Stronger
  <1> HIDE DEF signal, news, price, doubts
  <1> QED
    BY <1>1, <1>2, <1>3, <1>5

LEMMA ConvictionGrows ==
    ASSUME NEW a \in Int, NEW b \in Int, a >= b, NEW mode_
    PROVE  /\ Ranks!ConvictionPriority[Ranks!Conviction(a, mode_)] \in Nat
           /\ Ranks!ConvictionPriority[Ranks!Conviction(b, mode_)] \in Nat
           /\ Ranks!ConvictionPriority[Ranks!Conviction(a, mode_)]
                  >= Ranks!ConvictionPriority[Ranks!Conviction(b, mode_)]
  BY DEF Ranks!ConvictionPriority, Ranks!Conviction

LEMMA ScaledGrows ==
    ASSUME NEW a \in Nat, NEW b \in Nat, NEW c \in Nat, NEW d \in Nat, a >= c, b >= d
    PROVE  /\ (a * b) \div Ranks!One >= (c * d) \div Ranks!One
           /\ (a * b) \div Ranks!One \in Nat /\ (c * d) \div Ranks!One \in Nat
  <1> DEFINE n == a * b
             m == c * d
             one == Ranks!One
  <1>1. n >= m /\ n \in Nat /\ m \in Nat
    BY TimesGrow
  <1>2. one \in Nat /\ one > 0
    BY NoneIs
  <1> HIDE DEF n, m, one
  <1>3. n \div one >= m \div one /\ n \div one \in Nat /\ m \div one \in Nat
    BY <1>1, <1>2, DivGrows
  <1> QED
    BY <1>3 DEF n, m, one

LEMMA LabelScoreIs ==
    /\ Ranks!LabelScore["strong"] = 10000 /\ Ranks!LabelScore["neutral"] = 5000
    /\ Ranks!LabelScore["weak"] = 0 /\ Ranks!LabelScore["cheap"] = 10000
    /\ Ranks!LabelScore["fair"] = 5000 /\ Ranks!LabelScore["expensive"] = 0
    /\ Ranks!LabelScore["unknown"] = 5000
  BY NoneIs DEF Ranks!LabelScore

LEMMA TrustedGrows ==
    ASSUME NEW a \in Nat, NEW b \in Nat, a >= b, NEW s, NEW t, NEW floor \in Nat,
           s.confidence \in Nat, t.confidence \in Nat, s.confidence >= t.confidence
    PROVE  /\ Ranks!Trusted(a, s, floor) \in Nat /\ Ranks!Trusted(b, t, floor) \in Nat
           /\ Ranks!Trusted(a, s, floor) >= Ranks!Trusted(b, t, floor)
  <1> DEFINE x == Ranks!Max({floor, s.confidence})
             y == Ranks!Max({floor, t.confidence})
  <1>1. x \in Nat /\ y \in Nat /\ x >= y
    BY MoreOf
  <1>2. /\ Ranks!Trusted(a, s, floor) = (a * x) \div Ranks!One
        /\ Ranks!Trusted(b, t, floor) = (b * y) \div Ranks!One
    BY DEF Ranks!Trusted
  <1> HIDE DEF x, y
  <1>3. /\ (a * x) \div Ranks!One \in Nat /\ (b * y) \div Ranks!One \in Nat
        /\ (a * x) \div Ranks!One >= (b * y) \div Ranks!One
    BY <1>1, ScaledGrows
  <1> QED
    BY <1>2, <1>3, Zenon

LEMMA FundamentalsScoreGrows ==
    ASSUME NEW s, NEW t, Stronger(s, t), NEW f, NEW g, NoWeaker(f, g)
    PROVE  /\ Ranks!FundamentalsScore(f, s) \in Nat /\ Ranks!FundamentalsScore(g, t) \in Nat
           /\ Ranks!FundamentalsScore(f, s) >= Ranks!FundamentalsScore(g, t)
  <1> DEFINE a == Ranks!OrElse(s.business_quality, Ranks!LabelScore[f])
             b == Ranks!OrElse(t.business_quality, Ranks!LabelScore[g])
             penalty(x) == x.freshness_penalty + x.coverage_penalty \div 2
             x1 == Ranks!Max({0, Ranks!One - penalty(s)})
             y1 == Ranks!Max({0, Ranks!One - penalty(t)})
             trusted(n, x) == Ranks!Trusted(n, x, 2500)
  <1>1. a \in Nat /\ b \in Nat /\ a >= b
    BY NoneIs, LabelScoreIs DEF Stronger, NoLess, Ranks!OrElse, NoWeaker, Labels
  <1>2. penalty(s) \in Int /\ penalty(t) \in Int /\ penalty(s) <= penalty(t)
    BY DEF Stronger
  <1>3. /\ Ranks!FundamentalsScore(f, s) = (trusted(a, s) * x1) \div Ranks!One
        /\ Ranks!FundamentalsScore(g, t) = (trusted(b, t) * y1) \div Ranks!One
    BY DEF Ranks!FundamentalsScore, Stronger
  <1> HIDE DEF a, b, penalty
  <1>4. x1 \in Nat /\ y1 \in Nat /\ x1 >= y1
    BY <1>2, NoneIs, MoreOf
  <1>5. /\ trusted(a, s) \in Nat /\ trusted(b, t) \in Nat /\ trusted(a, s) >= trusted(b, t)
    BY <1>1, TrustedGrows DEF Stronger
  <1> DEFINE n == trusted(a, s)
             m == trusted(b, t)
  <1>6. n \in Nat /\ m \in Nat /\ n >= m
    BY <1>5
  <1> HIDE DEF x1, y1, trusted, n, m
  <1>7. /\ (n * x1) \div Ranks!One \in Nat /\ (m * y1) \div Ranks!One \in Nat
        /\ (n * x1) \div Ranks!One >= (m * y1) \div Ranks!One
    BY <1>4, <1>6, ScaledGrows
  <1> QED
    BY <1>3, <1>7, Zenon DEF n, m

LEMMA ValuationScoreGrows ==
    ASSUME NEW s, NEW t, Stronger(s, t), NEW label \in ValuationLabels
    PROVE  /\ Ranks!ValuationScore(label, s) \in Nat /\ Ranks!ValuationScore(label, t) \in Nat
           /\ Ranks!ValuationScore(label, s) >= Ranks!ValuationScore(label, t)
  <1> DEFINE a == Ranks!OrElse(s.valuation, Ranks!LabelScore[label])
  <1>1. a \in Nat
    BY LabelScoreIs DEF Stronger, Ranks!OrElse, ValuationLabels
  <1>2. /\ Ranks!ValuationScore(label, s) = Ranks!Trusted(a, s, 4000)
        /\ Ranks!ValuationScore(label, t) = Ranks!Trusted(a, t, 4000)
    BY DEF Ranks!ValuationScore, Stronger
  <1> HIDE DEF a
  <1> QED
    BY <1>1, <1>2, TrustedGrows DEF Stronger

LEMMA WeightsAre ==
    /\ TechnicalWeight \in Nat /\ FundamentalsWeight \in Nat /\ CatalystWeight \in Nat
    /\ ValuationWeight \in Nat /\ Ranks!Weights \in Nat /\ Ranks!Weights > 0
  BY PartsAssumption DEF Ranks!Weights

\* A mean of scores grows with each of them.
LEMMA CombinedGrows ==
    ASSUME NEW c \in Candidates, NEW d, NEW e, NEW s, NEW t,
           Ranks!FundamentalsScore(d.fundamentals, s) \in Nat,
           Ranks!FundamentalsScore(e.fundamentals, t) \in Nat,
           Ranks!FundamentalsScore(d.fundamentals, s)
               >= Ranks!FundamentalsScore(e.fundamentals, t),
           Ranks!ValuationScore(d.valuation, s) \in Nat,
           Ranks!ValuationScore(e.valuation, t) \in Nat,
           Ranks!ValuationScore(d.valuation, s) >= Ranks!ValuationScore(e.valuation, t)
    PROVE  Ranks!Combined(c, d, s) >= Ranks!Combined(c, e, t)
  <1> DEFINE f == Ranks!FundamentalsScore(d.fundamentals, s)
             g == Ranks!FundamentalsScore(e.fundamentals, t)
             v == Ranks!ValuationScore(d.valuation, s)
             w == Ranks!ValuationScore(e.valuation, t)
             base == TechnicalWeight * c.technical
             n == base + FundamentalsWeight * f + ValuationWeight * v
             m == base + FundamentalsWeight * g + ValuationWeight * w
  <1>1. Ranks!Combined(c, d, s) = n \div Ranks!Weights
    BY DEF Ranks!Combined
  <1>2. Ranks!Combined(c, e, t) = m \div Ranks!Weights
    BY DEF Ranks!Combined
  <1>3. base \in Nat
    BY WeightsAre, RanksAssumption
  <1>4. f \in Nat /\ g \in Nat /\ f >= g /\ v \in Nat /\ w \in Nat /\ v >= w
    OBVIOUS
  <1> HIDE DEF base, f, g, v, w
  <1>5. /\ FundamentalsWeight * f \in Nat /\ FundamentalsWeight * g \in Nat
        /\ FundamentalsWeight * f >= FundamentalsWeight * g
    BY <1>4, WeightsAre, TimesGrow
  <1>6. /\ ValuationWeight * v \in Nat /\ ValuationWeight * w \in Nat
        /\ ValuationWeight * v >= ValuationWeight * w
    BY <1>4, WeightsAre, TimesGrow
  <1>7. n \in Int /\ m \in Int /\ n >= m
    BY <1>3, <1>5, <1>6
  <1> HIDE DEF n, m
  <1>8. n \div Ranks!Weights >= m \div Ranks!Weights
    BY <1>7, WeightsAre, DivGrows
  <1> QED
    BY <1>1, <1>2, <1>8, Zenon

\* The decision of the same candidate with no weaker fundamentals and no fewer points.
LEMMA RankGrows ==
    ASSUME NEW c, NEW s, NEW t,
           NoWeaker(Ranks!FundamentalsLabel(s), Ranks!FundamentalsLabel(t)),
           Ranks!ValuationLabel(s) = Ranks!ValuationLabel(t),
           Ranks!Points(Ranks!TechnicalLabel(c), Ranks!FundamentalsLabel(s),
                        Ranks!ValuationLabel(s), "weak", s) \in Int,
           Ranks!Points(Ranks!TechnicalLabel(c), Ranks!FundamentalsLabel(t),
                        Ranks!ValuationLabel(t), "weak", t) \in Int,
           Ranks!Points(Ranks!TechnicalLabel(c), Ranks!FundamentalsLabel(s),
                        Ranks!ValuationLabel(s), "weak", s)
               >= Ranks!Points(Ranks!TechnicalLabel(c), Ranks!FundamentalsLabel(t),
                               Ranks!ValuationLabel(t), "weak", t)
    PROVE  Ranks!Place(c, s).rank >= Ranks!Place(c, t).rank
  <1> DEFINE technical == Ranks!TechnicalLabel(c)
             f == Ranks!FundamentalsLabel(s)
             g == Ranks!FundamentalsLabel(t)
             valuation == Ranks!ValuationLabel(s)
             n == Ranks!Points(technical, f, valuation, "weak", s)
             m == Ranks!Points(technical, g, valuation, "weak", t)
             act(x) == Ranks!ActionPriority[Ranks!Action(technical, x, valuation, "weak", c.mode)]
             sure(x) == Ranks!ConvictionPriority[Ranks!Conviction(x, c.mode)]
  <1>1. /\ Ranks!Decide(c, s).action = Ranks!Action(technical, f, valuation, "weak", c.mode)
        /\ Ranks!Decide(c, s).conviction = Ranks!Conviction(n, c.mode)
    BY DEF Ranks!Decide
  <1>2. /\ Ranks!Decide(c, t).action = Ranks!Action(technical, g, valuation, "weak", c.mode)
        /\ Ranks!Decide(c, t).conviction = Ranks!Conviction(m, c.mode)
    BY DEF Ranks!Decide
  <1>3. n \in Int /\ m \in Int /\ n >= m /\ NoWeaker(f, g)
    OBVIOUS
  <1>4. technical \in Labels
    BY SetupLabelIs
  <1> HIDE DEF technical, f, g, valuation, n, m
  <1>5. Ranks!Place(c, s).rank = 3 * act(f) + sure(n)
    BY <1>1 DEF Ranks!Place
  <1>6. Ranks!Place(c, t).rank = 3 * act(g) + sure(m)
    BY <1>2 DEF Ranks!Place
  <1>7. act(f) \in Nat /\ act(g) \in Nat /\ act(f) >= act(g)
    BY <1>3, <1>4, ActionGrows
  <1>8. sure(n) \in Nat /\ sure(m) \in Nat /\ sure(n) >= sure(m)
    BY <1>3, ConvictionGrows
  <1> HIDE DEF act, sure
  <1> QED
    BY <1>5, <1>6, <1>7, <1>8

LEMMA PlaceGrows ==
    ASSUME NEW c \in Candidates, NEW s, NEW t, Stronger(s, t),
           Ranks!ValuationLabel(s) = Ranks!ValuationLabel(t)
    PROVE  Ranks!NotBehind(Ranks!Place(c, s), Ranks!Place(c, t))
  <1> DEFINE d == Ranks!Decide(c, s)
             e == Ranks!Decide(c, t)
             f == Ranks!FundamentalsLabel(s)
             g == Ranks!FundamentalsLabel(t)
             label == Ranks!ValuationLabel(s)
  <1>1. NoWeaker(f, g) /\ label \in ValuationLabels /\ Ranks!TechnicalLabel(c) \in Labels
    BY FundamentalsGrow, SnapshotLabelIs, SetupLabelIs
  <1>2. /\ d.fundamentals = f /\ d.valuation = label
        /\ e.fundamentals = g /\ e.valuation = label
    BY DEF Ranks!Decide
  <1>3. /\ Ranks!Place(c, s).combined = Ranks!Combined(c, d, s)
        /\ Ranks!Place(c, t).combined = Ranks!Combined(c, e, t)
    BY DEF Ranks!Place
  <1> HIDE DEF d, e
  <1>4. /\ Ranks!FundamentalsScore(f, s) \in Nat /\ Ranks!FundamentalsScore(g, t) \in Nat
        /\ Ranks!FundamentalsScore(f, s) >= Ranks!FundamentalsScore(g, t)
    BY <1>1, FundamentalsScoreGrows
  <1>5. /\ Ranks!ValuationScore(label, s) \in Nat /\ Ranks!ValuationScore(label, t) \in Nat
        /\ Ranks!ValuationScore(label, s) >= Ranks!ValuationScore(label, t)
    BY <1>1, ValuationScoreGrows
  <1>6. Ranks!Combined(c, d, s) >= Ranks!Combined(c, e, t)
    BY <1>2, <1>4, <1>5, CombinedGrows
  <1>7. Ranks!Place(c, s).rank >= Ranks!Place(c, t).rank
    BY <1>1, PointsGrow, RankGrows
  <1> QED
    BY <1>3, <1>6, <1>7 DEF Ranks!NotBehind

-----------------------------------------------------------------------------
(* What an answer of no provider makes of them.                              *)

LEMMA ErrorIs ==
    /\ Ranks!Missing(Ranks!NoSnapshot) /\ ~Ranks!Missing(Ranks!ErrorSnapshot)
    /\ Ranks!ErrorSnapshot.coverage = "insufficient"
    /\ Ranks!ErrorSnapshot.freshness = "unknown" /\ Ranks!ErrorSnapshot.quality = "low"
    /\ Ranks!ErrorSnapshot.confidence = 0 /\ Ranks!ErrorSnapshot.freshness_penalty = 0
    /\ Ranks!ErrorSnapshot.coverage_penalty = 0 /\ Ranks!ErrorSnapshot.sector = ""
    /\ Ranks!ErrorSnapshot.business_quality = Ranks!None
    /\ Ranks!ErrorSnapshot.valuation = Ranks!None
    /\ Ranks!ErrorSnapshot.error = TRUE
    /\ \A p \in DOMAIN Ranks!Pillars :
           /\ Ranks!PillarScore(Ranks!ErrorSnapshot, p) = Ranks!None
           /\ Ranks!PillarScore(Ranks!NoSnapshot, p) = Ranks!None
  <1>1. "pillar" \in DOMAIN Ranks!ErrorSnapshot
    BY DEF Ranks!ErrorSnapshot
  <1>2. "pillar" \notin DOMAIN Ranks!NoSnapshot
    BY DEF Ranks!NoSnapshot
  <1>3. ~Ranks!Missing(Ranks!ErrorSnapshot)
    BY <1>1, <1>2 DEF Ranks!Missing
  <1> QED
    BY <1>3 DEF Ranks!ErrorSnapshot, Ranks!Missing, Ranks!PillarScore

LEMMA UntoldLabels ==
    ASSUME NEW s \in {Ranks!NoSnapshot, Ranks!ErrorSnapshot}
    PROVE  /\ Ranks!FundamentalsLabel(s) = "neutral"
           /\ Ranks!ValuationLabel(s) = "unknown"
  <1>1. \A p \in DOMAIN Ranks!Pillars : Ranks!PillarScore(s, p) = Ranks!None
    BY ErrorIs
  <1>2. Ranks!Mean([p \in Ranks!Quality |-> Ranks!PillarScore(s, p)]) = Ranks!None
    <2> DEFINE f == [p \in Ranks!Quality |-> Ranks!PillarScore(s, p)]
    <2>1. {} = {n \in DOMAIN f : f[n] # Ranks!None}
      BY <1>1, QualityIs
    <2> HIDE DEF f
    <2>2. Ranks!Mean(f) = Ranks!None
      BY <2>1, MeanIs
    <2> QED
      BY <2>2 DEF f
  <1>3. Ranks!FundamentalsLabel(s) = "neutral"
    BY <1>2 DEF Ranks!FundamentalsLabel
  <1>4. ~Ranks!Missing(s) => Ranks!Profile(s) = "default"
    <2>1. ~Ranks!Missing(s) => s.sector = ""
      BY ErrorIs
    <2> DEFINE growing == Ranks!OrElse(Ranks!PillarScore(s, "growth"), Ranks!One) >= 5500
               earning == Ranks!OrElse(Ranks!PillarScore(s, "cash_flow"), Ranks!One) >= 4000
    <2>2. Ranks!Profile(s) = CASE s.sector = "financials" -> "financials"
                               [] s.sector = "software" /\ growing -> "growth_software"
                               [] s.sector = "mature" /\ earning -> "mature_cashflow"
                               [] OTHER -> "default"
      BY DEF Ranks!Profile
    <2> HIDE DEF growing, earning
    <2> QED
      BY <2>1, <2>2
  <1>5. Ranks!PillarScore(s, "valuation") = Ranks!None
    BY <1>1, PillarsAre
  <1>6. Ranks!Status(Ranks!None) = "unavailable"
    BY DEF Ranks!Status, Ranks!None
  <1>7. Ranks!ValuationLabel(s) = "unknown"
    BY <1>4, <1>5, <1>6 DEF Ranks!ValuationLabel
  <1> QED
    BY <1>3, <1>7

\* An error is doubted where nothing at all is given the benefit of it.
LEMMA ErrorBehind ==
    ASSUME NEW c \in Candidates
    PROVE  Ranks!NotBehind(Ranks!Place(c, Ranks!NoSnapshot), Ranks!Place(c, Ranks!ErrorSnapshot))
  <1> DEFINE s == Ranks!NoSnapshot
             t == Ranks!ErrorSnapshot
             d == Ranks!Decide(c, s)
             e == Ranks!Decide(c, t)
             technical == Ranks!TechnicalLabel(c)
  <1>1. /\ Ranks!FundamentalsLabel(s) = "neutral" /\ Ranks!FundamentalsLabel(t) = "neutral"
        /\ Ranks!ValuationLabel(s) = "unknown" /\ Ranks!ValuationLabel(t) = "unknown"
    BY UntoldLabels
  <1>2. /\ d.fundamentals = "neutral" /\ d.valuation = "unknown"
        /\ e.fundamentals = "neutral" /\ e.valuation = "unknown"
    BY <1>1 DEF Ranks!Decide
  <1>3. /\ Ranks!Place(c, s).combined = Ranks!Combined(c, d, s)
        /\ Ranks!Place(c, t).combined = Ranks!Combined(c, e, t)
    BY DEF Ranks!Place
  <1>4. /\ Ranks!Missing(s) /\ ~Ranks!Missing(t)
        /\ t.coverage = "insufficient" /\ t.freshness = "unknown" /\ t.quality = "low"
        /\ t.confidence = 0 /\ t.freshness_penalty = 0 /\ t.coverage_penalty = 0
        /\ t.business_quality = Ranks!None /\ t.valuation = Ranks!None
    BY ErrorIs
  <1>5. technical \in Labels
    BY SetupLabelIs
  <1> HIDE DEF s, t, d, e, technical
  <1>6. /\ Ranks!FundamentalsScore("neutral", s) = 5000
        /\ Ranks!ValuationScore("unknown", s) = 5000
    BY <1>4, LabelScoreIs DEF Ranks!FundamentalsScore, Ranks!ValuationScore
  <1>7. Ranks!Trusted(5000, t, 2500) = 1250 /\ Ranks!Trusted(5000, t, 4000) = 2000
    <2>1. Ranks!Max({2500, t.confidence}) = 2500 /\ Ranks!Max({4000, t.confidence}) = 4000
      BY <1>4, MoreOf
    <2> QED
      BY <2>1, NoneIs DEF Ranks!Trusted
  <1>8. /\ Ranks!ValuationScore("unknown", t) = 2000
        /\ Ranks!FundamentalsScore("neutral", t) = 1250
    <2>1. t.freshness_penalty + t.coverage_penalty \div 2 = 0
      BY <1>4
    <2>2. Ranks!Max({0, Ranks!One - (t.freshness_penalty + t.coverage_penalty \div 2)}) = 10000
      BY <2>1, NoneIs, MoreOf
    <2>3. /\ Ranks!OrElse(t.business_quality, Ranks!LabelScore["neutral"]) = 5000
          /\ Ranks!OrElse(t.valuation, Ranks!LabelScore["unknown"]) = 5000
      BY <1>4, LabelScoreIs DEF Ranks!OrElse
    <2>4. Ranks!FundamentalsScore("neutral", t) = (1250 * 10000) \div Ranks!One
      BY <1>4, <1>7, <2>2, <2>3 DEF Ranks!FundamentalsScore
    <2> QED
      BY <1>4, <1>7, <2>3, <2>4, NoneIs DEF Ranks!ValuationScore
  <1>9. /\ Ranks!Points(technical, "neutral", "unknown", "weak", s) \in Int
        /\ Ranks!Points(technical, "neutral", "unknown", "weak", t) \in Int
        /\ Ranks!Points(technical, "neutral", "unknown", "weak", s)
               >= Ranks!Points(technical, "neutral", "unknown", "weak", t)
    BY <1>4, <1>5 DEF Ranks!Points, Labels
  <1>10. Ranks!Combined(c, d, s) >= Ranks!Combined(c, e, t)
    BY <1>2, <1>6, <1>8, CombinedGrows
  <1>11. Ranks!Place(c, s).rank >= Ranks!Place(c, t).rank
    <2>1. /\ Ranks!FundamentalsLabel(s) = "neutral" /\ Ranks!FundamentalsLabel(t) = "neutral"
          /\ Ranks!ValuationLabel(s) = "unknown" /\ Ranks!ValuationLabel(t) = "unknown"
      BY <1>1
    <2>2. NoWeaker("neutral", "neutral")
      BY DEF NoWeaker, Labels
    <2> QED
      BY <1>9, <2>1, <2>2, RankGrows DEF technical
  <1>12. Ranks!NotBehind(Ranks!Place(c, s), Ranks!Place(c, t))
    BY <1>3, <1>10, <1>11 DEF Ranks!NotBehind
  <1> QED
    BY <1>12 DEF s, t

-----------------------------------------------------------------------------
\* The place is what the stored snapshot makes of the candidate, and that snapshot is of
\* the company's record as it is, unless it is none or an error.
RankInv ==
    part = "ranking" =>
        /\ candidate \in Candidates /\ rec \in Reports
        /\ place = Ranks!Place(candidate, snap)
        /\ Ranks!Told => snap = Ranks!Snapshot(rec)

LEMMA InitRank == MCInit => RankInv
  BY DEF MCInit, Ranks!Init, RankInv, Ranks!Told, Ranks!Missing

LEMMA StepRank ==
    ASSUME RankInv, [MCNext]_<<part, vars, backtest, ranks, cards, reports>>
    PROVE  RankInv'
  <1>1. CASE part = "ranking" /\ Ranks!Next
    <2>1. part' = part
      BY <1>1 DEF MCNext
    <2>2. CASE Ranks!Outage
      BY <1>1, <2>1, <2>2, ErrorIs DEF RankInv, Ranks!Outage, Ranks!Screened, Ranks!Told
    <2>3. CASE \E r \in Ranks!Neighbours : Ranks!Report(r)
      BY <1>1, <2>1, <2>3
         DEF RankInv, Ranks!Neighbours, Ranks!Report, Ranks!Screened, Ranks!Told
    <2> QED
      BY <1>1, <2>2, <2>3 DEF Ranks!Next
  <1>2. CASE ~(part = "ranking" /\ Ranks!Next)
    <2>1. UNCHANGED ranks /\ part' = part
      BY <1>2 DEF MCNext, ranks
    <2> QED
      BY <2>1 DEF RankInv, ranks, Ranks!Told, Ranks!Missing
  <1> QED
    BY <1>1, <1>2

Helps ==
    /\ Ranks!Told /\ snap'.error = FALSE /\ Ranks!Better(rec', rec)
           /\ Ranks!ValuationLabel(snap') = Ranks!ValuationLabel(snap)
        => Ranks!NotBehind(place', place)
    /\ Ranks!Missing(snap) /\ snap' = Ranks!ErrorSnapshot => Ranks!NotBehind(place, place')

LEMMA StepHelps ==
    ASSUME RankInv, [MCNext]_<<part, vars, backtest, ranks, cards, reports>>
    PROVE  [Helps]_Ranks!vars
  <1>1. CASE part = "ranking" /\ Ranks!Next
    <2>1. /\ candidate \in Candidates /\ rec \in Reports
          /\ place = Ranks!Place(candidate, snap)
          /\ Ranks!Told => snap = Ranks!Snapshot(rec)
      BY <1>1 DEF RankInv
    <2>2. place' = Ranks!Place(candidate, snap')
      BY <1>1 DEF Ranks!Next, Ranks!Outage, Ranks!Report, Ranks!Screened
    <2>3. ASSUME Ranks!Missing(snap), snap' = Ranks!ErrorSnapshot
          PROVE  Ranks!NotBehind(place, place')
      BY <2>1, <2>2, <2>3, ErrorBehind DEF Ranks!Missing
    <2>4. ASSUME Ranks!Told, Ranks!Better(rec', rec),
                 Ranks!ValuationLabel(snap') = Ranks!ValuationLabel(snap)
          PROVE  Ranks!NotBehind(place', place)
      <3>1. PICK r \in Ranks!Neighbours : Ranks!Report(r)
        BY <1>1, <2>4 DEF Ranks!Next, Ranks!Outage, Ranks!Told
      <3>2. r \in Reports /\ rec' = r /\ snap' = Ranks!Snapshot(r)
        BY <3>1 DEF Ranks!Neighbours, Ranks!Report, Ranks!Screened
      <3>3. Stronger(snap', snap)
        BY <2>1, <2>4, <3>2, SnapshotGrows
      <3> QED
        BY <2>1, <2>2, <2>4, <3>3, PlaceGrows
    <2> QED
      BY <2>3, <2>4 DEF Helps
  <1>2. CASE ~(part = "ranking" /\ Ranks!Next)
    <2>1. UNCHANGED ranks
      BY <1>2 DEF MCNext, ranks
    <2> QED
      BY <2>1 DEF ranks, Ranks!vars
  <1> QED
    BY <1>1, <1>2

\* Better or fresher figures never put a candidate further behind while its company is
\* valued the same, nor does an answer of no provider put it ahead, of any candidate and
\* any record and however the parts are weighed: every score, label, penalty, action and
\* conviction that priority.py and decision_summary.py make of the evidence grows with it.
THEOREM EvidenceNeverHurts == MCSpec => EvidenceHelps
  BY InitRank, StepRank, StepHelps, PTL DEF MCSpec, EvidenceHelps, Ranks!EvidenceHelps, Helps

=============================================================================
