--------------------------- MODULE ReentryProofs ---------------------------
(***************************************************************************)
(* A candidate beside the portfolio, for every set of prices, every budget *)
(* and cap and every sequence of runs and trades: what is recommended fits *)
(* the budget of its run, and what it is shown as was true meanwhile.      *)
(***************************************************************************)
EXTENDS DailyReview, FiniteSetTheorems, TLAPS

Stop == Nat \ {0}

Stops == Stop \cup {None}

Rec == [verdict : BOOLEAN, entry : Prices, stop : Stops, shares : Int]

\* A recommendation whose trade fits.
Fits(r, budget) ==
    /\ r.stop \in Stop /\ r.stop < r.entry
    /\ r.shares >= MinShares
    /\ (r.entry - r.stop) * r.shares \in 1..budget
    /\ r.entry * r.shares <= Cap

Sound(r, budget) == r \in Rec /\ (r.verdict => Fits(r, budget))

-----------------------------------------------------------------------------
(* Arithmetic.                                                               *)

\* The first of the open positions is one of them.
LEMMA MinIn ==
    ASSUME NEW S \in SUBSET Nat, S # {}
    PROVE  Min(S) \in S
  <1> DEFINE R == OpToRel(<, Nat)
  <1>1. \A x, y \in Nat : x < y => <<x, y>> \in R
    BY DEF OpToRel
  <1>2. IsWellFoundedOn(R, Nat)
    BY NatLessThanWellFounded
  <1> HIDE DEF R
  <1>3. PICK x \in S : \A y \in S : ~ (<<y, x>> \in R)
    BY <1>2, WFMin
  <1>4. ASSUME NEW y \in S
        PROVE  x <= y
    <2>1. x \in Nat /\ y \in Nat
      OBVIOUS
    <2>2. ~ (y < x)
      BY <1>1, <1>3, <2>1, Zenon
    <2> QED
      BY <2>1, <2>2
  <1> QED
    BY <1>4 DEF Min

LEMMA MinOfThree ==
    ASSUME NEW a \in Int, NEW b \in Int, NEW c \in Int
    PROVE  /\ Min({a, b, c}) \in Int
           /\ Min({a, b, c}) <= a /\ Min({a, b, c}) <= b /\ Min({a, b, c}) <= c
  <1>1. \E x \in {a, b, c} : \A y \in {a, b, c} : x <= y
    OBVIOUS
  <1> QED
    BY <1>1 DEF Min

LEMMA MinOfTwo ==
    ASSUME NEW a \in Int, NEW b \in Int
    PROVE  Min({a, b}) = IF a <= b THEN a ELSE b
  <1>1. \E x \in {a, b} : \A y \in {a, b} : x <= y
    OBVIOUS
  <1> QED
    BY <1>1 DEF Min

LEMMA MaxOfTwo ==
    ASSUME NEW a \in Int, NEW b \in Int
    PROVE  Max({a, b}) = IF b > a THEN b ELSE a
  <1>1. \E x \in {a, b} : \A y \in {a, b} : x >= y
    OBVIOUS
  <1> QED
    BY <1>1 DEF Max

LEMMA PositivePart ==
    ASSUME NEW d \in Int
    PROVE  Max({0, d}) = IF d > 0 THEN d ELSE 0
  BY MaxOfTwo

LEMMA DivBound ==
    ASSUME NEW m \in Int, NEW d \in Nat \ {0}, NEW n \in Int, n <= m \div d
    PROVE  d * n <= m
  <1>1. d * (m \div d) <= m
    OBVIOUS
  <1>2. d * n <= d * (m \div d)
    OBVIOUS
  <1> QED
    BY <1>1, <1>2

LEMMA Positive ==
    ASSUME NEW m \in Int, NEW n \in Int, m >= 1, n >= 1
    PROVE  m * n >= 1
  OBVIOUS

-----------------------------------------------------------------------------
(* What Sizing recommends.                                                   *)

LEMMA RecommendSound ==
    ASSUME NEW active \in BOOLEAN, NEW entry \in Prices, NEW stop \in Stops,
           NEW shares \in Int, NEW budget \in Nat
    PROVE  Sound(Recommend(active, entry, stop, shares, budget), budget)
  <1> DEFINE defined == stop # None /\ stop < entry
             sized == IF shares # None THEN shares
                      ELSE IF defined THEN budget \div (entry - stop)
                      ELSE Cap \div entry
             final == Lesser(sized, Cap \div entry)
             r == Recommend(active, entry, stop, shares, budget)
  <1>1. entry \in Nat \ {0} /\ stop \in Int /\ Cap \in Nat /\ MinShares \in Nat \ {0}
    BY PricesAssumption, MoneyAssumption, RatesAssumption DEF Stops, Stop, None
  <1>2. Cap \div entry \in Int /\ sized \in Int
    BY <1>1
  <1>3. final \in Int /\ final <= Cap \div entry
    BY <1>2 DEF Lesser
  <1>4. r = [verdict |-> /\ active /\ defined /\ final >= MinShares
                         /\ (entry - stop) * final <= budget
                         /\ RRTarget >= MinRR
                         /\ FeesOK(entry, stop, final),
             entry |-> entry, stop |-> stop, shares |-> final]
    BY DEF Recommend
  <1>5. entry * final <= Cap
    BY <1>1, <1>3, DivBound
  <1> HIDE DEF r, final
  <1>6. r \in Rec
    BY <1>3, <1>4 DEF Rec
  <1>7. ASSUME r.verdict
        PROVE  Fits(r, budget)
    <2>1. defined /\ final >= MinShares /\ (entry - stop) * final <= budget
      BY <1>4, <1>7
    <2>2. entry - stop >= 1 /\ final >= 1
      BY <1>1, <1>3, <2>1
    <2>3. (entry - stop) * final >= 1
      BY <1>1, <1>3, <2>2, Positive
    <2>4. (entry - stop) * final \in 1..budget
      BY <1>1, <1>3, <2>1, <2>3
    <2> QED
      BY <1>4, <1>5, <2>1, <2>4 DEF Fits, Stops
  <1> QED
    BY <1>6, <1>7 DEF Sound, r

LEMMA CandidateSound ==
    ASSUME NEW active \in BOOLEAN, NEW entry \in Prices, NEW stop \in Stops,
           stop < entry, NEW level \in Prices, NEW budget \in Nat
    PROVE  Sound(Candidate(active, entry, stop, level, budget), budget)
  <1> DEFINE tight == IF stop = None THEN None ELSE PatternStop(entry, stop, level)
             plan == IF active /\ stop # None THEN PositionPlan(entry, stop, budget)
                     ELSE None
  <1>1. tight \in Stops
    BY PricesAssumption DEF Stops, Stop, PatternStop
  <1>2. entry \in Nat \ {0} /\ stop \in Int /\ Cap \in Nat /\ entry - stop \in Nat \ {0}
    BY PricesAssumption, MoneyAssumption DEF Stops, Stop, None
  <1>3. plan \in Int
    BY <1>2 DEF PositionPlan, Lesser, None
  <1> QED
    BY <1>1, <1>3, RecommendSound DEF Candidate

LEMMA RebuiltSound ==
    ASSUME NEW active \in BOOLEAN, NEW r, NEW act, NEW budget \in Nat,
           Sound(r, budget)
    PROVE  Sound(Rebuilt(active, r, act, budget), budget)
  <1>1. r.entry \in Prices /\ r.stop \in Stops /\ r.shares \in Int
    BY DEF Sound, Rec
  <1>2. (act \in Buys) \in BOOLEAN
    OBVIOUS
  <1> QED
    BY <1>1, <1>2, RecommendSound DEF Rebuilt

LEMMA BudgetType ==
    ASSUME NEW weak \in BOOLEAN, NEW wild \in BOOLEAN
    PROVE  Budget(weak, wild) \in Nat
  BY MoneyAssumption, RatesAssumption DEF Budget

\* Whatever a run computes fits, before it looks in the portfolio.
LEMMA ScreenedSound ==
    ASSUME NEW s \in Screened
    PROVE  /\ s.budget \in Nat
           /\ Sound(s.rec, s.budget) /\ Sound(s.rebuilt, s.budget)
  <1>1. PICK budget \in {Budget(weak, wild) : weak, wild \in BOOLEAN},
             signal \in BOOLEAN,
             pair \in {p \in Prices \X (Prices \cup {None}) : p[2] < p[1]},
             level \in Prices,
             act \in {DecisionAction(technical, fundamentals, expensive, "new") :
                         technical, fundamentals \in Labels, expensive \in BOOLEAN} :
            LET rec == Candidate(signal /\ pair[2] # None, pair[1], pair[2], level, budget)
            IN  s = [budget |-> budget, rec |-> rec,
                     rebuilt |-> Rebuilt(signal /\ pair[2] # None, rec, act, budget)]
    BY DEF Screened
  <1> DEFINE active == signal /\ pair[2] # None
             entry == pair[1]
             stop == pair[2]
             rec == Candidate(active, entry, stop, level, budget)
             rebuilt == Rebuilt(active, rec, act, budget)
  <1>2. budget \in Nat
    BY BudgetType
  <1>3. entry \in Prices /\ stop \in Stops /\ stop < entry
    <2>1. entry \in Prices /\ stop \in Prices \cup {None} /\ stop < entry
      OBVIOUS
    <2> HIDE DEF entry, stop
    <2> QED
      BY <2>1, PricesAssumption DEF Stops, Stop
  <1>4. active \in BOOLEAN
    OBVIOUS
  <1>5. s = [budget |-> budget, rec |-> rec, rebuilt |-> rebuilt]
    BY <1>1
  <1> HIDE DEF active, entry, stop
  <1>6. Sound(rec, budget)
    BY <1>2, <1>3, <1>4, CandidateSound
  <1> HIDE DEF rec
  <1>7. Sound(rebuilt, budget)
    BY <1>2, <1>4, <1>6, RebuiltSound
  <1> HIDE DEF rebuilt
  <1> QED
    BY <1>2, <1>5, <1>6, <1>7

-----------------------------------------------------------------------------
(* The invariant: what the run has in hand fits, and so does what is shown.  *)

Open == [entry : Prices, stop : Stop, shares : Nat \ {0}, trimmed : BOOLEAN,
         status : {"open"}]

Position == Open \cup {Sold(TRUE), Sold(FALSE)}

Order == [entry : Prices, stop : Stop, shares : Nat \ {0}]

Looking == {"closed", "orders", "evaluate"}

Begun == [at : {"open"}, budget : Nat, rec : Rec, rebuilt : Rec]

Looked == [at : Looking, budget : Nat, rec : Rec, rebuilt : Rec, held : Int,
           as : Open \cup {Nobody}, several : BOOLEAN, left : BOOLEAN,
           pending : BOOLEAN]

Proposal == [mode : Modes, rec : Rec, budget : Nat, several : BOOLEAN]

TypeOK ==
    /\ positions \in Seq(Position)
    /\ order = NoOrder \/ order \in Order
    /\ run = Idle \/ run \in Begun \/ run \in Looked
    /\ shown = Nothing \/ shown \in Proposal

RunFits ==
    run # Idle => Sound(run.rec, run.budget) /\ Sound(run.rebuilt, run.budget)

HeldIsOpen == run.at \in Looking /\ run.held # None => run.as \in Open

ShownFits == shown # Nothing => Fits(shown.rec, shown.budget)

FitInv == TypeOK /\ RunFits /\ HeldIsOpen /\ ShownFits

LEMMA FitInit == Init => FitInv
  BY DEF Init, FitInv, TypeOK, RunFits, HeldIsOpen, ShownFits, Idle, Nothing, Looking

\* The place of an open position has one.
LEMMA OpenAt ==
    ASSUME positions \in Seq(Position), NEW i \in OpenPlaces
    PROVE  i \in 1..Len(positions) /\ positions[i] \in Open
  <1>1. i \in 1..Len(positions) /\ positions[i].status = "open"
    BY DEF OpenPlaces
  <1>2. positions[i] \in Position
    BY <1>1
  <1> QED
    BY <1>1, <1>2 DEF Position, Sold

LEMMA FirstOpenAt ==
    ASSUME positions \in Seq(Position)
    PROVE  /\ FirstOpen \in Int
           /\ FirstOpen # None <=> OpenPlaces # {}
           /\ FirstOpen # None => FirstOpen \in OpenPlaces
  <1>1. OpenPlaces \in SUBSET Nat
    BY DEF OpenPlaces
  <1>2. CASE OpenPlaces = {}
    BY <1>2 DEF FirstOpen, None
  <1>3. CASE OpenPlaces # {}
    <2>1. Min(OpenPlaces) \in OpenPlaces
      BY <1>1, <1>3, MinIn
    <2>2. FirstOpen = Min(OpenPlaces)
      BY <1>3 DEF FirstOpen
    <2>3. FirstOpen \in Nat
      BY <1>1, <2>1, <2>2
    <2> QED
      BY <1>3, <2>1, <2>2, <2>3 DEF None
  <1> QED
    BY <1>2, <1>3

LEMMA OpenedType ==
    ASSUME positions \in Seq(Position), NEW entry \in Prices, NEW stop \in Stop,
           NEW shares \in Nat \ {0}
    PROVE  Opened(entry, stop, shares) \in Seq(Position)
  <1> DEFINE p == [entry |-> entry, stop |-> stop, shares |-> shares,
                   trimmed |-> FALSE, status |-> "open"]
  <1>1. p \in Position
    BY DEF Position, Open
  <1>2. Opened(entry, stop, shares) = Append(positions, p)
    BY DEF Opened
  <1> HIDE DEF p
  <1> QED
    BY <1>1, <1>2

\* The user's actions leave run and candidate alone.
LEMMA PortfolioFit ==
    ASSUME FitInv, NEW change \in Seq(Position), Portfolio(change),
           order' = NoOrder \/ order' \in Order
    PROVE  FitInv'
  BY DEF FitInv, TypeOK, RunFits, HeldIsOpen, ShownFits, Portfolio

LEMMA RiskType ==
    ASSUME NEW held \in Open
    PROVE  RiskOf(held) \in Nat
  <1>1. held.entry \in Nat /\ held.stop \in Nat /\ held.shares \in Nat
    BY PricesAssumption DEF Open, Stop
  <1> DEFINE d == held.entry - held.stop
             m == Max({0, d})
  <1>2. d \in Int
    BY <1>1
  <1> HIDE DEF d
  <1>3. \E x \in {0, d} : \A y \in {0, d} : x >= y
    BY <1>2
  <1>4. m \in Nat
    BY <1>2, <1>3 DEF Max
  <1> HIDE DEF m
  <1>5. RiskOf(held) = m * held.shares
    BY DEF RiskOf, m, d
  <1> QED
    BY <1>1, <1>4, <1>5

\* What an add-on may buy fits beside the position it adds to.
LEMMA AddOnFit ==
    ASSUME NEW r \in Rec, NEW budget \in Nat, NEW held \in Open,
           held.stop < r.entry, NEW n \in Int, n >= MinShares,
           NEW risk \in Nat, NEW cost \in Nat,
           (r.entry - held.stop) * n <= budget - risk,
           r.entry * n <= Cap - cost
    PROVE  Fits([r EXCEPT !.stop = held.stop, !.shares = n], budget)
  <1> DEFINE q == [r EXCEPT !.stop = held.stop, !.shares = n]
  <1>1. /\ r.entry \in Nat \ {0} /\ held.stop \in Nat \ {0}
        /\ Cap \in Nat /\ MinShares \in Nat \ {0}
    BY PricesAssumption, MoneyAssumption, RatesAssumption DEF Rec, Open, Stop
  <1>2. q.entry = r.entry /\ q.stop = held.stop /\ q.shares = n
    BY DEF Rec
  <1>3. r.entry - held.stop >= 1 /\ n >= 1
    BY <1>1
  <1>4. (r.entry - held.stop) * n >= 1
    BY <1>1, <1>3, Positive
  <1>5. (r.entry - held.stop) * n \in 1..budget /\ r.entry * n <= Cap
    BY <1>1, <1>4
  <1> QED
    BY <1>2, <1>5 DEF Fits, Open

LEMMA AddOnSharesFit ==
    ASSUME run \in Looked, run.as \in Open, run.as.stop < run.rec.entry,
           NEW price \in Prices
    PROVE  LET n == AddOnShares(price)
           IN  /\ n \in Int
               /\ (run.rec.entry - run.as.stop) * n <= run.budget - RiskOf(run.as)
               /\ run.rec.entry * n <= Cap - price * run.as.shares
  <1> DEFINE left == run.budget - RiskOf(run.as)
             d == run.rec.entry - run.as.stop
             room == Cap - price * run.as.shares
             entry == run.rec.entry
             n == AddOnShares(price)
  <1>1. /\ entry \in Nat \ {0} /\ run.as.stop \in Nat /\ run.as.shares \in Nat
        /\ run.budget \in Nat /\ run.rec.shares \in Int
        /\ price \in Nat /\ Cap \in Nat
    BY PricesAssumption, MoneyAssumption DEF Looked, Rec, Open, Stop
  <1>2. left \in Int
    BY <1>1, RiskType
  <1>3. room \in Int
    BY <1>1
  <1>4. d \in Nat \ {0}
    BY <1>1
  <1>5. n = Min({run.rec.shares, left \div d, room \div entry})
    BY DEF AddOnShares
  <1> HIDE DEF left, d, room, entry, n
  <1>6. left \div d \in Int /\ room \div entry \in Int
    BY <1>1, <1>2, <1>3, <1>4
  <1>7. n \in Int /\ n <= left \div d /\ n <= room \div entry
    BY <1>1, <1>5, <1>6, MinOfThree
  <1>8. d * n <= left /\ entry * n <= room
    BY <1>1, <1>2, <1>3, <1>4, <1>7, DivBound
  <1> QED
    BY <1>7, <1>8 DEF left, d, room, entry, n

\* What the dialog offers can be sent, for no more shares than are shown.
LEMMA DialogType ==
    ASSUME shown \in Proposal, Fits(shown.rec, shown.budget), NEW limit \in Prices
    PROVE  /\ Dialog(limit) \in Order
           /\ Dialog(limit).shares <= shown.rec.shares
           /\ Dialog(limit).stop = IF shown.rec.stop < limit THEN shown.rec.stop
                                   ELSE IF limit > 1 THEN limit - 1 ELSE 1
  <1> DEFINE stop == shown.rec.stop
             n == shown.rec.shares
             room == Cap \div limit
             below == Min({stop, limit - 1})
             few == Min({n, room})
  <1>1. /\ stop \in Nat \ {0} /\ n \in Nat \ {0} /\ limit \in Nat \ {0}
        /\ Cap \in Nat
    BY PricesAssumption, MoneyAssumption, RatesAssumption
    DEF Proposal, Rec, Fits, Stop
  <1>2. room \in Int
    BY <1>1
  <1> HIDE DEF stop, n, room
  <1>3. below = IF stop < limit THEN stop ELSE limit - 1
    BY <1>1, MinOfTwo
  <1>4. few = IF n <= room THEN n ELSE room
    BY <1>1, <1>2, MinOfTwo
  <1>5. below \in Int /\ few \in Int
    BY <1>1, <1>2, <1>3, <1>4
  <1> HIDE DEF below, few
  <1> DEFINE raised == Max({1, below})
             shares == Max({1, few})
  <1>6. raised = (IF below > 1 THEN below ELSE 1) /\ shares = (IF few > 1 THEN few ELSE 1)
    BY <1>5, MaxOfTwo
  <1>7. Dialog(limit) = [entry |-> limit, stop |-> raised, shares |-> shares]
    BY DEF Dialog, raised, shares, below, few, stop, n, room
  <1> HIDE DEF raised, shares
  <1>8. /\ raised \in Nat \ {0} /\ shares \in Nat \ {0} /\ shares <= n
        /\ raised = IF stop < limit THEN stop ELSE IF limit > 1 THEN limit - 1 ELSE 1
    BY <1>1, <1>2, <1>3, <1>4, <1>5, <1>6
  <1> QED
    BY <1>7, <1>8 DEF Order, Stop, stop, n

\* It loses no more than what is shown does, but for a higher price.
LEMMA DialogLoss ==
    ASSUME shown \in Proposal, Fits(shown.rec, shown.budget), NEW limit \in Prices
    PROVE  Loss(Dialog(limit)) \in Int /\ Excess(limit) \in Int
           /\ Loss(Dialog(limit)) <= RiskShown + Excess(limit)
  <1> DEFINE e == shown.rec.entry
             s == shown.rec.stop
             n == shown.rec.shares
             t == Dialog(limit).stop
             k == Dialog(limit).shares
             over == Max({0, limit - e})
             d == e - s
  <1>1. /\ e \in Nat \ {0} /\ s \in Nat \ {0} /\ n \in Nat \ {0} /\ s < e
        /\ limit \in Nat \ {0}
    <2>1. e \in Prices /\ n \in Int
      BY DEF Proposal, Rec
    <2>2. s \in Stop /\ s < e /\ n >= MinShares
      BY DEF Fits
    <2> HIDE DEF e, s, n
    <2> QED
      BY <2>1, <2>2, PricesAssumption, RatesAssumption DEF Stop
  <1>2. /\ k \in Nat \ {0} /\ k <= n /\ Dialog(limit).entry = limit
        /\ t = IF s < limit THEN s ELSE IF limit > 1 THEN limit - 1 ELSE 1
    BY DialogType DEF Order, Dialog
  <1>3. Loss(Dialog(limit)) = (limit - t) * k /\ Excess(limit) = over * k
        /\ RiskShown = d * n
    BY <1>2 DEF Loss, Excess, RiskShown
  <1> HIDE DEF e, s, n, t, k
  <1>4. over = (IF limit - e > 0 THEN limit - e ELSE 0) /\ d \in Nat \ {0}
    BY <1>1, PositivePart
  <1>5. over \in Nat /\ limit - t \in Nat /\ limit - t <= d + over
    BY <1>1, <1>2, <1>4
  <1> HIDE DEF over, d
  <1> DEFINE gap == limit - t
             both == d + over
  <1>6. gap \in Nat /\ both \in Nat /\ gap <= both
    BY <1>4, <1>5
  <1> HIDE DEF gap
  <1>7. gap * k <= both * k /\ both * k = d * k + over * k
    BY <1>2, <1>4, <1>5, <1>6
  <1>8. d * k <= d * n
    BY <1>1, <1>2, <1>4
  <1>9. gap * k \in Int /\ over * k \in Int /\ d * k \in Int /\ d * n \in Int
    BY <1>1, <1>2, <1>4, <1>5, <1>6
  <1> QED
    BY <1>3, <1>7, <1>8, <1>9 DEF gap

LEMMA ShowFit ==
    ASSUME FitInv, run \in Looked, NEW mode \in Modes, NEW r \in Rec,
           r.verdict => Fits(r, run.budget), Show(mode, r)
    PROVE  FitInv'
  <1>1. /\ positions' = positions /\ order' = order /\ run' = Idle
        /\ shown' = IF r.verdict THEN [mode |-> mode, rec |-> r, budget |-> run.budget,
                                       several |-> run.several]
                    ELSE Nothing
    BY DEF Show, Finish
  <1>2. run.budget \in Nat /\ run.several \in BOOLEAN
    BY DEF Looked
  <1>3. TypeOK'
    BY <1>1, <1>2 DEF FitInv, TypeOK, Proposal
  <1>4. RunFits' /\ HeldIsOpen'
    BY <1>1 DEF RunFits, HeldIsOpen, Idle, Looking
  <1>5. ShownFits'
    BY <1>1 DEF ShownFits
  <1> QED
    BY <1>3, <1>4, <1>5 DEF FitInv

\* A run at work has begun, and has looked in the portfolio once it is past "open".
LEMMA RunAt ==
    ASSUME TypeOK
    PROVE  /\ run.at = "open" => run \in Begun
           /\ run.at \in Looking => run \in Looked
           /\ run = Idle <=> run.at = "idle"
  BY DEF TypeOK, Idle, Begun, Looked, Looking

LEMMA FitStep == FitInv /\ [Next]_vars => FitInv'
  <1> SUFFICES ASSUME FitInv, [Next]_vars PROVE FitInv'
    OBVIOUS
  <1> USE RunAt DEF FitInv
  <1>1. CASE Screen
    <2>1. PICK s \in Screened :
            run' = [at |-> "open", budget |-> s.budget, rec |-> s.rec,
                    rebuilt |-> s.rebuilt]
      BY <1>1 DEF Screen
    <2>2. /\ s.budget \in Nat
          /\ Sound(s.rec, s.budget) /\ Sound(s.rebuilt, s.budget)
      BY ScreenedSound
    <2>3. run' \in Begun
      BY <2>1, <2>2 DEF Sound, Begun
    <2>4. positions' = positions /\ order' = order /\ shown' = Nothing
      BY <1>1 DEF Screen
    <2> QED
      BY <2>1, <2>2, <2>3, <2>4
      DEF TypeOK, RunFits, HeldIsOpen, ShownFits, Looking
  <1>2. CASE ReadOpen
    <2>1. run \in Begun /\ run # Idle
      BY <1>2 DEF ReadOpen, Idle
    <2> DEFINE as == IF FirstOpen = None THEN Nobody ELSE positions[FirstOpen]
               several == Cardinality(OpenPlaces) > 1
    <2>2. run' = [at |-> "closed", budget |-> run.budget, rec |-> run.rec,
                  rebuilt |-> run.rebuilt, held |-> FirstOpen, as |-> as,
                  several |-> several, left |-> FALSE, pending |-> FALSE]
      BY <1>2 DEF ReadOpen
    <2>3. /\ FirstOpen \in Int
          /\ FirstOpen # None => positions[FirstOpen] \in Open
      BY FirstOpenAt, OpenAt DEF TypeOK
    <2>4. as \in Open \cup {Nobody} /\ (FirstOpen # None => as \in Open)
      BY <2>3
    <2>5. several \in BOOLEAN
      OBVIOUS
    <2>6. positions' = positions /\ order' = order /\ shown' = shown
      BY <1>2 DEF ReadOpen
    <2> HIDE DEF as, several
    <2>7. run' \in Looked
      BY <2>1, <2>2, <2>3, <2>4, <2>5 DEF Begun, Looked, Looking
    <2> QED
      BY <2>1, <2>2, <2>4, <2>6, <2>7 DEF TypeOK, RunFits, HeldIsOpen, ShownFits
  <1>3. CASE ReadClosed \/ ReadOrders
    <2>1. run \in Looked /\ run # Idle
      BY <1>3 DEF ReadClosed, ReadOrders, Looking, Idle
    <2>2. PICK at \in Looking, left \in BOOLEAN, pending \in BOOLEAN :
            run' = [run EXCEPT !.at = at, !.left = left, !.pending = pending]
      <3>1. CASE ReadClosed
        <4>1. RecentlyClosed \in BOOLEAN
          BY DEF RecentlyClosed
        <4>2. run' = [run EXCEPT !.at = "orders", !.left = RecentlyClosed,
                                 !.pending = run.pending]
          BY <2>1, <3>1 DEF ReadClosed, Looked
        <4> QED
          BY <2>1, <4>1, <4>2 DEF Looking, Looked
      <3>2. CASE ReadOrders
        <4>1. PICK failed \in BOOLEAN :
                run' = [run EXCEPT !.at = "evaluate",
                                   !.pending = ~failed /\ order # NoOrder]
          BY <3>2 DEF ReadOrders
        <4>2. run' = [run EXCEPT !.at = "evaluate", !.left = run.left,
                                 !.pending = ~failed /\ order # NoOrder]
          BY <2>1, <4>1 DEF Looked
        <4>3. (~failed /\ order # NoOrder) \in BOOLEAN
          OBVIOUS
        <4> QED
          BY <2>1, <4>2, <4>3 DEF Looking, Looked
      <3> QED
        BY <1>3, <3>1, <3>2
    <2>3. positions' = positions /\ order' = order /\ shown' = shown
      BY <1>3 DEF ReadClosed, ReadOrders
    <2>4. run' \in Looked
      BY <2>1, <2>2 DEF Looked
    <2>5. /\ run'.budget = run.budget /\ run'.rec = run.rec
          /\ run'.rebuilt = run.rebuilt /\ run'.held = run.held /\ run'.as = run.as
      BY <2>1, <2>2 DEF Looked
    <2> QED
      BY <2>1, <2>3, <2>4, <2>5 DEF TypeOK, RunFits, HeldIsOpen, ShownFits, Looked
  <1>4. CASE ShowFresh \/ ManageOnly
    <2>1. run \in Looked /\ run # Idle
      BY <1>4 DEF ShowFresh, ManageOnly, Looking, Idle
    <2>2. PICK mode \in Modes, r \in {run.rec, run.rebuilt} : Show(mode, r)
      BY <1>4 DEF ShowFresh, ManageOnly, Modes
    <2>3. Sound(r, run.budget)
      BY <2>1 DEF RunFits
    <2> QED
      BY <2>1, <2>2, <2>3, ShowFit DEF Sound
  <1>5. CASE ShowAddOn
    <2>1. run \in Looked /\ run # Idle /\ run.as \in Open
      BY <1>5 DEF ShowAddOn, Looking, Idle, HeldIsOpen
    <2>2. run.rec.verdict /\ run.as.stop < run.rec.entry
      BY <1>5 DEF ShowAddOn
    <2>3. PICK price \in Prices :
            /\ AddOnShares(price) >= MinShares
            /\ Show(IF run.as.trimmed THEN "SCALE_BACK" ELSE "ADD_ON",
                    [run.rec EXCEPT !.stop = run.as.stop, !.shares = AddOnShares(price)])
      BY <1>5 DEF ShowAddOn
    <2> DEFINE n == AddOnShares(price)
               r == [run.rec EXCEPT !.stop = run.as.stop, !.shares = n]
               mode == IF run.as.trimmed THEN "SCALE_BACK" ELSE "ADD_ON"
               cost == price * run.as.shares
    <2>4. /\ n \in Int
          /\ (run.rec.entry - run.as.stop) * n <= run.budget - RiskOf(run.as)
          /\ run.rec.entry * n <= Cap - cost
      BY <2>1, <2>2, AddOnSharesFit
    <2>5. run.rec \in Rec /\ run.budget \in Nat
      BY <2>1 DEF Looked
    <2>6. cost \in Nat
      BY <2>1, PricesAssumption DEF Open, Stop
    <2> HIDE DEF n, cost
    <2>7. Fits(r, run.budget)
      BY <2>1, <2>2, <2>3, <2>4, <2>5, <2>6, RiskType, AddOnFit DEF n
    <2>8. r \in Rec
      BY <2>1, <2>4, <2>5 DEF Rec, Open, Stops
    <2>9. mode \in Modes
      BY DEF Modes, AddOns
    <2> QED
      BY <2>1, <2>3, <2>7, <2>8, <2>9, ShowFit DEF n
  <1>6. CASE User
    <2> DEFINE Places == 1..Len(positions)
    <2>1. CASE CreateOrder \/ OrderByHand
      <3>1. PICK o \in Order : Enter(o)
        <4>1. CASE CreateOrder
          <5>1. shown \in Proposal /\ Fits(shown.rec, shown.budget)
            BY <4>1 DEF CreateOrder, Orderable, TypeOK, ShownFits
          <5>2. PICK limit \in Prices : Enter(Dialog(limit))
            BY <4>1 DEF CreateOrder
          <5>3. Dialog(limit) \in Order
            BY <5>1, DialogType
          <5> QED
            BY <5>2, <5>3
        <4>2. CASE OrderByHand
          BY <4>2, LotsAssumption, PricesAssumption DEF OrderByHand, Order, Stop
        <4> QED
          BY <2>1, <4>1, <4>2
      <3> QED
        BY <3>1 DEF Enter, TypeOK, RunFits, HeldIsOpen, ShownFits
    <2>2. CASE CancelOrder
      BY <2>2 DEF CancelOrder, TypeOK, RunFits, HeldIsOpen, ShownFits
    <2>3. CASE FillOrder
      <3>1. PICK price \in Prices : Portfolio(Opened(price, order.stop, order.shares))
        BY <2>3 DEF FillOrder
      <3>2. order \in Order /\ order' = NoOrder
        BY <2>3 DEF FillOrder, TypeOK
      <3>3. Opened(price, order.stop, order.shares) \in Seq(Position)
        BY <3>2, OpenedType DEF TypeOK, Order
      <3> QED
        BY <3>1, <3>2, <3>3, PortfolioFit
    <2>4. CASE CreatePosition
      <3>1. PICK entry \in Prices, stop \in Prices, shares \in Lots :
              Portfolio(Opened(entry, stop, shares))
        BY <2>4 DEF CreatePosition
      <3>2. order' = order /\ shares \in Nat \ {0}
        BY <2>4, LotsAssumption DEF CreatePosition
      <3>3. Opened(entry, stop, shares) \in Seq(Position)
        BY <3>2, OpenedType, PricesAssumption DEF TypeOK, Stop
      <3> QED
        BY <3>1, <3>2, <3>3, PortfolioFit DEF TypeOK
    <2>5. ASSUME NEW i \in OpenPlaces, RaiseStop(i)
          PROVE  FitInv'
      <3>1. PICK stop \in Prices : Portfolio([positions EXCEPT ![i].stop = stop])
        BY <2>5 DEF RaiseStop
      <3>2. [positions EXCEPT ![i].stop = stop] \in Seq(Position)
        <4>1. [positions[i] EXCEPT !.stop = stop] \in Position
          BY OpenAt, PricesAssumption DEF TypeOK, Open, Position, Stop
        <4> QED
          BY <4>1, OpenAt DEF TypeOK
      <3> QED
        BY <2>5, <3>1, <3>2, PortfolioFit DEF RaiseStop, TypeOK
    <2>6. ASSUME NEW i \in OpenPlaces, PartialClose(i)
          PROVE  FitInv'
      <3>1. PICK sold \in 1..(positions[i].shares - 1) :
              Portfolio([positions EXCEPT ![i].shares = @ - sold, ![i].trimmed = TRUE])
        BY <2>6 DEF PartialClose
      <3> DEFINE p == [[positions[i] EXCEPT !.shares = @ - sold] EXCEPT !.trimmed = TRUE]
      <3>2. positions[i] \in Open /\ positions[i].shares \in Nat
        BY OpenAt DEF TypeOK, Open
      <3>3. positions[i].shares - sold \in Nat \ {0}
        BY <3>2
      <3>4. p \in Position
        BY <3>2, <3>3 DEF Open, Position
      <3>5. [positions EXCEPT ![i].shares = @ - sold, ![i].trimmed = TRUE]
                = [positions EXCEPT ![i] = p]
        BY OpenAt DEF TypeOK
      <3> HIDE DEF p
      <3>6. [positions EXCEPT ![i] = p] \in Seq(Position)
        BY <3>4, OpenAt DEF TypeOK
      <3> QED
        BY <2>6, <3>1, <3>5, <3>6, PortfolioFit DEF PartialClose, TypeOK
    <2>7. ASSUME NEW i \in OpenPlaces, Close(i)
          PROVE  FitInv'
      <3>1. [positions EXCEPT ![i] = Sold(TRUE)] \in Seq(Position)
        BY OpenAt DEF TypeOK, Position
      <3> QED
        BY <2>7, <3>1, PortfolioFit DEF Close, TypeOK
    <2>8. CASE Forget
      <3> DEFINE change == [i \in 1..Len(positions) |->
                    IF positions[i] = Sold(TRUE) THEN Sold(FALSE) ELSE positions[i]]
      <3>1. change \in Seq(Position)
        <4>1. ASSUME NEW i \in 1..Len(positions)
              PROVE  change[i] \in Position
          <5>1. positions[i] \in Position
            BY <4>1 DEF TypeOK
          <5>2. change[i] = IF positions[i] = Sold(TRUE) THEN Sold(FALSE)
                            ELSE positions[i]
            BY <4>1
          <5> QED
            BY <5>1, <5>2 DEF Position
        <4>2. Len(positions) \in Nat
          BY DEF TypeOK
        <4> HIDE DEF change
        <4>3. change \in [1..Len(positions) -> Position]
          BY <4>1 DEF change
        <4> QED
          BY <4>2, <4>3
      <3> HIDE DEF change
      <3> QED
        BY <2>8, <3>1, PortfolioFit DEF Forget, TypeOK, change
    <2> QED
      BY <1>6, <2>1, <2>2, <2>3, <2>4, <2>5, <2>6, <2>7, <2>8 DEF User
  <1>7. CASE UNCHANGED vars
    BY <1>7 DEF vars, TypeOK, RunFits, HeldIsOpen, ShownFits
  <1> QED
    BY <1>1, <1>2, <1>3, <1>4, <1>5, <1>6, <1>7 DEF Next, Look, Evaluate

-----------------------------------------------------------------------------
(* The moments.                                                              *)

\* While a run is looking, the moments are all that was true since it began: what is
\* true now is among them, and so is what the run found.  A ticker that was not held
\* and never fresh was left all the while, as nothing is forgotten during a run.
MomentsKnown ==
    run.at \in Looking =>
        /\ Situation \subseteq moments
        /\ run.held # None => "held" \in moments
        /\ run.left => "left" \in moments
        /\ run.held = None /\ "fresh" \notin moments =>
               RecentlyClosed /\ (run.at # "closed" => run.left)

ModeInv == FitInv /\ MomentsKnown

\* What was left lately stays so while a run looks.
LEMMA PortfolioMoments ==
    ASSUME FitInv, MomentsKnown, NEW change \in Seq(Position), Portfolio(change),
           run.at \in Looking /\ RecentlyClosed => RecentlyClosed'
    PROVE  MomentsKnown'
  <1>1. run' = run
    BY DEF Portfolio
  <1>2. CASE run.at \in Looking
    <2>1. moments' = moments \cup Situation'
      BY <1>2 DEF Portfolio, Looking
    <2> QED
      BY <1>1, <1>2, <2>1 DEF MomentsKnown
  <1>3. CASE run.at \notin Looking
    BY <1>1, <1>3 DEF MomentsKnown
  <1> QED
    BY <1>2, <1>3

LEMMA ModeStep == ModeInv /\ [Next]_vars => MomentsKnown'
  <1> SUFFICES ASSUME FitInv, MomentsKnown, [Next]_vars PROVE MomentsKnown'
    BY DEF ModeInv
  <1> USE RunAt DEF FitInv
  <1>1. CASE Screen
    BY <1>1 DEF Screen, MomentsKnown, Looking
  <1>2. CASE ReadOpen
    <2>1. /\ run' = [at |-> "closed", budget |-> run.budget, rec |-> run.rec,
                     rebuilt |-> run.rebuilt, held |-> FirstOpen,
                     as |-> IF FirstOpen = None THEN Nobody ELSE positions[FirstOpen],
                     several |-> Cardinality(OpenPlaces) > 1,
                     left |-> FALSE, pending |-> FALSE]
          /\ moments' = Situation
          /\ positions' = positions
      BY <1>2 DEF ReadOpen
    <2>2. Situation' = Situation /\ RecentlyClosed' = RecentlyClosed
      BY <2>1 DEF Situation, RecentlyClosed, OpenPlaces
    <2>3. FirstOpen # None <=> OpenPlaces # {}
      BY FirstOpenAt DEF TypeOK
    <2> QED
      BY <2>1, <2>2, <2>3 DEF MomentsKnown, Situation
  <1>3. CASE ReadClosed
    <2>1. run \in Looked /\ run.at = "closed"
      BY <1>3 DEF ReadClosed, Looking
    <2>2. /\ run' = [run EXCEPT !.at = "orders", !.left = RecentlyClosed]
          /\ moments' = moments /\ positions' = positions
      BY <1>3 DEF ReadClosed
    <2>3. run'.held = run.held /\ run'.left = RecentlyClosed
      BY <2>1, <2>2 DEF Looked
    <2>4. Situation' = Situation /\ RecentlyClosed' = RecentlyClosed
      BY <2>2 DEF Situation, RecentlyClosed, OpenPlaces
    <2>5. RecentlyClosed => "left" \in Situation
      BY DEF Situation
    <2> QED
      BY <2>1, <2>2, <2>3, <2>4, <2>5 DEF MomentsKnown, Looking
  <1>4. CASE ReadOrders
    <2>1. run \in Looked /\ run.at = "orders"
      BY <1>4 DEF ReadOrders, Looking
    <2>2. PICK failed \in BOOLEAN :
            run' = [run EXCEPT !.at = "evaluate", !.pending = ~failed /\ order # NoOrder]
      BY <1>4 DEF ReadOrders
    <2>3. moments' = moments /\ positions' = positions
      BY <1>4 DEF ReadOrders
    <2>4. run'.held = run.held /\ run'.left = run.left /\ run'.at = "evaluate"
      BY <2>1, <2>2 DEF Looked
    <2>5. Situation' = Situation /\ RecentlyClosed' = RecentlyClosed
      BY <2>3 DEF Situation, RecentlyClosed, OpenPlaces
    <2> QED
      BY <2>1, <2>3, <2>4, <2>5 DEF MomentsKnown, Looking
  <1>5. CASE Evaluate
    <2>1. run' = Idle
      BY <1>5 DEF Evaluate, ShowFresh, ManageOnly, ShowAddOn, Show, Finish
    <2> QED
      BY <2>1 DEF MomentsKnown, Idle, Looking
  <1>6. CASE CreateOrder \/ OrderByHand \/ CancelOrder
    <2>1. run' = run /\ moments' = moments /\ positions' = positions
      BY <1>6 DEF CreateOrder, OrderByHand, Enter, CancelOrder
    <2>2. Situation' = Situation /\ RecentlyClosed' = RecentlyClosed
      BY <2>1 DEF Situation, RecentlyClosed, OpenPlaces
    <2> QED
      BY <2>1, <2>2 DEF MomentsKnown
  <1>7. CASE FillOrder \/ CreatePosition
    <2>1. PICK entry \in Prices, stop \in Stop, shares \in Nat \ {0} :
            Portfolio(Opened(entry, stop, shares))
      BY <1>7, LotsAssumption, PricesAssumption DEF FillOrder, CreatePosition, TypeOK, Order, Stop
    <2>2. Opened(entry, stop, shares) \in Seq(Position)
      BY OpenedType DEF TypeOK
    <2>3. RecentlyClosed => RecentlyClosed'
      <3>1. positions' = Opened(entry, stop, shares)
        BY <2>1 DEF Portfolio
      <3>2. /\ Len(positions') = Len(positions) + 1
            /\ \A i \in 1..Len(positions) : positions'[i] = positions[i]
        BY <3>1 DEF Opened, TypeOK
      <3>3. ASSUME NEW i \in 1..Len(positions), positions[i] = Sold(TRUE)
            PROVE  RecentlyClosed'
        <4>1. Len(positions) \in Nat
          BY DEF TypeOK
        <4>2. i \in 1..(Len(positions) + 1)
          BY <4>1
        <4>3. i \in 1..Len(positions')
          BY <3>2, <4>2, Zenon
        <4>4. positions'[i] = Sold(TRUE)
          BY <3>2, <3>3, Zenon
        <4> QED
          BY <4>3, <4>4, Zenon DEF RecentlyClosed, Sold
      <3> QED
        BY <3>3 DEF RecentlyClosed
    <2> QED
      BY <2>1, <2>2, <2>3, PortfolioMoments
  <1>8. ASSUME NEW i \in OpenPlaces, RaiseStop(i) \/ PartialClose(i) \/ Close(i)
        PROVE  MomentsKnown'
    <2>1. PICK p : Portfolio([positions EXCEPT ![i] = p])
      BY <1>8 DEF RaiseStop, PartialClose, Close
    <2>2. positions' = [positions EXCEPT ![i] = p]
      BY <2>1 DEF Portfolio
    <2>3. positions' \in Seq(Position)
      BY FitStep, <1>8 DEF Next, User, TypeOK
    <2>4. RecentlyClosed => RecentlyClosed'
      <3>1. positions[i] # Sold(TRUE)
        BY <1>8 DEF OpenPlaces, Sold
      <3>2. /\ Len(positions') = Len(positions)
            /\ \A j \in 1..Len(positions) : j # i => positions'[j] = positions[j]
        BY <2>2 DEF TypeOK
      <3> QED
        BY <3>1, <3>2 DEF RecentlyClosed
    <2> QED
      BY <2>1, <2>2, <2>3, <2>4, PortfolioMoments
  <1>9. CASE Forget
    <2>1. run = Idle /\ run' = run
      BY <1>9 DEF Forget, Portfolio
    <2> QED
      BY <2>1 DEF MomentsKnown, Idle, Looking
  <1>10. CASE UNCHANGED vars
    BY <1>10 DEF vars, MomentsKnown, Situation, RecentlyClosed, OpenPlaces
  <1> QED
    BY <1>1, <1>2, <1>3, <1>4, <1>5, <1>6, <1>7, <1>8, <1>9, <1>10
    DEF Next, Look, User

\* What a candidate is shown as.
LEMMA ModeShown ==
    ASSUME ModeInv, [Next]_vars, shown' # shown
    PROVE  /\ shown'.mode = "NEW_ENTRY" => "fresh" \in moments
           /\ shown'.mode = "RE_ENTRY" => "left" \in moments
           /\ shown'.mode \in AddOns => "held" \in moments
  <1> USE RunAt DEF ModeInv, FitInv
  <1>1. CASE Screen
    BY <1>1 DEF Screen, Nothing, AddOns
  <1>2. CASE ShowFresh
    <2>1. run.at = "evaluate" /\ run.held = None /\ run \in Looked
      BY <1>2 DEF ShowFresh, Looking
    <2>2. \/ shown' = Nothing
          \/ shown'.mode = IF run.left THEN "RE_ENTRY" ELSE "NEW_ENTRY"
      BY <1>2 DEF ShowFresh, Show, Finish
    <2>3. run.left \in BOOLEAN
      BY <2>1 DEF Looked
    <2> QED
      BY <2>1, <2>2, <2>3 DEF MomentsKnown, Looking, Nothing, AddOns
  <1>3. CASE ManageOnly
    BY <1>3 DEF ManageOnly, Show, Finish, Nothing, AddOns
  <1>4. CASE ShowAddOn
    <2>1. run.at = "evaluate" /\ run.held # None
      BY <1>4 DEF ShowAddOn
    <2>2. shown' = Nothing \/ shown'.mode \in AddOns
      BY <1>4 DEF ShowAddOn, Show, Finish, AddOns
    <2> QED
      BY <2>1, <2>2 DEF MomentsKnown, Looking, Nothing, AddOns
  <1> QED
    BY <1>1, <1>2, <1>3, <1>4
    DEF Next, Look, Evaluate, User, ReadOpen, ReadClosed, ReadOrders, CreateOrder, OrderByHand, Enter,
        CancelOrder, FillOrder, CreatePosition, RaiseStop, PartialClose, Close, Forget,
        Portfolio, vars

-----------------------------------------------------------------------------
\* Whatever is recommended, on its own or beside a position, risks no more than the
\* budget and costs no more than the cap.
THEOREM RecommendationsFit == Spec => []RecommendedFits
  <1>1. FitInv => RecommendedFits
    BY DEF FitInv, ShownFits, Fits, RecommendedFits, RiskShown
  <1> QED
    BY <1>1, FitInit, FitStep, PTL DEF Spec

\* A candidate is shown as a new entry, a re-entry or an add-on only if the ticker was
\* fresh, left or held at some moment since its run began to look.
THEOREM ModesAreTrue == Spec => ModeTrue
  <1>1. Init => ModeInv
    BY FitInit DEF Init, ModeInv, MomentsKnown, Idle, Looking
  <1>2. ModeInv /\ [Next]_vars => ModeInv'
    BY FitStep, ModeStep DEF ModeInv
  <1>3. ModeInv /\ [Next]_vars =>
          [/\ shown'.mode = "NEW_ENTRY" => "fresh" \in moments
           /\ shown'.mode = "RE_ENTRY" => "left" \in moments
           /\ shown'.mode \in AddOns => "held" \in moments]_shown
    BY ModeShown
  <1> QED
    BY <1>1, <1>2, <1>3, PTL DEF Spec, ModeTrue

-----------------------------------------------------------------------------
(* Beside what is held.                                                      *)

NewModes == {"NEW_ENTRY", "RE_ENTRY"}

\* Unless something was bought since, what is open is what the run found, and risks no
\* more than it did.
BesideRun ==
    run.at \in Looking /\ ~purchase =>
        /\ run.held = None => OpenPlaces = {}
        /\ ~run.several => \A i \in OpenPlaces :
               i = run.held /\ RiskOf(positions[i]) <= RiskOf(run.as)

\* The same of what was shown, which was made to fit beside it.
BesideShown ==
    shown # Nothing /\ ~purchase /\ ~shown.several =>
        /\ \A i, j \in OpenPlaces : i = j
        /\ shown.mode \in NewModes => OpenPlaces = {}
        /\ shown.mode \in AddOns =>
               \A i \in OpenPlaces : RiskOf(positions[i]) + RiskShown <= shown.budget

\* Nothing is shown while a run is at work.
RunHides == run # Idle => shown = Nothing

AddOnInv == FitInv /\ RunHides /\ BesideRun /\ BesideShown

\* Nothing open, nothing at risk.
LEMMA OpenRiskNone ==
    ASSUME OpenPlaces = {}
    PROVE  OpenRisk = 0
  <1> DEFINE some(s) == CHOOSE x \in s : TRUE
             Step(g) == [s \in SUBSET OpenPlaces |->
                           IF s = {} THEN 0
                           ELSE RiskOf(positions[some(s)]) + g[s \ {some(s)}]]
             sums == CHOOSE g : g = Step(g)
  <1>1. OpenRisk = sums[OpenPlaces]
    BY DEF OpenRisk, MapThenSumSet, MapThenFoldSet
  <1>2. [s \in SUBSET OpenPlaces |-> 0] = Step([s \in SUBSET OpenPlaces |-> 0])
    OBVIOUS
  <1>3. sums = Step(sums)
    BY <1>2
  <1> HIDE DEF sums
  <1> QED
    BY <1>1, <1>3

\* The risk of the only open position.
LEMMA OpenRiskOne ==
    ASSUME NEW i, OpenPlaces = {i}, RiskOf(positions[i]) \in Nat
    PROVE  OpenRisk = RiskOf(positions[i])
  <1> DEFINE some(s) == CHOOSE x \in s : TRUE
             Step(g) == [s \in SUBSET OpenPlaces |->
                           IF s = {} THEN 0
                           ELSE RiskOf(positions[some(s)]) + g[s \ {some(s)}]]
             sums == CHOOSE g : g = Step(g)
  <1>1. OpenRisk = sums[OpenPlaces]
    BY DEF OpenRisk, MapThenSumSet, MapThenFoldSet
  <1>2. ASSUME NEW s \in SUBSET OpenPlaces, s # {}
        PROVE  some(s) = i /\ s \ {some(s)} = {}
    <2>1. s = {i}
      BY <1>2
    <2>2. some(s) = i
      BY <2>1
    <2> QED
      BY <2>1, <2>2
  <1> HIDE DEF some
  <1>3. \E g : g = Step(g)
    <2> DEFINE it == [s \in SUBSET OpenPlaces |->
                        IF s = {} THEN 0 ELSE RiskOf(positions[i])]
    <2>1. it[{}] = 0
      OBVIOUS
    <2>2. ASSUME NEW s \in SUBSET OpenPlaces
          PROVE  it[s] = Step(it)[s]
      <3>1. CASE s = {}
        BY <3>1
      <3>2. CASE s # {}
        BY <1>2, <2>1, <3>2
      <3> QED
        BY <3>1, <3>2
    <2>3. it = Step(it)
      BY <2>2
    <2> QED
      BY <2>3
  <1>4. sums = Step(sums)
    BY <1>3
  <1> HIDE DEF sums
  <1>5. sums[{}] = 0
    BY <1>4
  <1>6. sums[OpenPlaces] = RiskOf(positions[i]) + sums[{}]
    <2>1. OpenPlaces # {} /\ OpenPlaces \in SUBSET OpenPlaces
      OBVIOUS
    <2>2. some(OpenPlaces) = i /\ OpenPlaces \ {some(OpenPlaces)} = {}
      BY <1>2, <2>1
    <2>3. sums[OpenPlaces] = Step(sums)[OpenPlaces]
      BY <1>4
    <2>4. Step(sums)[OpenPlaces] = RiskOf(positions[some(OpenPlaces)])
                                   + sums[OpenPlaces \ {some(OpenPlaces)}]
      BY <2>1
    <2> QED
      BY <2>2, <2>3, <2>4
  <1> QED
    BY <1>1, <1>5, <1>6

\* When no more than one is open, any two that are open are the same.
LEMMA OneOpen ==
    ASSUME positions \in Seq(Position), ~ (Cardinality(OpenPlaces) > 1),
           NEW i \in OpenPlaces, NEW j \in OpenPlaces
    PROVE  i = j
  <1> SUFFICES ASSUME i # j PROVE FALSE
    OBVIOUS
  <1>1. IsFiniteSet(OpenPlaces) /\ Cardinality(OpenPlaces) \in Nat
    <2>1. Len(positions) \in Int
      OBVIOUS
    <2>2. IsFiniteSet(1..Len(positions))
      BY <2>1, FS_Interval
    <2>3. OpenPlaces \in SUBSET (1..Len(positions))
      BY DEF OpenPlaces
    <2>4. IsFiniteSet(OpenPlaces)
      BY <2>2, <2>3, FS_Subset
    <2> QED
      BY <2>4, FS_CardinalityType
  <1>2. IsFiniteSet({i}) /\ Cardinality({i}) = 1
    BY FS_Singleton
  <1>3. Cardinality({i} \cup {j}) = 2
    <2>1. Cardinality({i} \cup {j})
              = IF j \in {i} THEN Cardinality({i}) ELSE Cardinality({i}) + 1
      BY <1>2, FS_AddElement
    <2>2. j \notin {i}
      OBVIOUS
    <2>3. Cardinality({i} \cup {j}) = Cardinality({i}) + 1
      BY <2>1, <2>2, Zenon
    <2> DEFINE both == Cardinality({i} \cup {j})
               one == Cardinality({i})
    <2>4. both = one + 1 /\ one = 1
      BY <1>2, <2>3
    <2> HIDE DEF both, one
    <2>5. both = 2
      BY <2>4
    <2> QED
      BY <2>5 DEF both
  <1>4. Cardinality({i} \cup {j}) <= Cardinality(OpenPlaces)
    <2>1. ({i} \cup {j}) \in SUBSET OpenPlaces
      OBVIOUS
    <2> QED
      BY <1>1, <2>1, FS_Subset
  <1> DEFINE pair == Cardinality({i} \cup {j})
             all == Cardinality(OpenPlaces)
  <1>5. pair = 2 /\ pair <= all /\ all \in Nat /\ ~ (all > 1)
    BY <1>1, <1>3, <1>4
  <1> HIDE DEF pair, all
  <1> QED
    BY <1>5

LEMMA Smaller ==
    ASSUME NEW m \in Nat, NEW d \in Nat, NEW k \in Nat, NEW n \in Nat, m <= d, k <= n
    PROVE  m * k <= d * n
  <1>1. m * k <= m * n
    OBVIOUS
  <1>2. m * n <= d * n
    OBVIOUS
  <1> QED
    BY <1>1, <1>2

\* A higher stop and fewer shares never risk more.
LEMMA RiskFalls ==
    ASSUME NEW p \in Open, NEW q \in Open, q.entry = p.entry, q.stop >= p.stop,
           q.shares <= p.shares
    PROVE  RiskOf(q) <= RiskOf(p)
  <1> DEFINE dp == p.entry - p.stop
             dq == q.entry - q.stop
  <1>1. /\ p.entry \in Nat /\ p.stop \in Nat /\ p.shares \in Nat
        /\ q.stop \in Nat /\ q.shares \in Nat
    BY PricesAssumption DEF Open, Stop
  <1>2. dp \in Int /\ dq \in Int /\ dq <= dp
    BY <1>1
  <1> HIDE DEF dp, dq
  <1> DEFINE mp == Max({0, dp})
             mq == Max({0, dq})
  <1>3. mp \in Nat /\ mq \in Nat /\ mq <= mp
    BY <1>2, PositivePart
  <1> HIDE DEF mp, mq
  <1>4. mq * q.shares <= mp * p.shares
    BY <1>1, <1>3, Smaller
  <1> QED
    BY <1>4 DEF RiskOf, mp, mq, dp, dq

\* What is shown has a risk.
LEMMA ShownRisk ==
    ASSUME FitInv, shown # Nothing
    PROVE  RiskShown \in Int /\ RiskShown <= shown.budget /\ shown.budget \in Nat
  BY DEF FitInv, TypeOK, ShownFits, Fits, Proposal, RiskShown

\* The user sells, raises stops or closes, or buys, which ends what was promised.
LEMMA PortfolioBeside ==
    ASSUME AddOnInv, FitInv', NEW change, Portfolio(change),
           \/ purchase'
           \/ \A i \in OpenPlaces' :
                  i \in OpenPlaces /\ RiskOf(positions'[i]) <= RiskOf(positions[i])
    PROVE  AddOnInv'
  <1>1. run' = run /\ shown' = shown /\ (purchase => purchase')
    BY DEF Portfolio
  <1>2. RunHides'
    BY <1>1 DEF AddOnInv, RunHides
  <1>3. CASE purchase'
    BY <1>2, <1>3 DEF AddOnInv, BesideRun, BesideShown
  <1>4. CASE ~purchase'
    <2>1. ~purchase
      BY <1>1, <1>4
    <2>2. ASSUME NEW i \in OpenPlaces'
          PROVE  /\ i \in OpenPlaces
                 /\ RiskOf(positions'[i]) \in Nat /\ RiskOf(positions[i]) \in Nat
                 /\ RiskOf(positions'[i]) <= RiskOf(positions[i])
      <3>1. i \in OpenPlaces /\ RiskOf(positions'[i]) <= RiskOf(positions[i])
        BY <1>4
      <3>2. positions[i] \in Open
        BY <3>1, OpenAt DEF AddOnInv, FitInv, TypeOK
      <3>3. positions'[i] \in Open
        <4>1. positions' \in Seq(Position)
          BY DEF FitInv, TypeOK
        <4>2. i \in 1..Len(positions') /\ positions'[i].status = "open"
          BY DEF OpenPlaces
        <4>3. positions'[i] \in Position
          BY <4>1, <4>2
        <4> QED
          BY <4>2, <4>3 DEF Position, Sold
      <3> QED
        BY <3>1, <3>2, <3>3, RiskType
    <2>3. BesideRun'
      <3> SUFFICES ASSUME run.at \in Looking
                   PROVE  /\ run.held = None => OpenPlaces' = {}
                          /\ ~run.several => \A i \in OpenPlaces' :
                                 i = run.held /\ RiskOf(positions'[i]) <= RiskOf(run.as)
        BY <1>1 DEF BesideRun
      <3>1. run.held = None => OpenPlaces = {}
        BY <2>1 DEF AddOnInv, BesideRun
      <3>2. ASSUME ~run.several, NEW i \in OpenPlaces'
            PROVE  i = run.held /\ RiskOf(positions'[i]) <= RiskOf(run.as)
        <4>1. i = run.held /\ RiskOf(positions[i]) <= RiskOf(run.as)
          BY <2>1, <2>2, <3>2 DEF AddOnInv, BesideRun
        <4>2. run.held # None
          BY <3>1, <2>2, <3>2
        <4>3. RiskOf(run.as) \in Nat
          BY <4>2, RiskType DEF AddOnInv, FitInv, HeldIsOpen
        <4> QED
          BY <2>2, <4>1, <4>3
      <3> QED
        BY <2>2, <3>1, <3>2
    <2>4. BesideShown'
      <3> SUFFICES ASSUME shown # Nothing, ~shown.several
                   PROVE  /\ \A i, j \in OpenPlaces' : i = j
                          /\ shown.mode \in NewModes => OpenPlaces' = {}
                          /\ shown.mode \in AddOns =>
                                 \A i \in OpenPlaces' :
                                     RiskOf(positions'[i]) + RiskShown <= shown.budget
        BY <1>1 DEF BesideShown, RiskShown
      <3>1. /\ \A i, j \in OpenPlaces : i = j
            /\ shown.mode \in NewModes => OpenPlaces = {}
        BY <2>1 DEF AddOnInv, BesideShown
      <3>2. ASSUME shown.mode \in AddOns, NEW i \in OpenPlaces'
            PROVE  RiskOf(positions'[i]) + RiskShown <= shown.budget
        <4>1. RiskOf(positions[i]) + RiskShown <= shown.budget
          BY <2>1, <2>2, <3>2 DEF AddOnInv, BesideShown
        <4> QED
          BY <2>2, <4>1, ShownRisk DEF AddOnInv
      <3> QED
        BY <2>2, <3>1, <3>2
    <2> QED
      BY <1>2, <2>3, <2>4 DEF AddOnInv
  <1> QED
    BY <1>3, <1>4

\* A run ends and shows what it made of the ticker.
LEMMA ShowBeside ==
    ASSUME AddOnInv, run \in Looked, NEW mode \in Modes, NEW r, Show(mode, r),
           mode \in NewModes => run.held = None,
           mode \in AddOns => /\ run.as \in Open /\ r.entry \in Int /\ r.stop \in Int
                              /\ r.shares \in Int
                              /\ (r.entry - r.stop) * r.shares
                                     <= run.budget - RiskOf(run.as)
    PROVE  RunHides' /\ BesideRun' /\ BesideShown'
  <1>1. /\ positions' = positions /\ purchase' = purchase /\ run' = Idle
        /\ shown' = IF r.verdict THEN [mode |-> mode, rec |-> r, budget |-> run.budget,
                                       several |-> run.several]
                    ELSE Nothing
    BY DEF Show, Finish
  <1>2. OpenPlaces' = OpenPlaces
    BY <1>1 DEF OpenPlaces
  <1>3. RunHides' /\ BesideRun'
    BY <1>1 DEF RunHides, BesideRun, Idle, Looking
  <1>4. ASSUME shown' # Nothing, ~purchase, ~run.several
        PROVE  /\ \A i, j \in OpenPlaces : i = j
               /\ mode \in NewModes => OpenPlaces = {}
               /\ mode \in AddOns =>
                      \A i \in OpenPlaces :
                          RiskOf(positions[i]) + (r.entry - r.stop) * r.shares
                              <= run.budget
    <2>1. run.at \in Looking
      BY DEF Looked
    <2>2. \A i \in OpenPlaces : i = run.held /\ RiskOf(positions[i]) <= RiskOf(run.as)
      BY <1>4, <2>1 DEF AddOnInv, BesideRun
    <2>3. ASSUME mode \in AddOns, NEW i \in OpenPlaces
          PROVE  RiskOf(positions[i]) + (r.entry - r.stop) * r.shares <= run.budget
      <3> DEFINE new == (r.entry - r.stop) * r.shares
      <3>1. RiskOf(positions[i]) \in Nat /\ RiskOf(run.as) \in Nat /\ run.budget \in Nat
        BY <2>3, OpenAt, RiskType DEF AddOnInv, FitInv, TypeOK, Looked
      <3>2. new \in Int /\ new <= run.budget - RiskOf(run.as)
        BY <2>3
      <3> HIDE DEF new
      <3>3. RiskOf(positions[i]) + new <= run.budget
        BY <2>2, <3>1, <3>2
      <3> QED
        BY <3>3 DEF new
    <2>4. mode \in NewModes => OpenPlaces = {}
      BY <1>4, <2>1 DEF AddOnInv, BesideRun
    <2> QED
      BY <2>2, <2>3, <2>4
  <1>5. BesideShown'
    <2> SUFFICES ASSUME shown' # Nothing, ~purchase', ~(shown'.several)
                 PROVE  /\ \A i, j \in OpenPlaces' : i = j
                        /\ shown'.mode \in NewModes => OpenPlaces' = {}
                        /\ shown'.mode \in AddOns =>
                               \A i \in OpenPlaces' :
                                   RiskOf(positions'[i]) + RiskShown' <= shown'.budget
      BY DEF BesideShown
    <2>1. shown' = [mode |-> mode, rec |-> r, budget |-> run.budget,
                    several |-> run.several]
      BY <1>1
    <2>2. /\ shown'.mode = mode /\ shown'.several = run.several
          /\ shown'.budget = run.budget /\ shown'.rec = r
      BY <2>1
    <2>3. RiskShown' = (r.entry - r.stop) * r.shares
      BY <2>2 DEF RiskShown
    <2> QED
      BY <1>1, <1>2, <1>4, <2>2, <2>3
  <1> QED
    BY <1>3, <1>5

LEMMA StepAddOn == AddOnInv /\ [Next]_vars => AddOnInv'
  <1> SUFFICES ASSUME AddOnInv, [Next]_vars PROVE AddOnInv'
    OBVIOUS
  <1>1. FitInv /\ FitInv' /\ TypeOK
    BY FitStep DEF AddOnInv, FitInv
  <1> USE <1>1, RunAt
  <1>2. CASE Screen
    <2>1. PICK s \in Screened :
            run' = [at |-> "open", budget |-> s.budget, rec |-> s.rec,
                    rebuilt |-> s.rebuilt]
      BY <1>2 DEF Screen
    <2>2. shown' = Nothing
      BY <1>2 DEF Screen
    <2> QED
      BY <2>1, <2>2 DEF AddOnInv, RunHides, BesideRun, BesideShown, Looking
  <1>3. CASE ReadOpen
    <2>1. /\ run'.held = FirstOpen /\ run'.several = (Cardinality(OpenPlaces) > 1)
          /\ run'.as = IF FirstOpen = None THEN Nobody ELSE positions[FirstOpen]
          /\ positions' = positions /\ shown' = shown
      BY <1>3 DEF ReadOpen
    <2>2. shown = Nothing
      BY <1>3 DEF ReadOpen, AddOnInv, RunHides, Idle
    <2>3. OpenPlaces' = OpenPlaces
      BY <2>1 DEF OpenPlaces
    <2>4. /\ FirstOpen # None <=> OpenPlaces # {}
          /\ FirstOpen # None => FirstOpen \in OpenPlaces
      BY FirstOpenAt DEF TypeOK
    <2>5. ASSUME ~(run'.several), NEW i \in OpenPlaces
          PROVE  i = run'.held /\ RiskOf(positions'[i]) <= RiskOf(run'.as)
      <3>1. i = FirstOpen
        BY <2>1, <2>4, <2>5, OneOpen DEF TypeOK
      <3>2. run'.as = positions[i]
        BY <2>1, <2>4, <3>1
      <3>3. RiskOf(positions[i]) \in Nat
        BY OpenAt, RiskType DEF TypeOK
      <3> QED
        BY <2>1, <3>1, <3>2, <3>3
    <2>6. BesideRun'
      BY <2>1, <2>3, <2>4, <2>5 DEF BesideRun
    <2> QED
      BY <2>1, <2>2, <2>6 DEF AddOnInv, RunHides, BesideShown
  <1>4. CASE ReadClosed \/ ReadOrders
    <2>1. run \in Looked /\ run # Idle
      BY <1>4 DEF ReadClosed, ReadOrders, Looking, Idle
    <2>2. run'.held = run.held /\ run'.as = run.as /\ run'.several = run.several
      BY <1>4, <2>1 DEF ReadClosed, ReadOrders, Looked
    <2>3. positions' = positions /\ shown' = shown /\ purchase' = purchase
      BY <1>4 DEF ReadClosed, ReadOrders
    <2>4. OpenPlaces' = OpenPlaces
      BY <2>3 DEF OpenPlaces
    <2>5. run.at \in Looking /\ shown = Nothing
      BY <2>1 DEF Looked, AddOnInv, RunHides
    <2>6. BesideRun'
      BY <2>2, <2>3, <2>4, <2>5 DEF AddOnInv, BesideRun
    <2> QED
      BY <2>3, <2>5, <2>6 DEF AddOnInv, RunHides, BesideShown
  <1>5. CASE ShowFresh \/ ManageOnly
    <2>1. run \in Looked
      BY <1>5 DEF ShowFresh, ManageOnly, Looking
    <2>2. PICK mode \in Modes \ AddOns, r \in {run.rec, run.rebuilt} : Show(mode, r)
      BY <1>5 DEF ShowFresh, ManageOnly, Modes, AddOns
    <2>3. CASE run.held = None
      BY <2>1, <2>2, <2>3, ShowBeside DEF AddOnInv
    <2>4. CASE run.held # None
      <3>1. Show("MANAGE_ONLY", run.rec)
        BY <1>5, <2>4 DEF ShowFresh, ManageOnly
      <3>2. "MANAGE_ONLY" \in Modes /\ "MANAGE_ONLY" \notin AddOns \cup NewModes
        BY DEF Modes, AddOns, NewModes
      <3> QED
        BY <2>1, <3>1, <3>2, ShowBeside DEF AddOnInv
    <2> QED
      BY <2>3, <2>4
  <1>6. CASE ShowAddOn
    <2>1. run \in Looked /\ run.as \in Open
      BY <1>6 DEF ShowAddOn, Looking, FitInv, HeldIsOpen
    <2>2. run.as.stop < run.rec.entry
      BY <1>6 DEF ShowAddOn
    <2>3. PICK price \in Prices :
            Show(IF run.as.trimmed THEN "SCALE_BACK" ELSE "ADD_ON",
                 [run.rec EXCEPT !.stop = run.as.stop, !.shares = AddOnShares(price)])
      BY <1>6 DEF ShowAddOn
    <2> DEFINE n == AddOnShares(price)
               r == [run.rec EXCEPT !.stop = run.as.stop, !.shares = n]
               mode == IF run.as.trimmed THEN "SCALE_BACK" ELSE "ADD_ON"
    <2>4. n \in Int /\ (run.rec.entry - run.as.stop) * n <= run.budget - RiskOf(run.as)
      BY <2>1, <2>2, AddOnSharesFit
    <2>5. run.rec \in Rec
      BY <2>1 DEF Looked
    <2> HIDE DEF n
    <2>6. r.entry = run.rec.entry /\ r.stop = run.as.stop /\ r.shares = n
      BY <2>5 DEF Rec
    <2>7. r.entry \in Int /\ r.stop \in Int
      BY <2>1, <2>5, <2>6, PricesAssumption DEF Rec, Open, Stop
    <2>8. mode \in Modes
      BY DEF Modes, AddOns
    <2>9. Show(mode, r)
      BY <2>3 DEF n
    <2> HIDE DEF r, mode
    <2>10. (r.entry - r.stop) * r.shares <= run.budget - RiskOf(run.as)
      BY <2>4, <2>6
    <2>11. mode \notin NewModes
      BY DEF mode, NewModes
    <2>12. RunHides' /\ BesideRun' /\ BesideShown'
      BY <2>1, <2>4, <2>6, <2>7, <2>8, <2>9, <2>10, <2>11, ShowBeside
    <2> QED
      BY <2>12 DEF AddOnInv
  <1>7. CASE CreateOrder \/ OrderByHand \/ CancelOrder \/ UNCHANGED vars
    <2>1. positions' = positions /\ run' = run /\ shown' = shown /\ purchase' = purchase
      BY <1>7 DEF CreateOrder, OrderByHand, Enter, CancelOrder, vars
    <2> QED
      BY <2>1 DEF AddOnInv, RunHides, BesideRun, BesideShown, OpenPlaces, RiskShown
  <1>8. CASE FillOrder \/ CreatePosition
    <2>1. PICK entry, stop, shares : Portfolio(Opened(entry, stop, shares))
      BY <1>8 DEF FillOrder, CreatePosition
    <2>2. Len(Opened(entry, stop, shares)) > Len(positions)
      BY DEF Opened, TypeOK
    <2>3. purchase'
      BY <2>1, <2>2, Zenon DEF Portfolio
    <2> QED
      BY <2>1, <2>3, PortfolioBeside
  <1>9. ASSUME NEW i \in OpenPlaces, RaiseStop(i) \/ PartialClose(i)
        PROVE  AddOnInv'
    <2>1. i \in 1..Len(positions) /\ positions[i] \in Open
      BY OpenAt DEF TypeOK
    <2>2. PICK p \in Open :
            /\ p.entry = positions[i].entry
            /\ p.stop >= positions[i].stop /\ p.shares <= positions[i].shares
            /\ Portfolio([positions EXCEPT ![i] = p])
      <3>1. CASE RaiseStop(i)
        <4>1. PICK stop \in Prices : /\ stop > positions[i].stop
                                     /\ Portfolio([positions EXCEPT ![i].stop = stop])
          BY <3>1 DEF RaiseStop
        <4> DEFINE p == [positions[i] EXCEPT !.stop = stop]
        <4>2. /\ p \in Open /\ p.entry = positions[i].entry /\ p.stop >= positions[i].stop
              /\ p.shares = positions[i].shares /\ p.shares \in Nat
          BY <2>1, <4>1, PricesAssumption DEF Open, Stop
        <4>3. [positions EXCEPT ![i].stop = stop] = [positions EXCEPT ![i] = p]
          OBVIOUS
        <4>4. p.shares <= positions[i].shares
          BY <4>2
        <4> HIDE DEF p
        <4>5. Portfolio([positions EXCEPT ![i] = p])
          BY <4>1, <4>3
        <4> QED
          BY <4>2, <4>4, <4>5
      <3>2. CASE PartialClose(i)
        <4>1. PICK sold \in 1..(positions[i].shares - 1) :
                Portfolio([positions EXCEPT ![i].shares = @ - sold, ![i].trimmed = TRUE])
          BY <3>2 DEF PartialClose
        <4> DEFINE p == [[positions[i] EXCEPT !.shares = @ - sold] EXCEPT !.trimmed = TRUE]
        <4>2. positions[i].shares \in Nat /\ positions[i].stop \in Nat
          BY <2>1, PricesAssumption DEF Open, Stop
        <4>3. positions[i].shares - sold \in Nat \ {0}
          BY <4>2
        <4>4. /\ p \in Open /\ p.entry = positions[i].entry /\ p.stop = positions[i].stop
              /\ p.shares = positions[i].shares - sold
          BY <2>1, <4>3 DEF Open
        <4>5. [positions EXCEPT ![i].shares = @ - sold, ![i].trimmed = TRUE]
                  = [positions EXCEPT ![i] = p]
          BY <2>1 DEF TypeOK
        <4> HIDE DEF p
        <4>6. p.stop >= positions[i].stop /\ p.shares <= positions[i].shares
          BY <4>2, <4>4
        <4> QED
          BY <4>1, <4>4, <4>5, <4>6
      <3> QED
        BY <1>9, <3>1, <3>2
    <2>3. positions' = [positions EXCEPT ![i] = p]
      BY <2>2 DEF Portfolio
    <2>4. /\ Len(positions') = Len(positions) /\ positions'[i] = p
          /\ \A j \in 1..Len(positions) : j # i => positions'[j] = positions[j]
      BY <2>1, <2>3 DEF TypeOK
    <2>5. ASSUME NEW j \in OpenPlaces'
          PROVE  j \in OpenPlaces /\ RiskOf(positions'[j]) <= RiskOf(positions[j])
      <3>1. j \in 1..Len(positions) /\ positions'[j].status = "open"
        BY <2>4 DEF OpenPlaces
      <3>2. CASE j = i
        BY <2>1, <2>2, <2>4, <3>2, RiskFalls
      <3>3. CASE j # i
        <4>1. j \in OpenPlaces /\ positions'[j] = positions[j]
          BY <2>4, <3>1, <3>3 DEF OpenPlaces
        <4>2. RiskOf(positions[j]) \in Nat
          BY <4>1, OpenAt, RiskType DEF TypeOK
        <4> QED
          BY <4>1, <4>2
      <3> QED
        BY <3>2, <3>3
    <2> QED
      BY <2>2, <2>5, PortfolioBeside
  <1>10. ASSUME NEW i \in OpenPlaces, Close(i)
         PROVE  AddOnInv'
    <2>1. Portfolio([positions EXCEPT ![i] = Sold(TRUE)])
      BY <1>10 DEF Close
    <2>2. positions' = [positions EXCEPT ![i] = Sold(TRUE)]
      BY <2>1 DEF Portfolio
    <2>3. /\ i \in 1..Len(positions) /\ Len(positions') = Len(positions)
          /\ positions'[i] = Sold(TRUE)
          /\ \A j \in 1..Len(positions) : j # i => positions'[j] = positions[j]
      <3>1. i \in 1..Len(positions) /\ positions \in Seq(Position)
        BY OpenAt DEF TypeOK
      <3> DEFINE sold == Sold(TRUE)
      <3>2. positions' = [positions EXCEPT ![i] = sold]
        BY <2>2
      <3> HIDE DEF sold
      <3>3. /\ Len(positions') = Len(positions) /\ positions'[i] = sold
            /\ \A j \in 1..Len(positions) : j # i => positions'[j] = positions[j]
        BY <3>1, <3>2
      <3> QED
        BY <3>1, <3>3 DEF sold
    <2>4. ASSUME NEW j \in OpenPlaces'
          PROVE  j \in OpenPlaces /\ RiskOf(positions'[j]) <= RiskOf(positions[j])
      <3>1. j \in 1..Len(positions) /\ positions'[j].status = "open"
        BY <2>3 DEF OpenPlaces
      <3>2. j # i
        BY <2>3, <3>1 DEF Sold
      <3>3. j \in OpenPlaces /\ positions'[j] = positions[j]
        BY <2>3, <3>1, <3>2 DEF OpenPlaces
      <3>4. RiskOf(positions[j]) \in Nat
        BY <3>3, OpenAt, RiskType DEF TypeOK
      <3> QED
        BY <3>3, <3>4
    <2> QED
      BY <2>1, <2>4, PortfolioBeside
  <1>11. CASE Forget
    <2> DEFINE change == [i \in 1..Len(positions) |->
                  IF positions[i] = Sold(TRUE) THEN Sold(FALSE) ELSE positions[i]]
    <2>1. Portfolio(change)
      BY <1>11 DEF Forget
    <2>2. positions' = change
      BY <2>1 DEF Portfolio
    <2>3. Len(positions) \in Nat /\ positions' \in Seq(Position)
      BY DEF FitInv, TypeOK
    <2>4. Len(positions') = Len(positions)
      BY <2>2, <2>3
    <2>5. ASSUME NEW j \in OpenPlaces'
          PROVE  j \in OpenPlaces /\ RiskOf(positions'[j]) <= RiskOf(positions[j])
      <3>1. j \in 1..Len(positions) /\ positions'[j].status = "open"
        BY <2>4 DEF OpenPlaces
      <3>2. positions'[j] = IF positions[j] = Sold(TRUE) THEN Sold(FALSE) ELSE positions[j]
        BY <2>2, <3>1
      <3>3. positions'[j] = positions[j]
        BY <3>1, <3>2 DEF Sold
      <3>4. j \in OpenPlaces
        BY <3>1, <3>3 DEF OpenPlaces
      <3>5. RiskOf(positions[j]) \in Nat
        BY <3>4, OpenAt, RiskType DEF TypeOK
      <3> QED
        BY <3>3, <3>4, <3>5
    <2> HIDE DEF change
    <2> QED
      BY <2>1, <2>5, PortfolioBeside
  <1> QED
    BY <1>2, <1>3, <1>4, <1>5, <1>6, <1>7, <1>8, <1>9, <1>10, <1>11
    DEF Next, Look, Evaluate, User

LEMMA AddOnInit == Init => AddOnInv
  BY FitInit DEF Init, AddOnInv, RunHides, BesideRun, BesideShown, Idle, Nothing, Looking

\* AddOnFits, of resolveSameSymbolContext, the order dialog and create_order after
\* _enrich_and_rank: what the dialog offers beside what is open loses no more than the
\* budget of the run, but for a suggested price above the entry, if nothing was bought
\* since the run looked and no position to be managed only is added to.
THEOREM AddOnsFit == Spec => []AddOnFits
  <1>1. AddOnInv => AddOnFits
    <2> SUFFICES ASSUME AddOnInv, Orderable, ~purchase, ~shown.several,
                        shown.mode = "MANAGE_ONLY" => OpenPlaces = {},
                        NEW limit \in Prices
                 PROVE  OpenRisk + Loss(Dialog(limit)) <= shown.budget + Excess(limit)
      BY DEF AddOnFits
    <2>1. shown # Nothing /\ shown \in Proposal /\ Fits(shown.rec, shown.budget)
      BY DEF Orderable, AddOnInv, FitInv, TypeOK, ShownFits
    <2>2. RiskShown \in Int /\ RiskShown <= shown.budget /\ shown.budget \in Nat
      BY <2>1, ShownRisk DEF AddOnInv
    <2>3. OpenRisk \in Int /\ OpenRisk + RiskShown <= shown.budget
      <3>1. CASE OpenPlaces = {}
        BY <2>2, <3>1, OpenRiskNone
      <3>2. CASE OpenPlaces # {}
        <4>1. PICK i : i \in OpenPlaces
          BY <3>2
        <4>2. OpenPlaces = {i}
          BY <2>1, <4>1 DEF AddOnInv, BesideShown
        <4>3. RiskOf(positions[i]) \in Nat
          BY <4>1, OpenAt, RiskType DEF AddOnInv, FitInv, TypeOK
        <4>4. shown.mode \in AddOns
          BY <2>1, <3>2 DEF AddOnInv, BesideShown, Proposal, Modes, NewModes
        <4>5. RiskOf(positions[i]) + RiskShown <= shown.budget
          BY <2>1, <4>1, <4>4 DEF AddOnInv, BesideShown
        <4> QED
          BY <2>2, <4>2, <4>3, <4>5, OpenRiskOne
      <3> QED
        BY <3>1, <3>2
    <2>4. /\ Loss(Dialog(limit)) \in Int /\ Excess(limit) \in Int
          /\ Loss(Dialog(limit)) <= RiskShown + Excess(limit)
      BY <2>1, DialogLoss
    <2> QED
      BY <2>2, <2>3, <2>4
  <1> QED
    BY <1>1, AddOnInit, StepAddOn, PTL DEF Spec

-----------------------------------------------------------------------------
(* The review.                                                               *)

\* Since the list was made no stop fell.
StopsRose ==
    review.at = "suggest" =>
        /\ DOMAIN review.listed \subseteq 1..Len(positions)
        /\ \A i \in DOMAIN review.listed :
               /\ review.listed[i] \in Stop
               /\ positions[i].status = "open" => positions[i].stop >= review.listed[i]

RowsRise ==
    review.at \in {"suggest", "shown"} =>
        \A i \in DOMAIN review.rows :
            review.rows[i].action = "update" =>
                review.rows[i].stop_suggested > review.listed[i]

\* What the run took for a new opportunity is open only if it was bought since.
NewIsBought ==
    /\ review.at = "list" /\ review.mode \in NewModes => purchase \/ OpenPlaces = {}
    /\ review.at \in {"suggest", "shown"} /\ review.mode \in NewModes =>
           purchase \/ DOMAIN review.listed = {}

ReviewType ==
    \/ review = NoReview
    \/ review = [at |-> "screen"]
    \/ review = [at |-> "list", mode |-> review.mode]
    \/ /\ review.at \in {"suggest", "shown"}
       /\ review = [at |-> review.at, mode |-> review.mode, listed |-> review.listed,
                    rows |-> review.rows]
       /\ DOMAIN review.rows \subseteq DOMAIN review.listed

ReviewInv == AddOnInv /\ ReviewType /\ StopsRose /\ RowsRise /\ NewIsBought

LEMMA ReviewStart == ReviewInit => ReviewInv
  BY AddOnInit
  DEF ReviewInit, NoReview, ReviewInv, ReviewType, StopsRose, RowsRise, NewIsBought

\* What the user does while a review is at work: nothing that was closed opens, and the
\* stop of what stays open never falls.
LEMMA UserKeeps ==
    ASSUME FitInv, User
    PROVE  /\ purchase => purchase'
           /\ purchase' \/ OpenPlaces' \subseteq OpenPlaces
           /\ Len(positions) <= Len(positions')
           /\ \A i \in 1..Len(positions) :
                  positions'[i].status = "open" =>
                      /\ positions[i].status = "open"
                      /\ positions'[i].stop >= positions[i].stop
  <1> DEFINE Kept(i) == positions'[i].status = "open" =>
                            /\ positions[i].status = "open"
                            /\ positions'[i].stop >= positions[i].stop
  <1>1. positions \in Seq(Position) /\ Len(positions) \in Nat
    BY DEF FitInv, TypeOK
  <1>2. ASSUME NEW i \in 1..Len(positions), positions[i].status = "open"
        PROVE  positions[i] \in Open /\ positions[i].stop \in Nat
    BY <1>1, <1>2, OpenAt, PricesAssumption DEF OpenPlaces, Open, Stop
  <1>3. SUFFICES /\ purchase => purchase'
                 /\ purchase' \/ Len(positions') = Len(positions)
                 /\ Len(positions) <= Len(positions')
                 /\ \A i \in 1..Len(positions) : Kept(i)
    BY DEF OpenPlaces
  <1>4. CASE CreateOrder \/ OrderByHand \/ CancelOrder
    <2>1. positions' = positions /\ purchase' = purchase
      BY <1>4 DEF CreateOrder, OrderByHand, Enter, CancelOrder
    <2> QED
      BY <1>1, <1>2, <2>1
  <1>5. CASE FillOrder \/ CreatePosition
    <2>1. PICK entry, stop, shares : Portfolio(Opened(entry, stop, shares))
      BY <1>5 DEF FillOrder, CreatePosition
    <2> DEFINE new == [entry |-> entry, stop |-> stop, shares |-> shares,
                       trimmed |-> FALSE, status |-> "open"]
    <2>2. positions' = Append(positions, new)
      BY <2>1 DEF Portfolio, Opened
    <2> HIDE DEF new
    <2>3. /\ Len(positions') = Len(positions) + 1
          /\ \A i \in 1..Len(positions) : positions'[i] = positions[i]
      BY <1>1, <2>2
    <2>4. Len(Opened(entry, stop, shares)) > Len(positions)
      BY <1>1, <2>1, <2>3 DEF Portfolio
    <2>5. purchase'
      BY <2>1, <2>4, Zenon DEF Portfolio
    <2> QED
      BY <1>1, <1>2, <2>3, <2>5
  <1>6. ASSUME NEW k \in OpenPlaces, RaiseStop(k) \/ PartialClose(k) \/ Close(k)
        PROVE  /\ purchase => purchase'
               /\ Len(positions') = Len(positions)
               /\ \A i \in 1..Len(positions) : Kept(i)
    <2>1. k \in 1..Len(positions) /\ positions[k] \in Open /\ positions[k].status = "open"
      BY <1>1, OpenAt DEF OpenPlaces
    <2>2. PICK p : /\ Portfolio([positions EXCEPT ![k] = p])
                   /\ p.status = "open" => p.stop >= positions[k].stop
      <3>1. CASE RaiseStop(k)
        <4>1. PICK stop \in Prices : /\ stop > positions[k].stop
                                     /\ Portfolio([positions EXCEPT ![k].stop = stop])
          BY <3>1 DEF RaiseStop
        <4> DEFINE p == [positions[k] EXCEPT !.stop = stop]
        <4>2. p.stop >= positions[k].stop
          BY <2>1, <4>1, PricesAssumption DEF Open, Stop
        <4>3. [positions EXCEPT ![k].stop = stop] = [positions EXCEPT ![k] = p]
          OBVIOUS
        <4> HIDE DEF p
        <4>4. Portfolio([positions EXCEPT ![k] = p])
          BY <4>1, <4>3
        <4> QED
          BY <4>2, <4>4
      <3>2. CASE PartialClose(k)
        <4>1. PICK sold \in 1..(positions[k].shares - 1) :
                Portfolio([positions EXCEPT ![k].shares = @ - sold, ![k].trimmed = TRUE])
          BY <3>2 DEF PartialClose
        <4> DEFINE p == [[positions[k] EXCEPT !.shares = @ - sold] EXCEPT !.trimmed = TRUE]
        <4>2. p.stop >= positions[k].stop
          BY <2>1, PricesAssumption DEF Open, Stop
        <4>3. [positions EXCEPT ![k].shares = @ - sold, ![k].trimmed = TRUE]
                  = [positions EXCEPT ![k] = p]
          BY <1>1, <2>1
        <4> HIDE DEF p
        <4>4. Portfolio([positions EXCEPT ![k] = p])
          BY <4>1, <4>3
        <4> QED
          BY <4>2, <4>4
      <3>3. CASE Close(k)
        <4> DEFINE p == Sold(TRUE)
        <4>1. Portfolio([positions EXCEPT ![k] = p])
          BY <3>3 DEF Close
        <4>2. p.status # "open"
          BY DEF Sold
        <4> HIDE DEF p
        <4> QED
          BY <4>1, <4>2
      <3> QED
        BY <1>6, <3>1, <3>2, <3>3
    <2>3. positions' = [positions EXCEPT ![k] = p] /\ (purchase => purchase')
      BY <2>2 DEF Portfolio
    <2>4. /\ Len(positions') = Len(positions) /\ positions'[k] = p
          /\ \A i \in 1..Len(positions) : i # k => positions'[i] = positions[i]
      BY <1>1, <2>1, <2>3
    <2>5. ASSUME NEW i \in 1..Len(positions)
          PROVE  Kept(i)
      <3>1. CASE i = k
        BY <2>1, <2>2, <2>4, <3>1
      <3>2. CASE i # k
        BY <1>2, <2>4, <3>2
      <3> QED
        BY <3>1, <3>2
    <2> QED
      BY <2>3, <2>4, <2>5
  <1>7. CASE Forget
    <2> DEFINE change == [i \in 1..Len(positions) |->
                  IF positions[i] = Sold(TRUE) THEN Sold(FALSE) ELSE positions[i]]
    <2>1. Portfolio(change)
      BY <1>7 DEF Forget
    <2>2. positions' = change /\ (purchase => purchase')
      BY <2>1 DEF Portfolio
    <2>3. positions' \in Seq(Position)
      BY FitStep, <1>7 DEF FitInv, TypeOK, Next, User
    <2>4. Len(positions') = Len(positions)
      BY <1>1, <2>2, <2>3
    <2>5. ASSUME NEW i \in 1..Len(positions)
          PROVE  Kept(i)
      <3>1. positions'[i] = IF positions[i] = Sold(TRUE) THEN Sold(FALSE) ELSE positions[i]
        BY <2>2
      <3>2. positions'[i].status = "open" => positions'[i] = positions[i]
        BY <3>1 DEF Sold
      <3> QED
        BY <1>2, <3>2
    <2> HIDE DEF change
    <2> QED
      BY <1>1, <2>2, <2>4, <2>5
  <1> QED
    BY <1>1, <1>4, <1>5, <1>6, <1>7 DEF User

\* What is not closed is open.
LEMMA Statuses ==
    ASSUME NEW p \in Position, p.status = "open"
    PROVE  p \in Open /\ p.stop \in Nat
  <1>1. p \in Open
    BY DEF Position, Sold
  <1> QED
    BY <1>1, PricesAssumption DEF Open, Stop

LEMMA StepReview == ReviewInv /\ [ReviewNext]_reviewVars => ReviewInv'
  <1> SUFFICES ASSUME ReviewInv, [ReviewNext]_reviewVars PROVE ReviewInv'
    OBVIOUS
  <1>1. AddOnInv /\ FitInv /\ TypeOK
    BY DEF ReviewInv, AddOnInv, FitInv
  <1>2. AddOnInv'
    <2>1. [Next]_vars
      BY DEF ReviewNext, reviewVars, StartReview, ReviewScreened, ListPositions, Suggest,
             Save, Leave, Beside, Next
    <2> QED
      BY <1>1, <2>1, StepAddOn
  <1> DEFINE Kept == ReviewType' /\ StopsRose' /\ RowsRise' /\ NewIsBought'
  <1> SUFFICES Kept
    BY <1>2 DEF ReviewInv
  <1>3. ReviewType /\ StopsRose /\ RowsRise /\ NewIsBought
    BY DEF ReviewInv
  <1>4. CASE StartReview
    <2>1. review' = [at |-> "screen"]
      BY <1>4 DEF StartReview
    <2> QED
      BY <2>1 DEF ReviewType, StopsRose, RowsRise, NewIsBought
  <1>5. CASE ReviewScreened
    <2>1. CASE Look /\ UNCHANGED review
      <3>1. review.at = "screen" /\ review' = review
        BY <1>5, <2>1 DEF ReviewScreened
      <3> QED
        BY <1>3, <3>1 DEF ReviewType, NoReview, StopsRose, RowsRise, NewIsBought
    <2>2. CASE Evaluate /\ review' = [at |-> "list", mode |-> shown'.mode]
      <3>1. shown'.mode \in NewModes => purchase' \/ OpenPlaces' = {}
        <4>1. positions' = positions /\ purchase' = purchase
          BY <2>2 DEF Evaluate, ShowFresh, ManageOnly, ShowAddOn, Show, Finish
        <4>2. OpenPlaces' = OpenPlaces
          BY <4>1 DEF OpenPlaces
        <4>3. CASE ShowFresh
          <5>1. run.at \in Looking /\ run.held = None
            BY <4>3 DEF ShowFresh, Looking
          <5> QED
            BY <1>1, <4>1, <4>2, <5>1 DEF AddOnInv, BesideRun
        <4>4. CASE ManageOnly
          <5>1. shown'.mode \in {"none", "MANAGE_ONLY"}
            BY <4>4 DEF ManageOnly, Show, Finish, Nothing
          <5> QED
            BY <5>1 DEF NewModes
        <4>5. CASE ShowAddOn
          <5>1. shown'.mode \in {"none", "ADD_ON", "SCALE_BACK"}
            BY <4>5 DEF ShowAddOn, Show, Finish, Nothing
          <5> QED
            BY <5>1 DEF NewModes
        <4> QED
          BY <2>2, <4>3, <4>4, <4>5 DEF Evaluate
      <3>2. review'.at = "list" /\ review'.mode = shown'.mode
        BY <2>2
      <3>3. ReviewType'
        BY <2>2, <3>2 DEF ReviewType
      <3> QED
        BY <3>1, <3>2, <3>3 DEF StopsRose, RowsRise, NewIsBought
    <2> QED
      BY <1>5, <2>1, <2>2 DEF ReviewScreened
  <1>6. CASE ListPositions
    <2> DEFINE listed == [i \in OpenPlaces |-> positions[i].stop]
    <2>1. /\ review.at = "list" /\ vars' = vars
          /\ review' = [at |-> "suggest", mode |-> review.mode, listed |-> listed,
                        rows |-> <<>>]
      BY <1>6 DEF ListPositions
    <2>2. positions' = positions /\ purchase' = purchase
      BY <2>1 DEF vars
    <2>3. DOMAIN listed = OpenPlaces /\ \A i \in OpenPlaces : listed[i] = positions[i].stop
      OBVIOUS
    <2>4. \A i \in OpenPlaces : /\ i \in 1..Len(positions) /\ positions[i].stop \in Stop
                                /\ positions[i].stop \in Nat
      BY <1>1, OpenAt, PricesAssumption DEF TypeOK, Open, Stop
    <2>5. DOMAIN (<<>>) = {}
      OBVIOUS
    <2> HIDE DEF listed
    <2>6. /\ review'.at = "suggest" /\ review'.mode = review.mode
          /\ review'.listed = listed /\ review'.rows = <<>>
      BY <2>1
    <2>7. ReviewType'
      BY <2>1, <2>5, <2>6 DEF ReviewType
    <2>8. StopsRose'
      BY <2>2, <2>3, <2>4, <2>6 DEF StopsRose
    <2>9. RowsRise'
      BY <2>5, <2>6 DEF RowsRise
    <2>10. NewIsBought'
      BY <1>3, <2>1, <2>2, <2>3, <2>6 DEF NewIsBought
    <2> QED
      BY <2>7, <2>8, <2>9, <2>10
  <1>7. CASE Suggest
    <2> DEFINE left == DOMAIN review.listed \ DOMAIN review.rows
               next == Min(left)
    <2>1. PICK row \in Suggested(positions[next]) :
            /\ review.at = "suggest" /\ left # {} /\ vars' = vars
            /\ review' = [review EXCEPT !.rows =
                            [i \in DOMAIN review.rows \cup {next} |->
                                IF i = next THEN row ELSE review.rows[i]]]
      BY <1>7 DEF Suggest
    <2> DEFINE rows == [i \in DOMAIN review.rows \cup {next} |->
                          IF i = next THEN row ELSE review.rows[i]]
    <2>2. positions' = positions /\ purchase' = purchase
      BY <2>1 DEF vars
    <2>3. /\ review = [at |-> "suggest", mode |-> review.mode, listed |-> review.listed,
                       rows |-> review.rows]
          /\ DOMAIN review.rows \subseteq DOMAIN review.listed
          /\ DOMAIN review.listed \subseteq 1..Len(positions)
      BY <1>3, <2>1 DEF ReviewType, NoReview, StopsRose
    <2>4. next \in left
      <3>1. Len(positions) \in Nat
        BY <1>1 DEF TypeOK
      <3>2. left \in SUBSET Nat
        BY <2>3, <3>1
      <3> QED
        BY <2>1, <3>2, MinIn
    <2>5. /\ DOMAIN rows = DOMAIN review.rows \cup {next}
          /\ rows[next] = row
          /\ \A i \in DOMAIN review.rows : i # next => rows[i] = review.rows[i]
      OBVIOUS
    <2>6. row.action = "update" => row.stop_suggested > review.listed[next]
      <3> SUFFICES ASSUME row.action = "update"
                   PROVE  row.stop_suggested > review.listed[next]
        OBVIOUS
      <3>1. /\ positions[next].status = "open"
            /\ \E stop \in Prices : stop > positions[next].stop /\ row = Row("update", stop)
        BY <2>1 DEF Suggested, Row
      <3>2. PICK stop \in Prices : stop > positions[next].stop /\ row = Row("update", stop)
        BY <3>1
      <3>3. row.stop_suggested = stop
        BY <3>2 DEF Row
      <3>4. /\ review.listed[next] \in Stop
            /\ positions[next].stop >= review.listed[next]
        BY <1>3, <2>1, <2>4, <3>1 DEF StopsRose
      <3>5. positions[next].stop \in Nat
        BY <1>1, <2>3, <2>4, <3>1, OpenAt, PricesAssumption DEF TypeOK, OpenPlaces, Open, Stop
      <3>6. stop \in Nat /\ review.listed[next] \in Nat
        BY <3>2, <3>4, PricesAssumption DEF Stop
      <3>7. stop > review.listed[next]
        BY <3>2, <3>4, <3>5, <3>6
      <3> QED
        BY <3>3, <3>7
    <2> HIDE DEF next, rows
    <2>7. review' = [at |-> "suggest", mode |-> review.mode, listed |-> review.listed,
                     rows |-> rows]
      BY <2>1, <2>3 DEF rows
    <2>8. /\ review'.at = "suggest" /\ review'.mode = review.mode
          /\ review'.listed = review.listed /\ review'.rows = rows
      BY <2>7
    <2>9. DOMAIN rows \subseteq DOMAIN review.listed
      BY <2>3, <2>4, <2>5
    <2>10. ReviewType'
      BY <2>7, <2>8, <2>9 DEF ReviewType
    <2>11. StopsRose'
      BY <1>3, <2>1, <2>2, <2>8 DEF StopsRose
    <2>12. RowsRise'
      BY <1>3, <2>1, <2>5, <2>6, <2>8 DEF RowsRise
    <2>13. NewIsBought'
      BY <1>3, <2>1, <2>2, <2>8 DEF NewIsBought
    <2> QED
      BY <2>10, <2>11, <2>12, <2>13
  <1>8. CASE Save
    <2>1. review.at = "suggest" /\ vars' = vars /\ review' = [review EXCEPT !.at = "shown"]
      BY <1>8 DEF Save
    <2>2. /\ review = [at |-> "suggest", mode |-> review.mode, listed |-> review.listed,
                       rows |-> review.rows]
          /\ DOMAIN review.rows \subseteq DOMAIN review.listed
      BY <1>3, <2>1 DEF ReviewType, NoReview
    <2>3. review' = [at |-> "shown", mode |-> review.mode, listed |-> review.listed,
                     rows |-> review.rows]
      BY <2>1, <2>2
    <2>4. /\ review'.at = "shown" /\ review'.mode = review.mode
          /\ review'.listed = review.listed /\ review'.rows = review.rows
      BY <2>3
    <2>5. ReviewType'
      BY <2>2, <2>3, <2>4 DEF ReviewType
    <2>6. purchase' = purchase
      BY <2>1 DEF vars
    <2> QED
      BY <1>3, <2>1, <2>4, <2>5, <2>6 DEF StopsRose, RowsRise, NewIsBought
  <1>9. CASE Leave
    <2>1. review' = [at |-> "none"]
      BY <1>9 DEF Leave, NoReview
    <2> QED
      BY <2>1 DEF ReviewType, NoReview, StopsRose, RowsRise, NewIsBought
  <1>10. CASE Beside
    <2>1. review' = review
      BY <1>10 DEF Beside
    <2>2. CASE review = NoReview
      BY <2>1, <2>2 DEF ReviewType, NoReview, StopsRose, RowsRise, NewIsBought
    <2>3. CASE review # NoReview
      <3>1. /\ purchase => purchase'
            /\ purchase' \/ OpenPlaces' \subseteq OpenPlaces
            /\ Len(positions) <= Len(positions')
            /\ \A i \in 1..Len(positions) :
                   positions'[i].status = "open" =>
                       /\ positions[i].status = "open"
                       /\ positions'[i].stop >= positions[i].stop
        BY <1>1, <1>10, <2>3, UserKeeps DEF Beside
      <3>2. positions' \in Seq(Position) /\ Len(positions) \in Nat /\ Len(positions') \in Nat
        BY <1>1, <1>2 DEF AddOnInv, FitInv, TypeOK
      <3>3. StopsRose'
        <4> SUFFICES ASSUME review.at = "suggest"
                     PROVE  /\ DOMAIN review.listed \subseteq 1..Len(positions')
                            /\ \A i \in DOMAIN review.listed :
                                   /\ review.listed[i] \in Stop
                                   /\ positions'[i].status = "open" =>
                                          positions'[i].stop >= review.listed[i]
          BY <2>1 DEF StopsRose
        <4>1. /\ DOMAIN review.listed \subseteq 1..Len(positions)
              /\ \A i \in DOMAIN review.listed :
                     /\ review.listed[i] \in Stop
                     /\ positions[i].status = "open" =>
                            positions[i].stop >= review.listed[i]
          BY <1>3 DEF StopsRose
        <4>2. ASSUME NEW i \in DOMAIN review.listed, positions'[i].status = "open"
              PROVE  positions'[i].stop >= review.listed[i]
          <5>1. i \in 1..Len(positions) /\ i \in 1..Len(positions')
            BY <3>1, <3>2, <4>1
          <5>2. positions[i].status = "open" /\ positions'[i].stop >= positions[i].stop
            BY <3>1, <4>2, <5>1
          <5>3. positions[i].stop \in Nat
            BY <1>1, <5>1, <5>2, OpenAt, PricesAssumption DEF TypeOK, OpenPlaces, Open, Stop
          <5>4. positions'[i].stop \in Nat
            <6>1. positions'[i] \in Position
              BY <3>2, <5>1
            <6> QED
              BY <4>2, <6>1, Statuses
          <5>5. review.listed[i] \in Nat /\ positions[i].stop >= review.listed[i]
            BY <4>1, <5>2 DEF Stop
          <5> QED
            BY <5>2, <5>3, <5>4, <5>5
        <4>3. DOMAIN review.listed \subseteq 1..Len(positions')
          BY <3>1, <3>2, <4>1
        <4> QED
          BY <4>1, <4>2, <4>3
      <3>4. NewIsBought'
        BY <1>3, <2>1, <3>1 DEF NewIsBought
      <3> QED
        BY <1>3, <2>1, <3>3, <3>4 DEF ReviewType, RowsRise
    <2> QED
      BY <2>2, <2>3
  <1>11. CASE UNCHANGED reviewVars
    <2>1. review' = review /\ positions' = positions /\ purchase' = purchase
      BY <1>11 DEF reviewVars, vars
    <2> QED
      BY <1>3, <2>1 DEF ReviewType, StopsRose, RowsRise, NewIsBought, OpenPlaces
  <1> QED
    BY <1>4, <1>5, <1>6, <1>7, <1>8, <1>9, <1>10, <1>11 DEF ReviewNext

\* A review suggests a stop above the one it shows, and lists as an opportunity and as
\* held only what was bought while it was at work (generate_daily_review).
THEOREM ReviewsAgree == ReviewSpec => []ReviewAgrees
  <1>1. ReviewInv => ReviewAgrees
    BY DEF ReviewInv, RowsRise, NewIsBought, NewModes, ReviewAgrees
  <1> QED
    BY <1>1, ReviewStart, StepReview, PTL DEF ReviewSpec

=============================================================================
