------------------------------ MODULE Decision ------------------------------
(***************************************************************************)
(* What is decided of a candidate (recommendation/decision_summary.py):    *)
(* from its setup and the snapshot of its company to labels, an action and *)
(* a conviction.  NoSnapshot stands for a company without one.             *)
(***************************************************************************)
EXTENDS Scoring

NoSnapshot == [error |-> FALSE]

Missing(snap) == snap = NoSnapshot

PillarScore(snap, p) == IF Missing(snap) THEN None ELSE snap.pillar[p]

OrElse(score, default) == IF score = None THEN default ELSE score

\* _technical_label, of a candidate that comes without an opportunity: its
\* confidence, its reward-to-risk in tenths or None, and how many of three
\* momentums and the signal support it.
TechnicalLabel(c) ==
    CASE \/ c.recommended /\ c.confidence >= 70 /\ c.rr >= 20
         \/ c.supports >= 3 /\ c.confidence >= 65 -> "strong"
      [] OTHER -> IF \/ c.recommended \/ c.supports >= 2
                     \/ c.rr >= 15 \/ c.confidence >= 55
                  THEN "neutral" ELSE "weak"

\* _fundamentals_label
FundamentalsLabel(snap) ==
    LET average == Mean([p \in Quality |-> PillarScore(snap, p)])
    IN  IF average = None THEN "neutral" ELSE Status(average)

-----------------------------------------------------------------------------
(* _sector_weighted_valuation_score.                                         *)

\* _valuation_profile: sectors are valued on what they live of.
Profile(snap) ==
    LET growth == PillarScore(snap, "growth")
        cash == PillarScore(snap, "cash_flow")
    IN  CASE snap.sector = "financials" -> "financials"
          [] snap.sector = "software" /\ OrElse(growth, One) >= 5500 -> "growth_software"
          [] snap.sector = "mature" /\ OrElse(cash, One) >= 4000 -> "mature_cashflow"
          [] OTHER -> "default"

\* A pillar that is not scored, or scored nothing, counts as 0.55.
Leaning(score) == IF score \in {None, 0} THEN 5500 ELSE score

\* The multiple that counts twice and the one that counts once, each with the
\* values, in tenths, at which it is worth nothing and One.
Weighing(snap) ==
    LET growth == Leaning(PillarScore(snap, "growth"))
        cash == Leaning(PillarScore(snap, "cash_flow"))
    IN  CASE Profile(snap) = "financials" ->
                 <<<<"price_to_book", 26, 9>>, <<"trailing_pe", 170, 70>>>>
          [] Profile(snap) = "growth_software" ->
                 <<<<"price_to_sales", 70 + growth \div 200, 30 + growth \div 500>>,
                   <<"trailing_pe", 450, 180>>>>
          [] Profile(snap) = "mature_cashflow" ->
                 <<<<"trailing_pe", 200 + cash \div 125, 100 + cash \div 250>>,
                   <<"price_to_sales", 55, 15>>>>

SectorScore(snap) ==
    Mean([i \in 1..3 |->
              LET w == Weighing(snap)[IF i = 3 THEN 2 ELSE 1]
                  value == snap.multiples[w[1]]
              IN  IF value = None THEN None ELSE Portion(value, w[2], w[3])])

\* _valuation_label: by the sector's weighing, else by the pillar.
ValuationLabel(snap) ==
    LET weighed == IF Missing(snap) THEN None
                   ELSE IF Profile(snap) = "default" THEN None ELSE SectorScore(snap)
        status == Status(IF weighed # None THEN weighed
                         ELSE PillarScore(snap, "valuation"))
    IN  CASE status = "strong" -> "cheap"
          [] status = "neutral" -> "fair"
          [] status = "weak" -> "expensive"
          [] status = "unavailable" -> "unknown"

-----------------------------------------------------------------------------
\* _action
Action(technical, fundamentals, valuation, catalyst, mode) ==
    IF mode = "MANAGE_ONLY" THEN "MANAGE_ONLY"
    ELSE CASE technical = "strong" /\ fundamentals = "strong" ->
                  IF valuation = "expensive" THEN "BUY_ON_PULLBACK" ELSE "BUY_NOW"
           [] technical = "strong" /\ fundamentals = "neutral" ->
                  IF catalyst = "active" \/ valuation = "expensive"
                  THEN "WAIT_FOR_BREAKOUT" ELSE "WATCH"
           [] technical = "strong" /\ fundamentals = "weak" -> "TACTICAL_ONLY"
           [] technical = "neutral" /\ fundamentals = "strong" /\ catalyst = "active" ->
                  "WAIT_FOR_BREAKOUT"
           [] technical = "weak" /\ fundamentals = "weak" -> "AVOID"
           [] OTHER -> "WATCH"

\* _conviction, in quarters of a point.
Points(technical, fundamentals, valuation, catalyst, snap) ==
    LET signal == [strong |-> 8, neutral |-> 4, weak |-> 0]
        news == [active |-> 4, neutral |-> 2, weak |-> 0]
        price == [cheap |-> 2, fair |-> 1, expensive |-> -2, unknown |-> 0]
        coverage == [supported |-> 0, partial |-> -2,
                     insufficient |-> -4, unsupported |-> -4]
    IN  signal[technical] + signal[fundamentals] + price[valuation] + news[catalyst]
        + (IF Missing(snap) THEN -2
           ELSE coverage[snap.coverage] - (IF snap.freshness = "stale" THEN 4 ELSE 0)
                                        - (IF snap.quality = "low" THEN 2 ELSE 0))
        - 1     \* no opportunity

Conviction(points, mode) ==
    IF mode = "MANAGE_ONLY" \/ points < 8 THEN "low"
    ELSE IF points < 16 THEN "medium" ELSE "high"

\* build_decision_summary.  The screener has no catalysts to show it.
Decide(c, snap) ==
    LET technical == TechnicalLabel(c)
        fundamentals == FundamentalsLabel(snap)
        valuation == ValuationLabel(snap)
    IN  [fundamentals |-> fundamentals, valuation |-> valuation,
         action |-> Action(technical, fundamentals, valuation, "weak", c.mode),
         conviction |->
             Conviction(Points(technical, fundamentals, valuation, "weak", snap), c.mode)]

=============================================================================
