------------------------------ MODULE Scoring -------------------------------
(***************************************************************************)
(* What a company's figures are worth (src/swing_screener/fundamentals/    *)
(* scoring.py): the scores of its pillars, how far the figures can be      *)
(* trusted, and the snapshot that is stored.                               *)
(*                                                                         *)
(* Ratios and scores are whole ten-thousandths, rounded down; multiples    *)
(* and the current ratio are tenths; days are whole.                       *)
(***************************************************************************)
EXTENDS Integers, Sequences, FiniteSetsExt, Functions

CONSTANT StaleAfter         \* stale_after_days

One == 10000

None == -999999

\* The figures a pillar is scored on; net_cash is cash less liabilities, over assets.
Pillars ==
    [growth |-> {"revenue_growth", "earnings_growth"},
     profitability |-> {"gross_margin", "operating_margin", "return_on_equity"},
     balance_sheet |-> {"debt_to_equity", "current_ratio", "net_cash"},
     cash_flow |-> {"fcf_margin"},
     valuation |-> {"trailing_pe", "price_to_sales", "price_to_book"}]

Quality == DOMAIN Pillars \ {"valuation"}

\* The values at which a figure is worth nothing and at which it is worth One.
Marks ==
    [revenue_growth |-> <<-500, 1500>>, earnings_growth |-> <<-1000, 2000>>,
     gross_margin |-> <<2000, 5500>>, operating_margin |-> <<500, 2200>>,
     return_on_equity |-> <<500, 2000>>, debt_to_equity |-> <<220, 60>>,
     current_ratio |-> <<9, 18>>, net_cash |-> <<-5000, 0>>, fcf_margin |-> <<0, 1500>>,
     trailing_pe |-> <<350, 120>>, price_to_sales |-> <<80, 20>>,
     price_to_book |-> <<40, 12>>]

Metrics == DOMAIN Marks

Clamp(n, low, high) == Max({low, Min({high, n})})

\* _score_higher and _score_lower: the part of the way from weak to strong.
Portion(value, weak, strong) ==
    Clamp(IF strong > weak THEN ((value - weak) * One) \div (strong - weak)
          ELSE ((weak - value) * One) \div (weak - strong), 0, One)

\* _blend_scores: the mean of the scores there are.
Mean(score) ==
    LET known == {n \in DOMAIN score : score[n] # None}
    IN  IF known = {} THEN None
        ELSE SumFunctionOnSet(score, known) \div Cardinality(known)

-----------------------------------------------------------------------------
(* A record is what a provider tells of a company: its figures, its revenues  *)
(* year by year or quarter by quarter, oldest first, and where they are from. *)

\* _growth_from_series: the last period over that of a year before.
SeriesGrowth(rec) ==
    LET last == Len(rec.points)
        before == last - (IF rec.frequency = "annual" THEN 1 ELSE 4)
    IN  IF before < 1 THEN None
        ELSE IF rec.points[before] = 0 THEN None
        ELSE (rec.points[last] * One) \div rec.points[before] - One

\* _resolved_record: a growth that is not told is taken from the series.
Figures(rec) ==
    IF rec.figures["revenue_growth"] # None \/ rec.frequency = "unknown" THEN rec.figures
    ELSE [rec.figures EXCEPT !["revenue_growth"] = SeriesGrowth(rec)]

\* _build_pillars
Pillar(figures, p) ==
    Mean([m \in Pillars[p] |->
              IF figures[m] = None THEN None
              ELSE Portion(figures[m], Marks[m][1], Marks[m][2])])

\* _status_for_score
Status(score) ==
    CASE score = None -> "unavailable"
      [] score >= 6700 -> "strong"
      [] score >= 4000 /\ score < 6700 -> "neutral"
      [] OTHER -> "weak"

\* _coverage_status: net cash stands for assets, liabilities and cash.
Coverage(rec, figures) ==
    LET count == Cardinality({m \in Metrics : figures[m] # None})
                     + (IF figures["net_cash"] # None THEN 2 ELSE 0)
    IN  CASE ~rec.supported -> "unsupported"
          [] rec.supported /\ count >= 7 -> "supported"
          [] rec.supported /\ count \in 4..6 -> "partial"
          [] rec.supported /\ count < 4 -> "insufficient"

\* _freshness_status, by the days since the most recent quarter.
Freshness(age) ==
    CASE age = None -> "unknown"
      [] age # None /\ age > StaleAfter -> "stale"
      [] age # None /\ age <= StaleAfter -> "current"

\* _series_direction of the revenues, three percent either way being stable.
Direction(rec) ==
    LET n == Len(rec.points)
        before == rec.points[n - 1]
        delta == rec.points[n] - before
    IN  CASE n < 2 -> "unknown"
          [] n >= 2 /\ rec.frequency = "unknown" -> "not_comparable"
          [] n >= 2 /\ rec.frequency # "unknown" ->
                 IF 100 * Max({delta, -delta}) <= 3 * Max({before, -before}) THEN "stable"
                 ELSE IF delta > 0 THEN "improving" ELSE "deteriorating"

\* A growth beyond three hundred percent reflects its base.
Extreme(figures) ==
    \E m \in Pillars["growth"] :
        figures[m] # None /\ Max({figures[m], -figures[m]}) > 3 * One

\* _build_data_quality: figures that are not of the periods of the series, or are
\* derived from periods that are not known, are not to be trusted.
DataQuality(rec, figures) ==
    LET unknown == "unknown" \in {rec.cadence, rec.frequency}
        doubtful == IF unknown THEN rec.derived ELSE rec.cadence # rec.frequency
        thin == \/ Direction(rec) = "not_comparable"
                \/ Direction(rec) = "unknown"
                \/ rec.frequency = "annual"
    IN  IF rec.error \/ Extreme(figures) \/ (rec.points # <<>> /\ doubtful) THEN "low"
        ELSE IF rec.points # <<>> /\ thin THEN "medium" ELSE "high"

-----------------------------------------------------------------------------
(* What is made of them.                                                     *)

\* _data_confidence_score, in hundredths of the three factors.
Confidence(coverage, freshness, quality) ==
    LET c == [supported |-> 90, partial |-> 60, insufficient |-> 30, unsupported |-> 10]
        f == [current |-> 100, stale |-> 55, unknown |-> 45]
        q == [high |-> 100, medium |-> 75, low |-> 45]
    IN  (c[coverage] * f[freshness] * q[quality]) \div 100

\* _source_health_status
Health(coverage, freshness, quality) ==
    IF coverage # "supported" \/ freshness # "current" \/ quality = "low"
    THEN "degraded" ELSE "ok"

\* _freshness_penalty_from_date
FreshnessPenalty(age) ==
    CASE age = None \/ age > 365 -> 5000
      [] age # None /\ age <= 90 -> 0
      [] age \in 91..180 -> 1500
      [] age \in 181..365 -> 3000

\* _coverage_penalty_from_pillars
CoveragePenalty(pillar) ==
    (Cardinality({p \in DOMAIN pillar : pillar[p] = None}) * One)
        \div Cardinality(DOMAIN pillar)

\* build_snapshot
Snapshot(rec) ==
    LET figures == Figures(rec)
        pillar == [p \in DOMAIN Pillars |-> Pillar(figures, p)]
        coverage == Coverage(rec, figures)
        freshness == Freshness(rec.age)
        quality == DataQuality(rec, figures)
    IN  [pillar |-> pillar, coverage |-> coverage, freshness |-> freshness,
         quality |-> quality, confidence |-> Confidence(coverage, freshness, quality),
         health |-> Health(coverage, freshness, quality),
         freshness_penalty |-> FreshnessPenalty(rec.age),
         coverage_penalty |-> CoveragePenalty(pillar),
         business_quality |-> Mean([p \in Quality |-> pillar[p]]),
         valuation |-> pillar["valuation"],
         multiples |-> [m \in Pillars["valuation"] |-> figures[m]],
         sector |-> rec.sector, error |-> rec.error]

\* build_provider_error_snapshot: nothing is known, and nothing is taken off for it
\* but by the confidence.
ErrorSnapshot ==
    [pillar |-> [p \in DOMAIN Pillars |-> None], coverage |-> "insufficient",
     freshness |-> "unknown", quality |-> "low", confidence |-> 0, health |-> "failed",
     freshness_penalty |-> 0, coverage_penalty |-> 0,
     business_quality |-> None, valuation |-> None,
     multiples |-> [m \in Pillars["valuation"] |-> None],
     sector |-> "", error |-> TRUE]
=============================================================================
