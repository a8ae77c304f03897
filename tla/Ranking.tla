------------------------------ MODULE Ranking -------------------------------
(* Where a candidate comes among the others (recommendation/priority.py and  *)
(* api/services/decision_context.py), screened again each time its company   *)
(* reports: the figures are fetched, the snapshot is stored, and the next    *)
(* run of the screener reads it.                                             *)
EXTENDS Decision

CONSTANTS
    Candidates,             \* setups: what the decision reads of a candidate, and its
                            \* confidence scaled to that of the batch
    Reports,                \* records of the company
    TechnicalWeight, FundamentalsWeight, CatalystWeight, ValuationWeight

Weights == TechnicalWeight + FundamentalsWeight + CatalystWeight + ValuationWeight

VARIABLES
    candidate,
    rec,                    \* what a provider would tell of the company
    snap,                   \* its snapshot
    place                   \* where the last run put the candidate

vars == <<candidate, rec, snap, place>>

-----------------------------------------------------------------------------
(* compute_combined_priority.                                                *)

\* _data_confidence_multiplier, and _label_score.
Trusted(score, snap_, floor) == (score * Max({floor, snap_.confidence})) \div One

LabelScore ==
    [strong |-> One, neutral |-> One \div 2, weak |-> 0,
     cheap |-> One, fair |-> One \div 2, expensive |-> 0, unknown |-> One \div 2]

\* _fundamentals_score: a company without a snapshot is neutral.
FundamentalsScore(label, s) ==
    IF Missing(s) THEN LabelScore[label]
    ELSE LET penalty == s.freshness_penalty + s.coverage_penalty \div 2
         IN  (Trusted(OrElse(s.business_quality, LabelScore[label]), s, 2500)
                  * Max({0, One - penalty})) \div One

\* _valuation_score
ValuationScore(label, s) ==
    IF Missing(s) THEN LabelScore[label]
    ELSE Trusted(OrElse(s.valuation, LabelScore[label]), s, 4000)

\* The catalysts are always weak, and worth nothing.
Combined(c, decision, s) ==
    (TechnicalWeight * c.technical
        + FundamentalsWeight * FundamentalsScore(decision.fundamentals, s)
        + ValuationWeight * ValuationScore(decision.valuation, s)) \div Weights

-----------------------------------------------------------------------------
(* apply_decision_priority_ranking, of those that the combined priority kept. *)

\* A faulty form: a tactical trade before one to be watched.
ActionPriority_Tactical ==
    [BUY_NOW |-> 6, BUY_ON_PULLBACK |-> 5, WAIT_FOR_BREAKOUT |-> 4, TACTICAL_ONLY |-> 3,
     WATCH |-> 2, MANAGE_ONLY |-> 1, AVOID |-> 0]

ActionPriority ==
    [BUY_NOW |-> 6, BUY_ON_PULLBACK |-> 5, WAIT_FOR_BREAKOUT |-> 4, WATCH |-> 3,
     TACTICAL_ONLY |-> 2, MANAGE_ONLY |-> 1, AVOID |-> 0]

ConvictionPriority == [high |-> 2, medium |-> 1, low |-> 0]

Place(c, s) ==
    LET decision == Decide(c, s)
    IN  [combined |-> Combined(c, decision, s),
         rank |-> 3 * ActionPriority[decision.action]
                      + ConvictionPriority[decision.conviction]]

\* Kept wherever the other is kept, and then not ranked after it.
NotBehind(p, q) == p.combined >= q.combined /\ p.rank >= q.rank

-----------------------------------------------------------------------------
Init ==
    /\ candidate \in Candidates /\ rec \in Reports
    /\ snap = NoSnapshot
    /\ place = Place(candidate, NoSnapshot)

\* A new snapshot is stored and the screener runs.
Screened(s) ==
    /\ snap' = s
    /\ place' = Place(candidate, s)
    /\ UNCHANGED candidate

\* The company's figures, or their age, as of the next fetch.
Report(r) == Screened(Snapshot(r)) /\ rec' = r

\* No provider answers and there is no snapshot yet.
Outage == Missing(snap) /\ Screened(ErrorSnapshot) /\ UNCHANGED rec

\* The record with another age or with another value of one figure.
Neighbours ==
    {r \in Reports :
        /\ r.sector = rec.sector
        /\ Cardinality({m \in Metrics : r.figures[m] # rec.figures[m]}
                           \cup {x \in {"age"} : r.age # rec.age}) = 1}

Next == Outage \/ \E r \in Neighbours : Report(r)

Spec == Init /\ [][Next]_vars

-----------------------------------------------------------------------------
Rising(m) == Marks[m][2] > Marks[m][1]

\* As many figures are told, those of the company's quality being no worse.
Better(r, q) ==
    /\ r.age <= q.age /\ (r.age = None <=> q.age = None)
    /\ \A m \in Metrics :
        /\ r.figures[m] = None <=> q.figures[m] = None
        /\ IF m \in Pillars["valuation"] THEN r.figures[m] = q.figures[m]
           ELSE IF Rising(m) THEN r.figures[m] >= q.figures[m]
           ELSE r.figures[m] <= q.figures[m]
    /\ [r EXCEPT !.figures = 0, !.age = 0] = [q EXCEPT !.figures = 0, !.age = 0]
    /\ ~Extreme(r.figures)

Told == ~Missing(snap) /\ ~snap.error

\* Better figures, or fresher ones, never put a candidate further behind while its
\* company is valued the same, nor does an answer of no provider put it ahead of where
\* it was without a snapshot: through the scores, labels, penalties, the action and the
\* conviction, each of which weighs a part of the evidence.
EvidenceHelps ==
    [][ /\ Told /\ snap'.error = FALSE /\ Better(rec', rec)
           /\ ValuationLabel(snap') = ValuationLabel(snap) => NotBehind(place', place)
        /\ Missing(snap) /\ snap' = ErrorSnapshot => NotBehind(place, place') ]_vars

=============================================================================
