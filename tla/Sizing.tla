------------------------------- MODULE Sizing -------------------------------
(***************************************************************************)
(* What a trade may cost (src/swing_screener/risk/ and                     *)
(* execution/guidance.py): how many shares a setup is worth, where its     *)
(* stop goes, and whether it is recommended.                               *)
(*                                                                         *)
(* Prices and money are whole units of one currency.  A stop or a number   *)
(* of shares that is missing is None.                                      *)
(***************************************************************************)
EXTENDS Integers

CONSTANTS
    Prices,         \* the prices that occur
    FullBudget,     \* account_size * risk_pct: the money a trade may lose
    Cap,            \* account_size * max_position_pct: what a position may be worth
    MinShares,      \* min_shares
    Cut,            \* the regime multipliers are 1 / Cut
    RRTarget, MinRR,    \* rr_target and min_rr
    Fee, MaxFee     \* of Fee units traded one is paid, twice; of MaxFee units of
                    \* risk, one may go on that

ASSUME PricesAssumption == Prices \subseteq Nat \ {0}
ASSUME MoneyAssumption == FullBudget \in Nat /\ Cap \in Nat \ {0}
ASSUME RatesAssumption ==
    /\ MinShares \in Nat \ {0} /\ Cut \in Nat \ {0}
    /\ RRTarget \in Nat /\ MinRR \in Nat
    /\ Fee \in Nat \ {0} /\ MaxFee \in Nat \ {0}

None == -1

Lesser(m, n) == IF m <= n THEN m ELSE n

\* compute_regime_risk_multiplier: a benchmark below its average, or one that
\* swings, cuts the budget.
Budget(weak, wild) ==
    (FullBudget \div (IF weak THEN Cut ELSE 1)) \div (IF wild THEN Cut ELSE 1)

\* position_plan: what the budget and the cap allow; too few is no plan.
PositionPlan(entry, stop, budget) ==
    LET shares == Lesser(budget \div (entry - stop), Cap \div entry)
    IN  IF shares < MinShares THEN None ELSE shares

\* apply_pattern_stop: `level` is the highest of the patterns' stops.  It is taken
\* if it is tighter, and below the entry.
PatternStop(entry, stop, level) ==
    IF level < entry /\ level > stop THEN level ELSE stop

\* _estimate_costs against the risk.
FeesOK(entry, stop, shares) == 2 * entry * shares * MaxFee <= (entry - stop) * shares * Fee

\* A faulty form: what a share may lose is not asked.
Recommend_AnyRisk(active, entry, stop, shares, budget) ==
    LET defined == stop # None /\ stop < entry
        sized == IF shares # None THEN shares ELSE Cap \div entry
        final == Lesser(sized, Cap \div entry)
    IN  [verdict |-> /\ active /\ defined /\ final >= MinShares
                     /\ RRTarget >= MinRR
                     /\ FeesOK(entry, stop, final),
         entry |-> entry, stop |-> stop, shares |-> final]

\* build_recommendation: the size, and the six gates.  The target is rr_target
\* times the risk away, so the reward-to-risk is rr_target for every setup.
Recommend(active, entry, stop, shares, budget) ==
    LET defined == stop # None /\ stop < entry
        sized == IF shares # None THEN shares
                 ELSE IF defined THEN budget \div (entry - stop)
                 ELSE Cap \div entry
        final == Lesser(sized, Cap \div entry)
    IN  [verdict |-> /\ active /\ defined /\ final >= MinShares
                     /\ (entry - stop) * final <= budget
                     /\ RRTarget >= MinRR
                     /\ FeesOK(entry, stop, final),
         entry |-> entry, stop |-> stop, shares |-> final]

\* _build_candidates: the plan of a setup with a signal, a stop from the ATR (or
\* none) without a plan, tightened by a pattern; the plan's shares are kept.
Candidate(active, entry, stop, level, budget) ==
    Recommend(active, entry,
              IF stop = None THEN None ELSE PatternStop(entry, stop, level),
              IF active /\ stop # None THEN PositionPlan(entry, stop, budget) ELSE None,
              budget)

-----------------------------------------------------------------------------
(* recommendation/decision_summary.py: labels to an action. *)

\* Of the labels `_action` tells apart; the screener passes no opportunity, so the
\* catalyst is always weak.
Labels == {"strong", "neutral", "weak"}

\* _action
DecisionAction(technical, fundamentals, expensive, mode) ==
    IF mode = "MANAGE_ONLY" THEN "MANAGE_ONLY"
    ELSE CASE technical = "strong" /\ fundamentals = "strong" ->
                  IF expensive THEN "BUY_ON_PULLBACK" ELSE "BUY_NOW"
           [] technical = "strong" /\ fundamentals = "neutral" ->
                  IF expensive THEN "WAIT_FOR_BREAKOUT" ELSE "WATCH"
           [] technical = "strong" /\ fundamentals = "weak" -> "TACTICAL_ONLY"
           [] technical = "weak" /\ fundamentals = "weak" -> "AVOID"
           [] OTHER -> "WATCH"

Buys == {"BUY_NOW", "BUY_ON_PULLBACK", "WAIT_FOR_BREAKOUT"}

\* rebuild_recommendations_with_decision_action: a candidate without a signal is
\* asked again, with the action for a signal.
Rebuilt(active, rec, action, budget) ==
    IF active THEN rec
    ELSE Recommend(action \in Buys, rec.entry, rec.stop, rec.shares, budget)

=============================================================================
