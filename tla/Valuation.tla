----------------------------- MODULE Valuation ------------------------------
(***************************************************************************)
(* What a candidate's card says of the company's worth: the server's       *)
(* estimate and drivers (recommendation/decision_summary.py), and what the *)
(* browser fills in later, by an implementation of its own                 *)
(* (web-ui/src/features/screener/decisionSummary.ts).                      *)
(*                                                                         *)
(* Prices are cents; of a sheet, multiples are tenths, book is cents per   *)
(* share, and factors are ten-thousandths, as in Scoring.                  *)
(***************************************************************************)
EXTENDS Decision

CONSTANTS
    Close,          \* the price of a share
    Setups,         \* setups of candidates, as in Ranking
    Sheets          \* snapshots of companies: those of Scoring with book, the book
                    \* value of a share

VARIABLES
    setup, sheet,   \* the candidate, and what is by now stored of its company
    card            \* what the browser shows

vars == <<setup, sheet, card>>

NoEstimate == [method |-> "not_available"]

\* To the nearest.
Rounded(n, d) == (2 * n + d) \div (2 * d)

-----------------------------------------------------------------------------
(* _fair_value_estimate: a multiple of what a share earns, sells or owns, the *)
(* higher the better the company's scores.                                    *)

Range3(method, low, base, high, unit, d) ==
    [method |-> method, low |-> Rounded(unit * low, d), base |-> Rounded(unit * base, d),
     high |-> Rounded(unit * high, d)]

FromEarnings(pe, quality, growth) ==
    LET base == Clamp(12 * One + 12 * quality + 4 * growth, 10 * One, 32 * One)
    IN  Range3("earnings_multiple", Clamp(base - 3 * One, 8 * One, base), base,
               Clamp(base + 3 * One, base, 36 * One), Close * 10, pe * One)

FromSales(ps, quality, growth) ==
    LET base == Clamp(15000 + 3 * quality + (3 * growth) \div 2, One, 8 * One)
    IN  Range3("sales_multiple", Clamp((base * 85) \div 100, 8000, base), base,
               Clamp((base * 115) \div 100, base, 10 * One), Close * 10, ps * One)

FromBook(book, quality, profitability, balance) ==
    LET base == Clamp(9000 + (75 * quality + 125 * profitability + 85 * balance) \div 100,
                      8000, 45000)
    IN  Range3("book_multiple", Clamp(base - 3500, 6000, base), base,
               Clamp(base + 3500, base, 5 * One), book, One)

\* The first of the methods that the figures allow, in the order of the sector.
MethodOrder(profile) ==
    CASE profile = "financials" -> <<"book", "earnings", "sales">>
      [] profile = "growth_software" -> <<"sales", "earnings", "book">>
      [] OTHER -> <<"earnings", "sales", "book">>

\* What a share owns: as told, or what the price says of it.
ServerBook(s) ==
    LET pb == s.multiples["price_to_book"]
    IN  IF s.book # None THEN s.book
        ELSE IF pb # None /\ pb \in 1..100 THEN (Close * 10) \div pb ELSE None

\* A faulty form: the price is not asked.
LocalBook_Told(s) == IF s.book # None /\ s.book > 0 THEN s.book ELSE None

LocalBook(s) ==
    LET pb == s.multiples["price_to_book"]
    IN  IF s.book # None /\ s.book > 0 THEN s.book
        ELSE IF pb # None /\ pb \in 1..100 THEN (Close * 10) \div pb ELSE None

Estimate(s, book) ==
    LET quality == Mean([p \in Quality |-> s.pillar[p]])
        Or(p) == OrElse(s.pillar[p], quality)
        cash == s.pillar["cash_flow"]
        growth == IF Profile(s) = "mature_cashflow" /\ cash # None
                  THEN Max({Or("growth"), cash}) ELSE Or("growth")
        pe == s.multiples["trailing_pe"]
        ps == s.multiples["price_to_sales"]
        allowed ==
            [earnings |-> pe # None /\ pe \in 1..800,
             sales |-> ps # None /\ ps \in 1..200,
             book |-> book # None /\ book > 0]
        order == MethodOrder(Profile(s))
        fit == {i \in 1..3 : allowed[order[i]]}
        method == order[Min(fit)]
    IN  IF quality = None \/ fit = {} THEN NoEstimate
        ELSE CASE method = "earnings" -> FromEarnings(pe, quality, growth)
               [] method = "sales" -> FromSales(ps, quality, growth)
               [] method = "book" ->
                      FromBook(book, quality, Or("profitability"), Or("balance_sheet"))

\* An estimate that is rounded to nothing is none.
FairValue(s) ==
    LET e == IF Missing(s) THEN NoEstimate ELSE Estimate(s, ServerBook(s))
    IN  IF e # NoEstimate /\ e.base = 0 THEN NoEstimate ELSE e

LocalFairValue(s) == Estimate(s, LocalBook(s))

-----------------------------------------------------------------------------
(* deriveValuationLabel of the browser: a pillar that scored nothing is not   *)
(* taken for one that is not scored.                                          *)

LocalWeighing(s) ==
    LET growth == OrElse(s.pillar["growth"], 5500)
        cash == OrElse(s.pillar["cash_flow"], 5500)
    IN  CASE Profile(s) = "financials" ->
                 <<<<"price_to_book", 26, 9>>, <<"trailing_pe", 170, 70>>>>
          [] Profile(s) = "growth_software" ->
                 <<<<"price_to_sales", 70 + growth \div 200, 30 + growth \div 500>>,
                   <<"trailing_pe", 450, 180>>>>
          [] Profile(s) = "mature_cashflow" ->
                 <<<<"trailing_pe", 200 + cash \div 125, 100 + cash \div 250>>,
                   <<"price_to_sales", 55, 15>>>>

LocalLabel(s) ==
    LET Worth(w) == LET value == s.multiples[w[1]]
                    IN  IF value = None THEN None ELSE Portion(value, w[2], w[3])
        weighed == IF Profile(s) = "default" THEN None
                   ELSE LET w == LocalWeighing(s)
                        IN  Mean(<<Worth(w[1]), Worth(w[1]), Worth(w[2])>>)
        score == IF weighed # None THEN weighed ELSE s.pillar["valuation"]
    IN  [strong |-> "cheap", neutral |-> "fair", weak |-> "expensive",
         unavailable |-> "unknown"][Status(score)]

-----------------------------------------------------------------------------
(* _drivers: of the warnings the first two are kept.                         *)

\* _append_unique, of a warning that has its reason.
If(reason, warning) == IF reason THEN <<warning>> ELSE <<>>

\* What is wrong with the figures, in the order in which it is told.
Deficits(s) ==
    IF Missing(s) THEN <<"no_snapshot">>
    ELSE If(s.coverage # "supported", "coverage") \o If(s.freshness = "stale", "stale")
         \o If(s.quality = "low", "quality")
         \o If(s.freshness_penalty > 1500, "months_old")
         \o If(s.coverage_penalty > 2500, "pillars")

FirstTwo(told) == SubSeq(told, 1, Min({2, Len(told)}))

\* A faulty form: what is said of the trade comes first.
Warnings_TradeFirst(c, s) ==
    FirstTwo(If(c.rr = None, "no_rr") \o <<"no_catalysts">> \o Deficits(s))

\* The screener has no catalysts to show, and says so first.
Warnings(c, s) ==
    FirstTwo(<<"no_catalysts">> \o Deficits(s) \o If(c.rr = None, "no_rr")
             \o If(c.mode = "MANAGE_ONLY", "manage_only"))

\* build_decision_summary, with what Decide leaves out.
Summary(c, s) ==
    LET decided == Decide(c, s)
    IN  [fundamentals |-> decided.fundamentals, valuation |-> decided.valuation,
         action |-> decided.action, conviction |-> decided.conviction,
         fair |-> FairValue(s), warnings |-> Warnings(c, s),
         points |-> Points(TechnicalLabel(c), FundamentalsLabel(s),
                           ValuationLabel(s), "weak", s),
         seen |-> FALSE]

-----------------------------------------------------------------------------
NoCard == [seen |-> FALSE]

Init ==
    /\ setup \in Setups /\ sheet \in Sheets
    /\ card = NoCard

\* The screener finds the company's snapshot, or does not have it yet.
Screen ==
    /\ card = NoCard
    /\ \E found \in {NoSnapshot, sheet} : card' = Summary(setup, found)
    /\ UNCHANGED <<setup, sheet>>

\* syncCandidateWithFundamentals, when the card is opened and the snapshot is there: a
\* summary with a fair value is left as it is.
Open ==
    /\ card # NoCard /\ ~card.seen
    /\ card' = IF card.fair # NoEstimate THEN [card EXCEPT !.seen = TRUE]
               ELSE [card EXCEPT !.seen = TRUE, !.valuation = LocalLabel(sheet),
                                 !.fair = LocalFairValue(sheet)]
    /\ UNCHANGED <<setup, sheet>>

Next == Screen \/ Open

-----------------------------------------------------------------------------
\* "Preserve the backend decision summary ... so the server remains the single source
\* of truth": a card shows the label and the range that the server makes of the
\* company's snapshot, whichever of the two implementations made them, unless the
\* browser made the label and a pillar scored nothing.
ServersValuation ==
    card # NoCard /\ card.seen =>
        /\ card.fair = FairValue(sheet)
        /\ card.valuation = ValuationLabel(sheet)
               \/ 0 \in {sheet.pillar["growth"], sheet.pillar["cash_flow"]}

\* A conviction that would be higher with good figures comes with a warning of what is
\* wrong with them, though only two warnings are shown, and one is always shown.
DeficitsTold ==
    card # NoCard =>
        LET c == setup
            known == sheet
            points == Points(TechnicalLabel(c), FundamentalsLabel(known),
                             ValuationLabel(known), "weak",
                             [known EXCEPT !.coverage = "supported",
                                           !.freshness = "current", !.quality = "high"])
        IN  ~card.seen /\ card.points < points
                /\ FundamentalsLabel(known) = card.fundamentals
                /\ ValuationLabel(known) = card.valuation
            => \E i \in DOMAIN card.warnings :
                   card.warnings[i] \in {"no_snapshot", "coverage", "stale", "quality"}

=============================================================================
