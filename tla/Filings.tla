------------------------------- MODULE Filings -------------------------------
(***************************************************************************)
(* The periods that a company's figures are of (src/swing_screener/        *)
(* fundamentals/providers): the facts of its filings as EDGAR lists them,  *)
(* the annual reports of DEGIRO, the statements of Yahoo, and the record   *)
(* that the first provider to know the company makes of them.              *)
(*                                                                         *)
(* Time is counted in quarters, every fourth of which ends a year.  A      *)
(* value says what it is of: the quarters that it sums up, the last of     *)
(* them, and the filing that stated it.  A quotient is its two values.     *)
(***************************************************************************)
EXTENDS Integers, Sequences, FiniteSetsExt

CONSTANTS
    First, Last,        \* the quarters that are reported
    MaxRevisions,       \* bound: amendments, and figures told again outside a report
    Companies           \* how often one reports (quarters, halves, years), tags: under
                        \* which tag it states the revenue of each period, 1 being the
                        \* one that is looked for first, and dry: quarters without revenue

VARIABLES
    filings,    \* what the company has filed, in order, as form and period
    company,
    source      \* the first provider that knows it, how often that has each statement,
                \* and whether it tells a growth itself

vars == <<filings, company, source>>

Quarter(q) == IF q % 4 = 0 THEN 4 ELSE q % 4

-----------------------------------------------------------------------------
(* companyfacts: a report states its period and those that it is compared     *)
(* with, each fact marked with the period of the report (fp), if it has one.  *)
(* A flow is stated for the quarter and for the year so far, cash for the     *)
(* year so far only.                                                          *)

Period(form) ==
    CASE form \in {"10-K", "20-F"} -> "FY"
      [] form \in {"10-Q", "8-K"} -> "Q"
      [] form = "6-K" -> "none"

Spans(concept, f) ==
    CASE Period(f.form) = "FY" -> {4}
      [] Period(f.form) = "Q" /\ concept # "cash" -> {1, Quarter(f.period)}
      [] OTHER -> {Quarter(f.period)}

Compared(f) ==
    {f.period, f.period - 4} \cup (IF Period(f.form) = "FY" THEN {f.period - 8} ELSE {})

Facts(concept) ==
    UNION {{[end |-> end, span |-> span, by |-> i, form |-> filings[i].form,
             tag |-> IF concept = "revenue" THEN company.tags[filings[i].period] ELSE 1] :
                end \in Compared(filings[i]), span \in Spans(concept, filings[i])} :
           i \in DOMAIN filings}

\* _ALLOWED_FORMS
Allowed(fact) == fact.form # "8-K"

\* _infer_frequency: how long it is decides only if nothing else does.
Frequency(fact) ==
    CASE Period(fact.form) = "Q" -> "quarterly"
      [] Period(fact.form) = "FY" -> "annual"
      [] Period(fact.form) = "none" ->
             CASE fact.span = 1 -> "quarterly"
               [] fact.span = 4 -> "annual"
               [] fact.span \in {2, 3} -> "unknown"

Zero(value) == value.end - value.span + 1 .. value.end \subseteq company.dry

\* A faulty form: what was filed first stays.
Prevails_First(f, g) == f.by < g.by \/ (f.by = g.by /\ f.span < g.span)

\* Of the facts for the same end the one that was filed last; within a filing EDGAR
\* lists the longer before the shorter, and the last that is listed stays.
Prevails(f, g) == f.by > g.by \/ (f.by = g.by /\ f.span < g.span)

\* _dedupe_points
Points(facts, frequency) ==
    LET fit == {f \in facts : Frequency(f) = frequency /\ Allowed(f)}
    IN  {[end |-> f.end, span |-> f.span, by |-> f.by] :
             f \in {g \in fit : ~\E h \in fit : h.end = g.end /\ Prevails(h, g)}}

LastOf(points, n) == {v \in points : Cardinality({w \in points : w.end > v.end}) < n}

NoSeries == [frequency |-> "unknown", points |-> {}]

\* A series of at most five points, or none.
Recent(frequency, points) ==
    IF points = {} THEN NoSeries
    ELSE [frequency |-> frequency, points |-> LastOf(points, 5)]

\* _build_series_payload: of the tags the first that was ever used, of the frequencies
\* the quarterly if there is one.
EdgarSeries(concept) ==
    LET all == Facts(concept)
        tag == Min({f.tag : f \in all})
        told == {f \in all : f.tag = tag}
        quarterly == Points(told, "quarterly")
    IN  IF quarterly # {} THEN Recent("quarterly", quarterly)
        ELSE Recent("annual", Points(told, "annual"))

-----------------------------------------------------------------------------
(* The statements of Yahoo, which fill in the fourth quarters, and those of   *)
(* DEGIRO, which are of years.                                                *)

Reported == {filings[i].period : i \in DOMAIN filings}

Statement(ends, span) == {[end |-> e, span |-> span, by |-> 0] : e \in ends}

Years == {q \in Reported : Quarter(q) = 4}

\* _get_statement_frame, _series_from_frame: the quarterly one unless it is empty.
YahooSeries(concept) ==
    CASE source.has[concept] = "quarterly" -> Recent("quarterly", Statement(Reported, 1))
      [] source.has[concept] = "annual" -> Recent("annual", Statement(Years, 4))
      [] source.has[concept] = "none" -> NoSeries

DegiroSeries(concept) ==
    IF concept = "revenue" /\ Years # {}
    THEN [frequency |-> "annual", points |-> LastOf(Statement(Years, 4), 7)]
    ELSE NoSeries

Series(concept) ==
    CASE source.name = "sec_edgar" -> EdgarSeries(concept)
      [] source.name = "degiro" -> DegiroSeries(concept)
      [] source.name = "yfinance" -> YahooSeries(concept)

-----------------------------------------------------------------------------
(* What is made of series, here and in _resolved_record of scoring.py.       *)

Joined(num, den) ==
    LET pairs == [num : num.points, den : {w \in den.points : ~Zero(w)}]
    IN  {r \in pairs : r.num.end = r.den.end}

\* _ratio_series, _combine_series: the two are joined by the ends of their periods.
Ratio(num, den) ==
    [frequency |-> IF num.frequency = den.frequency THEN num.frequency ELSE "unknown",
     points |-> Joined(num, den)]

Margin(concept) == Ratio(Series(concept), Series("revenue"))

\* _year_ago_value and _growth_from_series: between 280 and 460 days before lie the ends
\* of four quarters ago, which is nearer to a year, and of five.
Growths ==
    LET points == Series("revenue").points
        latest == LastOf(points, 1)
        Before(v, k) == {w \in points : w.end = v.end - k /\ ~Zero(w)}
    IN  IF source.tells THEN {}
        ELSE {[num |-> v, den |-> w] :
                  v \in latest, w \in UNION {IF Before(u, 4) # {} THEN Before(u, 4)
                                           ELSE Before(u, 5) : u \in latest}}

\* most_recent_quarter, which DEGIRO tells as the end of its last year.
MostRecent ==
    LET told == {Series("revenue"), Series("cash")}
        quarterly == {s \in told : s.frequency = "quarterly"}
        ends == IF source.name = "degiro" THEN Years
                ELSE {v.end : v \in UNION {s.points : s \in quarterly}}
    IN  IF ends = {} THEN 0 ELSE Max(ends)

-----------------------------------------------------------------------------
Concepts == {"revenue", "income", "cash"}

Sources ==
    [name : {"sec_edgar", "degiro", "yfinance"}, tells : BOOLEAN,
     has : [Concepts -> {"quarterly", "annual", "none"}]]

\* EDGAR tells no growth of its own, and the other providers know no tags.
Init ==
    /\ filings = <<>>
    /\ company \in Companies /\ source \in Sources
    /\ source.name = "sec_edgar" => ~source.tells
    /\ source.name # "sec_edgar" => company.tags = [q \in First..Last |-> 1]
    /\ source.name # "yfinance" => source.has = [c \in Concepts |-> "none"]

Add(form, period) ==
    /\ filings' = Append(filings, [form |-> form, period |-> period])
    /\ UNCHANGED <<company, source>>

\* The next report.
Report ==
    \E q \in First..Last :
        /\ \A p \in Reported : p < q
        /\ CASE company.reports = "quarters" ->
                   /\ q = First \/ q - 1 \in Reported
                   /\ Add(IF Quarter(q) = 4 THEN "10-K" ELSE "10-Q", q)
             [] company.reports = "halves" ->
                   /\ Quarter(q) \in {2, 4}
                   /\ \A p \in First .. q - 1 : Quarter(p) \in {2, 4} => p \in Reported
                   /\ Add(IF Quarter(q) = 4 THEN "20-F" ELSE "6-K", q)
             [] company.reports = "years" ->
                   /\ Quarter(q) = 4
                   /\ \A p \in First .. q - 1 : Quarter(p) = 4 => p \in Reported
                   /\ Add("20-F", q)

\* Figures are stated again: a report is amended, or the last is recast in an 8-K.
Revise ==
    /\ Len(filings) < Cardinality(Reported) + MaxRevisions
    /\ \/ \E i \in DOMAIN filings : Add(filings[i].form, filings[i].period)
       \/ Reported # {} /\ Add("8-K", Max(Reported))

Next == Report \/ Revise

-----------------------------------------------------------------------------
Retagged == \E p, q \in Reported : company.tags[p] # company.tags[q]

\* The growth of revenue that is told after any filings, amendments and changes of tags
\* compares with the same period a year before, or, if there was no revenue then, with
\* one as long.  Of EDGAR it is of the last period reported, the most recent quarter of
\* the record, both as last stated in a report, unless a change of tags has cut the series.
GrowthComparesYears ==
    \A g \in Growths :
        /\ g.num.span = g.den.span
        /\ \/ g.den.end = g.num.end - 4
           \/ g.num.end - 4 \in company.dry
        /\ source.name = "sec_edgar" /\ ~Retagged =>
               /\ \A i \in DOMAIN filings :
                      filings[i].period > g.num.end => filings[i].form # "10-Q"
               /\ Series("revenue").frequency = "quarterly" => MostRecent = g.num.end
               /\ \A v \in {g.num, g.den} : \A f \in Facts("revenue") :
                      f.end = v.end /\ f.span = v.span /\ Allowed(f) => f.by <= v.by

\* A margin that is said to be of quarters or of years divides figures of as many, other
\* than EDGAR's of cash, which divides the year so far by the quarter.
MarginsAreLike ==
    \A concept \in {"income", "cash"} :
        LET margin == Margin(concept)
        IN  margin.frequency # "unknown" /\ ~(source.name = "sec_edgar" /\ concept = "cash")
            => \A r \in margin.points : r.num.span = r.den.span

=============================================================================
