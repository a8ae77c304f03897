------------------------------ MODULE MCSymbol ------------------------------
(* What is decided of one symbol, on small instances, one part moving at a   *)
(* time: the position in it and the backtest, which both apply StopRules;    *)
(* where its company's figures put it among the candidates; what its card    *)
(* says of its worth; which periods the figures of the company are of.       *)
EXTENDS Trade, TLC

CONSTANTS
    Parts,
    HistoryBars,        \* MaxBars of the backtest
    StaleAfter, TechnicalWeight, FundamentalsWeight, CatalystWeight, ValuationWeight,
    Candidates, Reports,            \* setups and records of a company, to be ranked
    SharePrice, Setups, Sheets,     \* a price, setups and snapshots, to be shown on a card
    First, Last, MaxRevisions,      \* the quarters that are reported, and amendments
    Issuers                         \* companies that report them

VARIABLES
    part,
    day, history, cur, trades,
    candidate, rec, snap, place,
    setup, sheet, card,
    filings, company, source

Backtest == INSTANCE Replay WITH
    MaxBars <- HistoryBars, today <- day, bars <- history

AFirstBar == CHOOSE b \in FirstBars : TRUE

Scores == INSTANCE Scoring
Ranks == INSTANCE Ranking
Cards == INSTANCE Valuation WITH Close <- SharePrice
Figures == INSTANCE Filings WITH Companies <- Issuers

-----------------------------------------------------------------------------
(* What the constants are.                                                   *)

ASSUME PartsAssumption ==
    /\ HistoryBars \in Nat \ {0}
    /\ {StaleAfter, TechnicalWeight, FundamentalsWeight, CatalystWeight, ValuationWeight}
           \subseteq Nat
    /\ TechnicalWeight + FundamentalsWeight + CatalystWeight + ValuationWeight > 0

Frequencies == {"annual", "quarterly", "unknown"}

Setup == [recommended : BOOLEAN, confidence : Nat, rr : Int, supports : 0..4, mode : STRING]

Score == 0 .. Scores!One \cup {Scores!None}

Sheet ==
    [pillar : [DOMAIN Scores!Pillars -> Score],
     coverage : {"supported", "partial", "insufficient", "unsupported"},
     freshness : {"current", "stale", "unknown"}, quality : {"low", "medium", "high"},
     confidence : Nat, health : STRING, freshness_penalty : Nat, coverage_penalty : Nat,
     business_quality : Score, valuation : Score,
     multiples : [Scores!Pillars["valuation"] -> Int],
     sector : STRING, error : BOOLEAN, book : Int]

ASSUME CardsAssumption == Setups \subseteq Setup /\ Sheets \subseteq Sheet
                       /\ SharePrice \in Nat

\* A share costs a dime or more (the filter of the universe asks five dollars, unless a
\* request asks less), as below an estimate may be rounded to nothing; and where more is
\* owed than owned, the price is no positive multiple of what is owned.
ASSUME WorthAssumption ==
    /\ SharePrice >= 10
    /\ \A s \in Sheets : s.book # Scores!None /\ s.book <= 0 =>
                           s.multiples["price_to_book"] \notin 1..100

ASSUME RanksAssumption ==
    /\ \A c \in Candidates :
           /\ c.technical \in Nat
           /\ c \in [recommended : BOOLEAN, confidence : Nat, rr : Int, supports : 0..4,
                     mode : STRING, technical : {c.technical}]
    /\ \A r \in Reports :
           r \in [figures : [Scores!Metrics -> Int], supported : BOOLEAN, age : Int,
                  sector : STRING, frequency : Frequencies, cadence : Frequencies,
                  points : Seq(Nat), derived : BOOLEAN, error : BOOLEAN]

ASSUME FiguresAssumption ==
    /\ {First, Last} \subseteq Nat
    /\ Issuers \subseteq [reports : {"quarters", "halves", "years"},
                          dry : SUBSET Nat, tags : [First..Last -> Nat]]

-----------------------------------------------------------------------------
(* The small instance: a setup of each strength, and companies whose figures  *)
(* cross the marks they are judged by.                                        *)

SomeCandidates ==
    {[recommended |-> TRUE, confidence |-> confidence, rr |-> 20, supports |-> 2,
      mode |-> "", technical |-> 5000] : confidence \in {60, 75}}

Untold == [m \in Scores!Metrics |-> Scores!None]

Company(figures, sector, age) ==
    [figures |-> figures @@ Untold, supported |-> TRUE, age |-> age, sector |-> sector,
     frequency |-> "quarterly", cadence |-> "quarterly", points |-> <<5, 6>>,
     derived |-> FALSE, error |-> FALSE]

SomeReports ==
    {Company([revenue_growth |-> growth, operating_margin |-> margin,
              debt_to_equity |-> debt, fcf_margin |-> cash, trailing_pe |-> pe,
              price_to_sales |-> 20, net_cash |-> worth], sector, age) :
         growth \in {-1000, 600, 40000}, margin \in {0, 3000}, debt \in {300, 100},
         cash \in {-100, 700}, pe \in {100, 500}, age \in {60, 200},
         worth \in {-1000, Scores!None}, sector \in {"software", "mature", ""}}

\* Setups that are traded or only managed, and companies that are dear or cheap by each
\* of the three methods, or cannot be valued by it (one that owes more than it owns has
\* no price to book).
SomeSetups ==
    {[recommended |-> TRUE, confidence |-> 75, rr |-> rr, supports |-> 2, mode |-> mode] :
         rr \in {20, Scores!None}, mode \in {"", "MANAGE_ONLY"}}

SomeSheets ==
    {Scores!Snapshot(Company([revenue_growth |-> growth, operating_margin |-> margin,
                              fcf_margin |-> cash, trailing_pe |-> pe,
                              price_to_sales |-> ps, price_to_book |-> owned[1]],
                             sector, age))
         @@ [book |-> owned[2]] :
         growth \in {-1000, 600, Scores!None}, margin \in {Scores!None, 3000},
         cash \in {-100, 700, Scores!None}, pe \in {100, 900}, ps \in {35, 300},
         owned \in {<<5, 400>>, <<5, Scores!None>>, <<Scores!None, -50>>},
         age \in {60, 400}, sector \in {"financials", "software", "mature", ""}}

\* Companies that report by quarters, halves or years, some without revenue in the first
\* quarter, and some that change the tag of their revenue once.
SomeIssuers ==
    [reports : {"quarters", "halves", "years"}, dry : {{}, {2}},
     tags : {[q \in 2..6 |-> IF q < from THEN tag ELSE 3 - tag] :
                 tag \in {1, 2}, from \in {2, 4, 5, 6}}]

-----------------------------------------------------------------------------
backtest == <<day, history, cur, trades>>
ranks == <<candidate, rec, snap, place>>
cards == <<setup, sheet, card>>
reports == <<filings, company, source>>

MCInit ==
    /\ part \in Parts
    /\ Init /\ Backtest!Init
    /\ part # "live" => bars = AFirstBar
    /\ part # "backtest" => history = AFirstBar
    /\ IF part = "ranking" THEN Ranks!Init
       ELSE candidate = 0 /\ rec = 0 /\ snap = Ranks!NoSnapshot /\ place = 0
    /\ IF part = "card" THEN Cards!Init
       ELSE setup = 0 /\ sheet = 0 /\ card = Cards!NoCard
    /\ IF part = "filings" THEN Figures!Init
       ELSE filings = <<>> /\ company = 0 /\ source = 0

MCNext ==
    \/ part = "live" /\ Next /\ UNCHANGED <<part, backtest, ranks, cards, reports>>
    \/ part = "backtest" /\ Backtest!Next /\ UNCHANGED <<part, vars, ranks, cards, reports>>
    \/ part = "ranking" /\ Ranks!Next /\ UNCHANGED <<part, vars, backtest, cards, reports>>
    \/ part = "card" /\ Cards!Next /\ UNCHANGED <<part, vars, backtest, ranks, reports>>
    \/ part = "filings" /\ Figures!Next /\ UNCHANGED <<part, vars, backtest, ranks, cards>>

MCSpec == MCInit /\ [][MCNext]_<<part, vars, backtest, ranks, cards, reports>>

-----------------------------------------------------------------------------
\* The properties of the parts.
TradesAreSound == Backtest!NonOverlapping /\ Backtest!ExitsArePriced
SimSpec == Backtest!SimSpec
EvidenceHelps == Ranks!EvidenceHelps
ServersValuation == Cards!ServersValuation
DeficitsTold == Cards!DeficitsTold
PeriodsAreLike ==
    part = "filings" => Figures!GrowthComparesYears /\ Figures!MarginsAreLike

-----------------------------------------------------------------------------
(* What the documentation says and the code does not do.                     *)

\* "Replay the live signal/stop/exit decision path": the stop the backtest
\* moves to is one the live update_position_stop takes, at or below the last
\* close.
ReplayIsLive ==
    [][ /\ cur.life = "open" /\ cur'.life = "open"
        /\ cur'.stop # cur.stop
        => cur'.stop <= LastClose(history) ]_backtest

=============================================================================
