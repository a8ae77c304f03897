------------------------------ MODULE StopRules ------------------------------
(***************************************************************************)
(* The rules that manage an open position from the daily bars of its       *)
(* ticker: close it (stop hit, held too long, closes below the average),   *)
(* raise its stop (to breakeven, then trailing), or leave it.              *)
(*                                                                         *)
(* Prices are integers, in tenths of a cent.  The history of a ticker is   *)
(* the sequence of the days on which it traded (dropna): the day, the      *)
(* close, the average true range after it (0 while there are too few bars  *)
(* for one), and the sum of the closes so far, from which the moving       *)
(* average is read.                                                        *)
(***************************************************************************)
EXTENDS Integers, Sequences, FiniteSets, FiniteSetsExt

CONSTANTS
    BreakevenAtR, TrailAfterR,      \* in R
    TrailSma,                       \* bars in the moving average
    SmaBuffer,                      \* per mille under the average
    AtrMultiple, TrailPct,          \* the trail_param of atr and fixed_pct
    MaxHoldingDays,                 \* 0 for no time exit
    ExitSignalDays,                 \* 0 for no exit signal
    Closes, Ranges,                 \* the closes and true ranges of the market
    Prices,                         \* of an entry, and of a stop set by hand
    MaxBars                         \* bound: the days of a history

ASSUME RulesAssumption ==
    /\ {BreakevenAtR, TrailAfterR, SmaBuffer, AtrMultiple, TrailPct,
        MaxHoldingDays, ExitSignalDays} \subseteq Nat
    /\ TrailSma \in Nat \ {0} /\ MaxBars \in Nat \ {0}
\* 0 stands for a range not known yet, and for a price there is none of.
ASSUME MarketAssumption ==
    Closes \cup Prices \subseteq Nat \ {0} /\ Ranges \subseteq Nat

Bar == [day : Nat, close : Closes, atr : Ranges, sum : Int]

Quote == [close : Closes, atr : Ranges]

NextBar(q, day, sum) ==
    [day |-> day, close |-> q.close, atr |-> q.atr, sum |-> sum + q.close]

FirstBars == {<<NextBar(q, 1, 0)>> : q \in Quote}

\* The histories a day of trading may lead to.  The true range, once known,
\* stays known.
Traded(bars, day) ==
    LET last == bars[Len(bars)]
    IN  {Append(bars, NextBar(q, day, last.sum)) :
             q \in {q \in Quote : last.atr # 0 => q.atr # 0}}

LastClose(bars) == bars[Len(bars)].close

\* num / den, rounded to the cent, half up.
Cents(num, den) == 10 * ((num + 5 * den) \div (10 * den))

\* The sum of the TrailSma closes that end at bar i.
SmaSum(bars, i) ==
    bars[i].sum - (IF i = TrailSma THEN 0 ELSE bars[i - TrailSma].sum)

SmaBroken(bars) ==
    /\ Len(bars) >= TrailSma + ExitSignalDays - 1
    /\ \A i \in Len(bars) - ExitSignalDays + 1 .. Len(bars) :
           bars[i].close * TrailSma < SmaSum(bars, i)

TimeExit(bars, day) ==
    /\ MaxHoldingDays # 0
    /\ Cardinality({i \in DOMAIN bars : bars[i].day >= day}) >= MaxHoldingDays

Reached(pos, last, r) == last - pos.entry >= r * pos.risk

\* The stop the trail method asks for: one price, or none.
TrailStops(method, bars) ==
    LET last == bars[Len(bars)]
    IN  IF method = "sma20" /\ Len(bars) >= TrailSma
        THEN {Cents(SmaSum(bars, Len(bars)) * (1000 - SmaBuffer),
                    1000 * TrailSma)}
        ELSE IF method = "atr" /\ last.atr # 0
        THEN {Cents(last.close - AtrMultiple * last.atr, 1)}
        ELSE IF method = "fixed_pct"
        THEN {Cents(last.close * (100 - TrailPct), 100)}
        ELSE {}

\* Faulty forms: breakeven whatever the position has gained; a percentage that
\* is not rounded to the cent.
RuleStops_Eager(pos, bars) == {Cents(pos.entry, 1)}

RuleStops_Unrounded(pos, bars) ==
    IF Reached(pos, LastClose(bars), TrailAfterR)
    THEN {(LastClose(bars) * (100 - TrailPct)) \div 100} ELSE {}

\* The stops the rules ask for.
RuleStops(pos, bars) ==
    (IF Reached(pos, LastClose(bars), BreakevenAtR)
     THEN {Cents(pos.entry, 1)} ELSE {})
    \cup (IF Reached(pos, LastClose(bars), TrailAfterR)
          THEN TrailStops(pos.method, bars) ELSE {})

Update(action, stop) == [action |-> action, stop |-> stop]

\* What evaluate_positions says of one open position.
Evaluate(pos, bars) ==
    LET best == Max({Cents(pos.stop, 1)} \cup RuleStops(pos, bars))
    IN  IF LastClose(bars) <= pos.stop
        THEN Update("CLOSE_STOP_HIT", pos.stop)
        ELSE IF TimeExit(bars, pos.opened)
        THEN Update("CLOSE_TIME_EXIT", pos.stop)
        ELSE IF ExitSignalDays # 0 /\ SmaBroken(bars)
        THEN Update("CLOSE_EXIT_SIGNAL", pos.stop)
        ELSE IF best > Cents(pos.stop, 1)
        THEN Update("MOVE_STOP_UP", best)
        ELSE Update("NO_ACTION", Cents(pos.stop, 1))

Closing == {"CLOSE_STOP_HIT", "CLOSE_TIME_EXIT", "CLOSE_EXIT_SIGNAL"}

=============================================================================
