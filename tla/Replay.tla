------------------------------- MODULE Replay -------------------------------
(***************************************************************************)
(* The backtest of one ticker: a trade is opened at the open of the bar    *)
(* after a signal, and the rules that manage live positions are applied    *)
(* bar by bar until one of them closes it or the history ends.             *)
(*                                                                         *)
(* The calendar is that of all the tickers, so some days have no bar of    *)
(* this one.  The history is revealed as the loop reaches it.              *)
(***************************************************************************)
EXTENDS StopRules

VARIABLES
    today, bars,    \* the day the loop is at, and the bars so far
    cur,            \* the simulated position
    trades          \* the trades it has closed

market == <<today, bars>>
vars == <<market, cur, trades>>

NaN == 0

NoTrade == [life |-> "none", entry |-> 0, stop |-> 0, risk |-> 0,
            method |-> "sma20", opened |-> 0]

TypeOK ==
    /\ today \in 1..MaxBars /\ bars \in Seq(Bar) /\ bars # <<>>
    /\ cur \in [life : {"none", "open", "closed"}, entry : Int, stop : Int,
                risk : Int, method : {"sma20"}, opened : Nat]
    /\ trades \in Seq([opened : Nat, closed : 1..MaxBars, price : Int,
                       reason : Closing \cup {"open"}])
    /\ cur.life = "open" => cur.risk > 0

Init ==
    /\ today = 1 /\ bars \in FirstBars
    /\ cur = NoTrade
    /\ trades = <<>>

\* The close of the day.
Price == IF bars[Len(bars)].day = today THEN LastClose(bars) ELSE NaN

NextDay(histories) ==
    /\ today < MaxBars
    /\ today' = today + 1
    /\ bars' \in histories

AnyDay == NextDay(Traded(bars, today + 1) \cup {bars})

\* A faulty form: i = exit_idx.
Looking_AtExit == cur.life # "open"

\* i = exit_idx + 1: the day of an exit is not searched for the next signal.
Looking ==
    /\ cur.life # "open"
    /\ trades # <<>> => today > trades[Len(trades)].closed

\* No setup on the last bar, or no open or no stop to trade it with.
Skip ==
    /\ cur.life # "open"
    /\ AnyDay
    /\ UNCHANGED <<cur, trades>>

\* A setup on the last bar, filled at the open of the next day if it has one.
Enter(fill, stop) ==
    /\ Looking
    /\ bars[Len(bars)].atr > 0
    /\ stop < fill
    /\ NextDay(Traded(bars, today + 1))
    /\ cur' = [life |-> "open", entry |-> fill, stop |-> stop,
               risk |-> fill - stop, method |-> "sma20", opened |-> today + 1]
    /\ UNCHANGED trades

Leave(price, reason) ==
    /\ cur' = [life |-> "closed", entry |-> cur.entry, stop |-> cur.stop,
               risk |-> cur.risk, method |-> "sma20", opened |-> cur.opened]
    /\ trades' = Append(trades, [opened |-> cur.opened, closed |-> today,
                                 price |-> price, reason |-> reason])
    /\ UNCHANGED market

\* The rules close the trade: at the stop, or at the close of the day.
Exit ==
    LET u == Evaluate(cur, bars)
    IN  /\ cur.life = "open"
        /\ u.action \in Closing
        /\ Leave(IF u.action = "CLOSE_STOP_HIT" THEN cur.stop ELSE Price,
                 u.action)

KeepWithStop(stop) ==
    /\ cur' = [life |-> "open", entry |-> cur.entry, stop |-> stop,
               risk |-> cur.risk, method |-> "sma20", opened |-> cur.opened]
    /\ UNCHANGED trades

\* A faulty form: the suggested stop is taken whatever the action.
Hold_AnyStop ==
    LET u == Evaluate(cur, bars)
    IN  /\ cur.life = "open"
        /\ u.action \notin Closing
        /\ AnyDay
        /\ KeepWithStop(u.stop)

\* The rules keep it, with the stop they suggest, and the next day comes.
Hold ==
    LET u == Evaluate(cur, bars)
    IN  /\ cur.life = "open"
        /\ u.action \notin Closing
        /\ AnyDay
        /\ KeepWithStop(IF u.action = "MOVE_STOP_UP" THEN u.stop
                                                     ELSE cur.stop)

\* The history ends first: the trade is cut at the close of the last day.
Censor ==
    /\ cur.life = "open"
    /\ today = MaxBars
    /\ Evaluate(cur, bars).action \notin Closing
    /\ Leave(Price, "open")

Next ==
    \/ Skip
    \/ \E fill, stop \in Prices : Enter(fill, stop)
    \/ Exit
    \/ Hold
    \/ Censor

Spec == Init /\ [][Next]_vars

-----------------------------------------------------------------------------
(* Properties *)

\* "Trades never overlap on the same symbol: a new signal is only considered
\* after the prior trade closes": between an exit and the next entry lies the
\* day of the signal.
NonOverlapping ==
    \A k \in 2..Len(trades) : trades[k].opened > trades[k - 1].closed + 1

\* The rules never close a trade at the close of a day on which its ticker did
\* not trade.  Only the end of the history leaves one without an exit price.
ExitsArePriced ==
    \A k \in 1..Len(trades) :
        trades[k].reason # "open" => trades[k].price # NaN

\* The simulated position is a holding.
Sim == INSTANCE Holding WITH
    life <- cur.life, entry <- cur.entry, stop <- cur.stop, risk <- cur.risk
SimSpec == Sim!Spec

=============================================================================
