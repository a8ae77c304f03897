-------------------------------- MODULE Trade --------------------------------
(***************************************************************************)
(* One position managed day after day: the stop advisor reads the position *)
(* and the market and advises; the trader accepts the advice, now or days  *)
(* later, or does something else.                                          *)
(*                                                                         *)
(* An advice is a snapshot: nothing ties it to the position or to the bars *)
(* it was computed from by the time it is accepted.                        *)
(***************************************************************************)
EXTENDS StopRules

CONSTANT Methods    \* the trail methods

ASSUME MethodsAssumption == "sma20" \in Methods

VARIABLES
    today, bars,    \* the market data of the ticker
    pos,            \* its position in positions.json
    advice          \* the last suggestion on the trader's screen

market == <<today, bars>>
vars == <<market, pos, advice>>

None == [status |-> "none", entry |-> 0, stop |-> 0, risk |-> 0,
         method |-> "sma20", opened |-> 0]
NoAdvice == [action |-> "NO_ACTION", stop |-> 0, day |-> 0, method |-> "sma20"]

Actions == Closing \cup {"MOVE_STOP_UP", "NO_ACTION"}

TypeOK ==
    /\ today \in 1..MaxBars /\ bars \in Seq(Bar) /\ bars # <<>>
    /\ pos \in [status : {"none", "open", "closed"}, entry : Int, stop : Int,
                risk : Int, method : Methods, opened : Nat]
    /\ advice \in [action : Actions, stop : Int, day : Nat, method : Methods]
    /\ pos.status = "open" => pos.risk > 0

Init ==
    /\ today = 1 /\ bars \in FirstBars
    /\ pos = None
    /\ advice = NoAdvice

\* A day passes on the market.
NextDay ==
    /\ today < MaxBars
    /\ today' = today + 1
    /\ bars' \in Traded(bars, today') \cup {bars}
    /\ UNCHANGED <<pos, advice>>

Change(status, stop, method) ==
    /\ pos' = [status |-> status, entry |-> pos.entry, stop |-> stop,
               risk |-> pos.risk, method |-> method, opened |-> pos.opened]
    /\ UNCHANGED <<market, advice>>

\* A fill is registered, maybe days after it happened.
CreatePosition(entry, stop) ==
    /\ pos.status = "none"
    /\ stop < entry
    /\ \E day \in 1..today :
           pos' = [status |-> "open", entry |-> entry, stop |-> stop,
                   risk |-> entry - stop, method |-> "sma20", opened |-> day]
    /\ UNCHANGED <<market, advice>>

Show(u, day) ==
    /\ advice' = [action |-> u.action, stop |-> u.stop, day |-> day,
                  method |-> pos.method]
    /\ UNCHANGED <<market, pos>>

\* suggest_position_stop: on the bars up to today.
SuggestStop ==
    /\ pos.status = "open"
    /\ Show(Evaluate(pos, bars), today)

\* suggest_stop_intraday: on the bars up to yesterday and a bar at the live
\* price.  It speaks of a bar the market may never have: day 0.
SuggestIntraday(price) ==
    /\ pos.status = "open"
    /\ bars[1].day < today
    /\ LET n == Len(bars)
           past == IF bars[n].day = today THEN [i \in 1..n - 1 |-> bars[i]]
                                            ELSE bars
       IN  \E preview \in {p \in Traded(past, today) : LastClose(p) = price} :
               Show(Evaluate(pos, preview), 0)

\* A faulty form: the stop may be moved down.
UpdatePositionStop_AnyWay(requested, known) ==
    LET stop == Cents(requested, 1)
    IN  /\ pos.status = "open"
        /\ known /\ bars[Len(bars)].day = today => stop <= LastClose(bars)
        /\ Change("open", stop, pos.method)

\* update_position_stop.  The check against the market is skipped when the
\* price cannot be fetched (known is FALSE) or today has none.
UpdatePositionStop(requested, known) ==
    LET stop == Cents(requested, 1)
    IN  /\ pos.status = "open"
        /\ stop > Cents(pos.stop, 1)
        /\ known /\ bars[Len(bars)].day = today => stop <= LastClose(bars)
        /\ Change("open", stop, pos.method)

UpdateTrailMethod(method) ==
    pos.status = "open" /\ Change("open", pos.stop, method)

ClosePosition ==
    pos.status = "open" /\ Change("closed", pos.stop, pos.method)

Next ==
    \/ NextDay
    \/ \E entry, stop \in Prices : CreatePosition(entry, stop)
    \/ SuggestStop
    \/ \E price \in Closes : SuggestIntraday(price)
    \/ \E known \in BOOLEAN :
           /\ advice.action = "MOVE_STOP_UP"
           /\ UpdatePositionStop(advice.stop, known)
    \/ \E requested \in Prices : UpdatePositionStop(requested, TRUE)
    \/ \E method \in Methods : UpdateTrailMethod(method)
    \/ ClosePosition

Spec == Init /\ [][Next]_vars

-----------------------------------------------------------------------------
(* Properties *)

\* The advice on screen was computed from the bars and the method of today.
Fresh == advice.day = today /\ advice.method = pos.method

\* Accepting today's advice settles the day: asked again, the advisor does not
\* want the stop moved further.  What evaluate_positions suggests and what
\* update_position_stop stores are rounded alike.
AdviceSettles ==
    [][ /\ Fresh /\ advice.action = "MOVE_STOP_UP"
        /\ pos.status = "open"
        /\ pos'.stop # pos.stop /\ pos'.stop = Cents(advice.stop, 1)
        => Evaluate(pos', bars).action # "MOVE_STOP_UP" ]_vars

\* A stop advised today can be placed today: it is not above the last close,
\* where update_position_stop and a broker refuse it.  The moving average may
\* stand above the close, so a position trailed by it is not promised this.
AdvicePlaceable ==
    Fresh /\ advice.action = "MOVE_STOP_UP" /\ advice.method # "sma20"
        => advice.stop <= LastClose(bars)

\* The position is a holding.
Live == INSTANCE Holding WITH
    life <- pos.status, entry <- pos.entry, stop <- pos.stop, risk <- pos.risk
LiveSpec == Live!Spec

=============================================================================
