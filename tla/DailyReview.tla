---------------------------- MODULE DailyReview ----------------------------
(* The daily review (generate_daily_review): a screener run, and when it is   *)
(* over, the open positions with what is to be done about each.  The user     *)
(* goes on ordering, buying, raising stops and selling all the while.         *)
EXTENDS Reentry

VARIABLE review     \* the review, at its next step

reviewVars == <<vars, review>>

NoReview == [at |-> "none"]

ReviewInit == Init /\ review = NoReview

\* The review waits for a run of its own.
StartReview ==
    /\ review = NoReview
    /\ Screen
    /\ review' = [at |-> "screen"]

\* Its candidate goes with the new opportunities or with the add-ons; one to manage
\* goes with neither.
ReviewScreened ==
    /\ review.at = "screen"
    /\ \/ Look /\ UNCHANGED review
       \/ Evaluate /\ review' = [at |-> "list", mode |-> shown'.mode]

\* list_positions(status="open"), after the run.
ListPositions ==
    /\ review.at = "list"
    /\ review' = [at |-> "suggest", mode |-> review.mode,
                  listed |-> [i \in OpenPlaces |-> positions[i].stop],
                  rows |-> <<>>]
    /\ UNCHANGED vars

Row(action, stop) == [action |-> action, stop_suggested |-> stop]

\* What suggest_position_stop makes of the position as it is by now: the rules close it,
\* leave it or raise its stop.  A position that closed since the list, or one of which no
\* bars can be had, is to be held.
Suggested(pos) ==
    {Row("hold", None)} \cup
    IF pos.status = "open"
    THEN {Row("close", None), Row("exit_signal", None)} \cup
         {Row("update", stop) : stop \in {s \in Prices : s > pos.stop}}
    ELSE {}

\* The rows come in the order of the list; each shows the stop of the list.
Suggest ==
    /\ review.at = "suggest"
    /\ LET left == DOMAIN review.listed \ DOMAIN review.rows
           next == Min(left)
       IN  /\ left # {}
           /\ \E row \in Suggested(positions[next]) :
                  review' = [review EXCEPT !.rows =
                                [i \in DOMAIN review.rows \cup {next} |->
                                    IF i = next THEN row ELSE review.rows[i]]]
    /\ UNCHANGED vars

\* The review is shown and saved, over an earlier one of the day.
Save ==
    /\ review.at = "suggest"
    /\ DOMAIN review.rows = DOMAIN review.listed
    /\ review' = [review EXCEPT !.at = "shown"]
    /\ UNCHANGED vars

Leave ==
    /\ review.at = "shown"
    /\ review' = NoReview
    /\ UNCHANGED vars

\* What goes on beside a review (bound: no other run).
Beside ==
    /\ IF review = NoReview THEN Next ELSE User
    /\ UNCHANGED review

ReviewNext ==
    \/ StartReview \/ ReviewScreened \/ ListPositions \/ Suggest \/ Save \/ Leave
    \/ Beside

ReviewSpec == ReviewInit /\ [][ReviewNext]_reviewVars

-----------------------------------------------------------------------------
\* A review is put together from reads of different moments, and still makes sense:
\* where it says to raise a stop, what it suggests is above the stop it shows, though it
\* was worked out from a later one; and a ticker is both a new opportunity and a held
\* position only if it was bought while the review was at work.
ReviewAgrees ==
    review.at = "shown" =>
        /\ \A i \in DOMAIN review.rows :
               review.rows[i].action = "update" =>
                   review.rows[i].stop_suggested > review.listed[i]
        /\ review.mode \in {"NEW_ENTRY", "RE_ENTRY"} /\ DOMAIN review.listed # {}
               => purchase
=============================================================================
