------------------------------- MODULE Holding -------------------------------
(* What every holding of a ticker promises, live or simulated: it is opened  *)
(* with its stop below its entry, the stop only rises, the entry and the     *)
(* risk of one R stay what they were, and once closed nothing moves it.      *)
EXTENDS Integers

VARIABLES life, entry, stop, risk

Init == life = "none" /\ entry = 0 /\ stop = 0 /\ risk = 0

Open ==
    /\ life # "open" /\ life' = "open"
    /\ stop' < entry' /\ risk' = entry' - stop'

RaiseStop ==
    /\ life = "open" /\ stop < stop'
    /\ UNCHANGED <<life, entry, risk>>

Close ==
    /\ life = "open" /\ life' = "closed"
    /\ UNCHANGED <<entry, stop, risk>>

Next == Open \/ RaiseStop \/ Close

Spec == Init /\ [][Next]_<<life, entry, stop, risk>>

=============================================================================
