------------------------ MODULE CompensationPromise ------------------------
(***************************************************************************)
(* What the sequential saga promises of each booking: it ends at most      *)
(* once, either CONFIRMED with a reservation at every service, or          *)
(* COMPENSATING with none but those that were given up and reported; what  *)
(* was given up stays held, and nothing is obtained or returned after the  *)
(* end.                                                                    *)
(***************************************************************************)
CONSTANTS Bookings, Services

VARIABLES
    held,       \* held[b]: services that hold a reservation for b
    givenUp,    \* givenUp[b]: services whose cancellation was given up
    outcome     \* outcome[b]: how b ended, or "open"

Init ==
    /\ held = [b \in Bookings |-> {}]
    /\ givenUp = [b \in Bookings |-> {}]
    /\ outcome = [b \in Bookings |-> "open"]

(* A step of b leaves it open, or ends it in a way that its effect allows. *)
Settle(b) ==
    \/ UNCHANGED outcome
    \/ /\ held'[b] = Services /\ givenUp'[b] = {}
       /\ outcome' = [outcome EXCEPT ![b] = "CONFIRMED"]
    \/ /\ held'[b] = givenUp'[b]
       /\ outcome' = [outcome EXCEPT ![b] = "COMPENSATING"]

Obtain(b, s) ==
    /\ s \notin held[b]
    /\ held' = [held EXCEPT ![b] = @ \cup {s}]
    /\ UNCHANGED <<givenUp, outcome>>

Return(b, s) ==
    /\ s \in held[b] \ givenUp[b]
    /\ held' = [held EXCEPT ![b] = @ \ {s}]
    /\ UNCHANGED givenUp
    /\ Settle(b)

GiveUp(b, s) ==
    /\ s \in held[b] \ givenUp[b]
    /\ givenUp' = [givenUp EXCEPT ![b] = @ \cup {s}]
    /\ UNCHANGED held
    /\ Settle(b)

End(b) == Settle(b) /\ UNCHANGED <<held, givenUp>>

Next ==
    \E b \in Bookings :
        /\ outcome[b] = "open"
        /\ \/ \E s \in Services : Obtain(b, s) \/ Return(b, s) \/ GiveUp(b, s)
           \/ End(b)

Spec == Init /\ [][Next]_<<held, givenUp, outcome>>
=============================================================================
