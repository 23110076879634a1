--------------------------- MODULE BookingPromise ---------------------------
(***************************************************************************)
(* What the join point of the travel saga promises, without its processes, *)
(* its steps or its Redis keys: confirmations arrive one by one, and when  *)
(* the last one is there the request gets one booking number, which it     *)
(* keeps and shares with no other request.                                 *)
(***************************************************************************)
EXTENDS Naturals

CONSTANTS Requests, Services

VARIABLES
    arrived,    \* arrived[r]: the services that have confirmed r
    booking     \* booking[r]: its booking number, 0 as long as there is none

Init ==
    /\ arrived = [r \in Requests |-> {}]
    /\ booking = [r \in Requests |-> 0]

Arrive(r, s) ==
    /\ arrived' = [arrived EXCEPT ![r] = @ \cup {s}]
    /\ UNCHANGED booking

\* The new number is any that is not in use.
Book(r) ==
    /\ arrived[r] = Services
    /\ booking[r] = 0
    /\ booking'[r] \in Nat \ {booking[q] : q \in Requests}
    /\ booking' = [booking EXCEPT ![r] = booking'[r]]
    /\ UNCHANGED arrived

Next == \E r \in Requests : Book(r) \/ \E s \in Services : Arrive(r, s)

Spec == Init /\ [][Next]_<<arrived, booking>>
=============================================================================
