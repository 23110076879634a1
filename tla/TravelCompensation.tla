------------------------- MODULE TravelCompensation -------------------------
(***************************************************************************)
(* TravelBookingSaga.execute_old and compensate: the sequential form of    *)
(* the saga, which reserves flight, hotel and car, takes the payment, and  *)
(* when one of them fails cancels what it holds in reverse order. One      *)
(* action is one awaited call of a service and the code up to the next.    *)
(***************************************************************************)
EXTENDS Naturals, Sequences

CONSTANTS
    Bookings,   \* executions of execute_old
    MayReject   \* kinds of calls that may reject in this instance

ASSUME MayRejectAssumption == MayReject \subseteq {"make", "cancel", "pay"}

VARIABLES
    booking,        \* booking[b]: where the execution is, what its locals hold
    reservations,   \* reservations[s]: the executions with an entry in the map
                    \*   of service s (an execution reserves once at each)
    deadLetters     \* <<b, s>>: CompensationFailedEvents published

tvars == <<booking, reservations, deadLetters>>

ReserveOrder == <<"flight", "hotel", "car">>
Services == {"flight", "hotel", "car"}

(* k: the reservation being made; held: the services whose result is not   *)
(* null; plan: the compensations still to run; reply: the status returned. *)
BookingState == [at    : {"reserve", "pay", "compensate", "done"},
                 k     : 1 .. 3,
                 held  : SUBSET Services,
                 plan  : Seq(Services),
                 reply : {"none", "CONFIRMED", "COMPENSATING"}]

CompTypeOK ==
    /\ booking \in [Bookings -> BookingState]
    /\ reservations \in [Services -> SUBSET Bookings]
    /\ deadLetters \subseteq Bookings \X Services

Init ==
    /\ booking = [b \in Bookings |-> [at |-> "reserve", k |-> 1, held |-> {},
                                      plan |-> <<>>, reply |-> "none"]]
    /\ reservations = [s \in Services |-> {}]
    /\ deadLetters = {}
-----------------------------------------------------------------------------
(* compensations.push, if the reservation was made.                        *)
PushIfHeld(plan, s, held) == IF s \in held THEN Append(plan, s) ELSE plan

\* Mutant: the stack is built in the order of the reservations.
CompensationPlanForward(held) ==
    PushIfHeld(PushIfHeld(PushIfHeld(<<>>, "flight", held), "hotel", held), "car", held)

(* The compensations that compensate pushes: car, hotel, flight.           *)
CompensationPlan(held) ==
    PushIfHeld(PushIfHeld(PushIfHeld(<<>>, "car", held), "hotel", held), "flight", held)

(* Go on with these compensations, or answer when there is none left.      *)
Compensating(b, plan) ==
    booking' = IF plan = <<>>
               THEN [booking EXCEPT ![b].at = "done", ![b].plan = plan,
                                    ![b].reply = "COMPENSATING"]
               ELSE [booking EXCEPT ![b].at = "compensate", ![b].plan = plan]

\* Mutant: the step is advanced after the last reservation too.
ReserveCountingOn(b) ==
    LET s == ReserveOrder[booking[b].k] IN
    /\ booking[b].at = "reserve"
    /\ \/ /\ reservations' = [reservations EXCEPT ![s] = @ \cup {b}]
          /\ booking' = [booking EXCEPT ![b].held = @ \cup {s},
                                        ![b].at = IF s = "car" THEN "pay" ELSE @,
                                        ![b].k = @ + 1]
       \/ /\ "make" \in MayReject
          /\ Compensating(b, CompensationPlan(booking[b].held))
          /\ UNCHANGED reservations
    /\ UNCHANGED deadLetters

\* Mutant: the car is never reserved.
ReserveOnlyTwo(b) ==
    LET s == ReserveOrder[booking[b].k] IN
    /\ booking[b].at = "reserve"
    /\ \/ /\ reservations' = [reservations EXCEPT ![s] = @ \cup {b}]
          /\ booking' = [booking EXCEPT ![b].held = @ \cup {s},
                                        ![b].at = IF s = "hotel" THEN "pay" ELSE @,
                                        ![b].k = @ + 1]
       \/ /\ "make" \in MayReject
          /\ Compensating(b, CompensationPlan(booking[b].held))
          /\ UNCHANGED reservations
    /\ UNCHANGED deadLetters

(* Steps 1 to 3: makeReservation stores the reservation in the service's   *)
(* map, or rejects.                                                        *)
Reserve(b) ==
    LET s == ReserveOrder[booking[b].k] IN
    /\ booking[b].at = "reserve"
    /\ \/ /\ reservations' = [reservations EXCEPT ![s] = @ \cup {b}]
          /\ booking' = [booking EXCEPT ![b].held = @ \cup {s},
                                        ![b].at = IF s = "car" THEN "pay" ELSE @,
                                        ![b].k = IF s = "car" THEN @ ELSE @ + 1]
       \/ /\ "make" \in MayReject
          /\ Compensating(b, CompensationPlan(booking[b].held))
          /\ UNCHANGED reservations
    /\ UNCHANGED deadLetters

(* Step 4: the payment, which the code itself fails one time in twenty.    *)
Pay(b) ==
    /\ booking[b].at = "pay"
    /\ \/ booking' = [booking EXCEPT ![b].at = "done", ![b].reply = "CONFIRMED"]
       \/ "pay" \in MayReject /\ Compensating(b, CompensationPlan(booking[b].held))
    /\ UNCHANGED <<reservations, deadLetters>>

\* Mutant: the first compensation that fails ends the loop.
CancelUntilFailure(b) ==
    LET s == Head(booking[b].plan) IN
    /\ booking[b].at = "compensate"
    /\ \/ /\ b \in reservations[s]
          /\ reservations' = [reservations EXCEPT ![s] = @ \ {b}]
          /\ Compensating(b, Tail(booking[b].plan))
          /\ UNCHANGED deadLetters
       \/ /\ b \notin reservations[s] \/ "cancel" \in MayReject
          /\ deadLetters' = deadLetters \cup {<<b, s>>}
          /\ Compensating(b, <<>>)
          /\ UNCHANGED reservations

\* Mutant: the event is published whether or not the cancellation failed.
CancelAlwaysPublishing(b) ==
    LET s == Head(booking[b].plan) IN
    /\ booking[b].at = "compensate"
    /\ Compensating(b, Tail(booking[b].plan))
    /\ deadLetters' = deadLetters \cup {<<b, s>>}
    /\ reservations' = [reservations EXCEPT ![s] = @ \ {b}]

(* compensate: cancelReservation deletes the reservation from the map. If  *)
(* it rejects, or finds none, an event goes to the dead letter queue, and  *)
(* the next compensation runs all the same.                                *)
Cancel(b) ==
    LET s == Head(booking[b].plan) IN
    /\ booking[b].at = "compensate"
    /\ Compensating(b, Tail(booking[b].plan))
    /\ \/ /\ b \in reservations[s]
          /\ reservations' = [reservations EXCEPT ![s] = @ \ {b}]
          /\ UNCHANGED deadLetters
       \/ /\ b \notin reservations[s] \/ "cancel" \in MayReject
          /\ deadLetters' = deadLetters \cup {<<b, s>>}
          /\ UNCHANGED reservations

Next == \E b \in Bookings : Reserve(b) \/ Pay(b) \/ Cancel(b)

(* Every call of a service is answered: makeReservation and                *)
(* cancelReservation only wait for a timer.                                *)
Spec == Init /\ [][Next]_tvars
             /\ \A b \in Bookings : WF_tvars(Reserve(b) \/ Pay(b) \/ Cancel(b))
-----------------------------------------------------------------------------
(* An execution that gave up holds nothing in silence: each reservation    *)
(* that a service still has for it is in the dead letter queue.            *)
NothingLeftBehind ==
    \A b \in Bookings, s \in Services :
        booking[b].reply = "COMPENSATING" /\ b \in reservations[s]
            => <<b, s>> \in deadLetters

(* Compensation runs backwards: a reservation is cancelled only when every *)
(* later one of its booking is cancelled or given up to the dead letters.  *)
ReverseOrder ==
    [][\A b \in Bookings, i, j \in 1 .. 3 :
          /\ i < j
          /\ b \in reservations[ReserveOrder[i]]
          /\ b \notin reservations'[ReserveOrder[i]]
          => \/ b \notin reservations[ReserveOrder[j]]
             \/ <<b, ReserveOrder[j]>> \in deadLetters]_tvars

(* Every execution ends in one of two ways: CONFIRMED for good with all    *)
(* three reservations, or COMPENSATING.                                    *)
AllOrNothing ==
    \A b \in Bookings :
        <>[](\/ booking[b].reply = "COMPENSATING"
             \/ /\ booking[b].reply = "CONFIRMED"
                /\ \A s \in Services : b \in reservations[s])

(* The executions keep CompensationPromise. In particular a dead letter    *)
(* tells operations of a reservation that is, and stays, held.             *)
Promise == INSTANCE CompensationPromise WITH
               held <- [b \in Bookings |-> {s \in Services : b \in reservations[s]}],
               givenUp <- [b \in Bookings |-> {s \in Services : <<b, s>> \in deadLetters}],
               outcome <- [b \in Bookings |-> IF booking[b].reply = "none" THEN "open"
                                               ELSE booking[b].reply]

KeepsCompensationPromise == Promise!Spec
=============================================================================
