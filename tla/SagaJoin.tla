------------------------------ MODULE SagaJoin ------------------------------
(***************************************************************************)
(* The join point of the saga: the three services confirm in any order,    *)
(* each confirmation is handled by a process of its own, and the one that  *)
(* completes the set aggregates the booking and notifies the client. One   *)
(* action is the code from one await to the next.                          *)
(***************************************************************************)
EXTENDS SagaState

CONSTANTS
    MaxDeliveries,  \* bound: times that one confirmation can be delivered
    Redelivered     \* services whose confirmations can be delivered again

ASSUME DeliveriesAssumption ==
    /\ MaxDeliveries \in Nat
    /\ Redelivered \subseteq Services

VARIABLES
    handler,        \* handler[d]: the process that handles delivery d
    bookings,       \* how many bookingIds generateBookingId has drawn
    notified        \* what TravelBookingNotificationService was told to send

joinVars == <<handler, bookings, notified>>
jvars == <<storeVars, joinVars>>

(* Delivery <<s, r, n>> is the n-th of the message by which s confirms r.  *)
Deliveries == {d \in Services \X Requests \X (1 .. MaxDeliveries) :
                   d[3] = 1 \/ d[1] \in Redelivered}

HandlerPoints == {"waiting", "count", "read", "write", "completed", "dequeue",
                  "cleanup", "notify", "error", "metadata", "failed", "done",
                  "lost"}

(* seen: completedSteps of the document that the save returned; booking:   *)
(* the bookingId this handler generated (0: none).                         *)
HandlerState == [at      : HandlerPoints,
                 seen    : SUBSET (AllConfirmed \cup {"COMPLETED"}),
                 booking : Nat]

Notification == [request : Requests, status : {"CONFIRMED", "failed"}, booking : Nat]

JoinTypeOK ==
    /\ StoreTypeOK
    /\ handler \in [Deliveries -> HandlerState]
    /\ bookings \in Nat
    /\ notified \subseteq Notification

JoinInitVars ==
    /\ handler = [d \in Deliveries |-> [at |-> "waiting", seen |-> {}, booking |-> 0]]
    /\ bookings = 0
    /\ notified = {}

(* execute has stored each saga, queued it and asked all three services.   *)
JoinInit ==
    /\ JoinInitVars
    /\ saga = [r \in Requests |-> NewDocument(r)]
    /\ locks = {}
    /\ activeSagas = {}
    /\ progress = Requests
    /\ pendingQueue = Requests
    /\ metadata = {}
    /\ requested = [r \in Requests |-> [s \in Services |-> 1]]
-----------------------------------------------------------------------------
HandlerAt(d, point) == handler[d].at = point
HandlerGoTo(d, point) == handler' = [handler EXCEPT ![d].at = point]

\* Mutant: the flight service has the lower-case names of the hotel service.
AllStepsLowerCase(s) == {"flight_confirmed", "hotel_confirmed"}

(* ALL_CONFIRMATION_STEPS of each service; the hotel service's names match *)
(* no step that is ever recorded.                                          *)
AllConfirmationSteps(s) ==
    IF s = "hotel" THEN {"flight_confirmed", "hotel_confirmed"} ELSE AllConfirmed

(* The service confirms a reservation it was asked for; the controller     *)
(* publishes the event and acknowledges the message, and the handler saves *)
(* the reservation. Only an unacknowledged message is delivered again.     *)
Save(d) ==
    /\ HandlerAt(d, "waiting")
    /\ requested[d[2]][d[1]] > 0
    /\ d[3] > 1 => handler[<<d[1], d[2], d[3] - 1>>].at # "waiting"
    /\ \/ /\ SaveConfirmedReservation(d[1], d[2])
          /\ handler' = [handler EXCEPT ![d].at = "count",
                                        ![d].seen = StepsAfterSave(d[1], d[2])]
       \/ "mongo" \in Faults /\ HandlerGoTo(d, "failed") /\ UNCHANGED saga
    /\ UNCHANGED <<redisVars, requested, bookings, notified>>

\* Mutant: the join is decided on a second read, not on the saved document.
CountThenReadAgain(d) ==
    /\ HandlerAt(d, "count")
    /\ IncrementStepCounter(d[2])
    /\ HandlerGoTo(d, IF AllConfirmationSteps(d[1]) \subseteq saga[d[2]].steps
                      THEN "read" ELSE "done")
    /\ UNCHANGED <<saga, locks, activeSagas, pendingQueue, metadata, requested,
                   bookings, notified>>

(* Count the step, then go on only if the saved document had all steps.    *)
CountConfirmed(d) ==
    /\ HandlerAt(d, "count")
    /\ IncrementStepCounter(d[2])
    /\ HandlerGoTo(d, IF AllConfirmationSteps(d[1]) \subseteq handler[d].seen
                      THEN "read" ELSE "done")
    /\ UNCHANGED <<saga, locks, activeSagas, pendingQueue, metadata, requested,
                   bookings, notified>>

(* aggregateResults: read the document, refuse it if an id is missing,     *)
(* otherwise generate the bookingId.                                       *)
ReadForAggregation(d) ==
    /\ HandlerAt(d, "read")
    /\ \/ /\ Found(d[2]) /\ saga[d[2]].ids = Services
          /\ bookings' = bookings + 1
          /\ handler' = [handler EXCEPT ![d].at = "write", ![d].booking = bookings']
       \/ /\ ~(Found(d[2]) /\ saga[d[2]].ids = Services) \/ "mongo" \in Faults
          /\ HandlerGoTo(d, "error")
          /\ UNCHANGED bookings
    /\ UNCHANGED <<storeVars, notified>>

\* Mutant: a failing update of the document goes unnoticed.
WriteIgnoringErrors(d) ==
    /\ HandlerAt(d, "write")
    /\ \/ ConfirmSaga(d[2], handler[d].booking)
       \/ "mongo" \in Faults /\ UNCHANGED saga
    /\ HandlerGoTo(d, "completed")
    /\ UNCHANGED <<redisVars, requested, bookings, notified>>

(* aggregateResults: save the bookingId and the status CONFIRMED.          *)
WriteConfirmed(d) ==
    /\ HandlerAt(d, "write")
    /\ \/ ConfirmSaga(d[2], handler[d].booking) /\ HandlerGoTo(d, "completed")
       \/ "mongo" \in Faults /\ HandlerGoTo(d, "error") /\ UNCHANGED saga
    /\ UNCHANGED <<redisVars, requested, bookings, notified>>

CountCompleted(d) ==
    /\ HandlerAt(d, "completed")
    /\ IncrementStepCounter(d[2])
    /\ HandlerGoTo(d, "dequeue")
    /\ UNCHANGED <<saga, locks, activeSagas, pendingQueue, metadata, requested,
                   bookings, notified>>

Dequeue(d) ==
    /\ HandlerAt(d, "dequeue")
    /\ RemoveFromPendingQueue(d[2])
    /\ HandlerGoTo(d, "cleanup")
    /\ UNCHANGED <<saga, locks, activeSagas, progress, metadata, requested,
                   bookings, notified>>

(* aggregateResults: delete the coordination data. If the last DEL fails,  *)
(* the catch block runs although the booking is confirmed already.         *)
CleanUp(d) ==
    /\ HandlerAt(d, "cleanup")
    /\ \E ok \in BOOLEAN : Cleanup(d[2], ok)
                           /\ HandlerGoTo(d, IF ok THEN "notify" ELSE "error")
    /\ UNCHANGED <<saga, requested, bookings, notified>>

(* aggregateResults, catch: fail the saga, keep the error, throw again.    *)
SaveAggregationError(d) ==
    /\ HandlerAt(d, "error")
    /\ \/ SetError(d[2]) /\ HandlerGoTo(d, "metadata")
       \/ "mongo" \in Faults /\ HandlerGoTo(d, "failed") /\ UNCHANGED saga
    /\ UNCHANGED <<redisVars, requested, bookings, notified>>

SaveAggregationMetadata(d) ==
    /\ HandlerAt(d, "metadata")
    /\ SetSagaMetadata(d[2])
    /\ HandlerGoTo(d, "failed")
    /\ UNCHANGED <<saga, locks, activeSagas, progress, pendingQueue, requested,
                   bookings, notified>>

\* Mutant: a failing webhook throws into the catch block of the handler.
NotifyConfirmedThrowing(d) ==
    /\ HandlerAt(d, "notify")
    /\ notified' = notified \cup {[request |-> d[2], status |-> "CONFIRMED",
                                   booking |-> handler[d].booking]}
    /\ HandlerGoTo(d, "done") \/ HandlerGoTo(d, "failed")
    /\ UNCHANGED <<storeVars, bookings>>

(* confirmReservation: tell the client how it ended.                       *)
NotifyConfirmed(d) ==
    /\ HandlerAt(d, "notify")
    /\ notified' = notified \cup {[request |-> d[2], status |-> "CONFIRMED",
                                   booking |-> handler[d].booking]}
    /\ HandlerGoTo(d, "done")
    /\ UNCHANGED <<storeVars, bookings>>

NotifyFailed(d) ==
    /\ HandlerAt(d, "failed")
    /\ notified' = notified \cup {[request |-> d[2], status |-> "failed", booking |-> 0]}
    /\ HandlerGoTo(d, "done")
    /\ UNCHANGED <<storeVars, bookings>>

Handle(d) ==
    \/ CountConfirmed(d) \/ ReadForAggregation(d) \/ WriteConfirmed(d)
    \/ CountCompleted(d) \/ Dequeue(d) \/ CleanUp(d) \/ SaveAggregationError(d)
    \/ SaveAggregationMetadata(d) \/ NotifyConfirmed(d) \/ NotifyFailed(d)

Handling(d) == handler[d].at \notin {"waiting", "done", "lost"}

(* The node of a handler dies; its message was acknowledged long ago.      *)
LoseHandler(d) ==
    /\ "lost" \in Faults
    /\ Handling(d)
    /\ HandlerGoTo(d, "lost")
    /\ UNCHANGED <<storeVars, bookings, notified>>

JoinNext == \E d \in Deliveries : Save(d) \/ Handle(d) \/ LoseHandler(d)

JoinSpec == JoinInit /\ [][JoinNext]_jvars

(* The event loop resumes every handler that has started; nothing obliges  *)
(* a service to confirm.                                                   *)
JoinFairSpec == JoinSpec /\ \A d \in Deliveries : WF_jvars(Handle(d))
-----------------------------------------------------------------------------
(* Properties.                                                             *)

(* A saga is CONFIRMED, and a bookingId exists, only when the reservation  *)
(* ids of all three services are stored (the JOIN POINT).                  *)
BookedOnlyWhenJoined ==
    \A r \in Requests :
        saga[r].bookingId # 0 \/ saga[r].status = "CONFIRMED" =>
            saga[r].ids = Services /\ saga[r].bookingId # 0

(* Of the handlers that confirm one request, only one ever aggregates it:  *)
(* "bookingId: ONE per successful saga".                                   *)
AggregatedOnce ==
    \A d, e \in Deliveries :
        d[2] = e[2] /\ handler[d].booking # 0 /\ handler[e].booking # 0 => d = e

(* A bookingId that a client was told is the one stored for its request.   *)
NotifiedIsStored ==
    \A m \in notified :
        m.status = "CONFIRMED" => saga[m.request].bookingId = m.booking

(* No client is told both that its booking succeeded and that it failed.   *)
NoMixedNews ==
    \A m, o \in notified : m.request = o.request => m.status = o.status

(* If all three reservations are confirmed, whichever is the last, the     *)
(* saga becomes CONFIRMED.                                                 *)
AnyServiceJoins ==
    \A r \in Requests : saga[r].ids = Services ~> saga[r].status = "CONFIRMED"

(* The join point keeps the promise of BookingPromise: a number only for a *)
(* complete set of confirmations, drawn once and never changed.            *)
Promise == INSTANCE BookingPromise WITH
               arrived <- [r \in Requests |-> saga[r].ids],
               booking <- [r \in Requests |-> saga[r].bookingId]

KeepsPromise == Promise!Spec
=============================================================================
