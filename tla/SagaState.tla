----------------------------- MODULE SagaState -----------------------------
(***************************************************************************)
(* The state that the travel booking saga keeps outside of its process:    *)
(* one MongoDB document per request id (TravelBookingSagaStateRepository)  *)
(* and the Redis keys of SagaCoordinator, with one operator per method.    *)
(* A key of Redis is present or absent: no code reads more of it.          *)
(***************************************************************************)
EXTENDS Naturals, FiniteSets

CONSTANTS
    Requests,   \* request ids (idempotency keys) that clients may send
    Faults      \* which of FaultKinds may happen in this instance

FaultKinds == {"redis", "mongo", "broker", "expiry", "crash", "lost"}

ASSUME FaultsAssumption == Faults \subseteq FaultKinds

VARIABLES
    saga,           \* saga[r]: the document whose requestId is r
    locks,          \* ids with a distributed lock key
    activeSagas,    \* ids with a cached in-active state
    progress,       \* ids with a step counter hash
    pendingQueue,   \* members of the pending sorted set
    metadata,       \* ids with a metadata hash
    requested       \* requested[r][s]: times that s was asked to reserve for r

redisVars == <<locks, activeSagas, progress, pendingQueue, metadata>>
storeVars == <<saga, locks, activeSagas, progress, pendingQueue, metadata,
               requested>>
-----------------------------------------------------------------------------
(* The three reservation services and the steps their confirmations record. *)

Services == {"flight", "hotel", "car"}

\* Mutant: the hotel's step is recorded in the spelling the hotel waits for.
ConfirmedStepLowerCase == [flight |-> "FLIGHT_CONFIRMED",
                           hotel  |-> "hotel_confirmed",
                           car    |-> "CAR_CONFIRMED"]

ConfirmedStep == [flight |-> "FLIGHT_CONFIRMED",
                  hotel  |-> "HOTEL_CONFIRMED",
                  car    |-> "CAR_CONFIRMED"]

AllConfirmed == {"FLIGHT_CONFIRMED", "HOTEL_CONFIRMED", "CAR_CONFIRMED"}

Statuses == {"ABSENT", "PENDING", "CONFIRMED", "FAILED"}

(* bookingId 0 is "not generated yet"; ids holds the services whose        *)
(* reservation id field is set; origin is the originalRequest.             *)
SagaDocument == [status    : Statuses,
                 bookingId : Nat,
                 ids       : SUBSET Services,
                 steps     : SUBSET (AllConfirmed \cup {"COMPLETED"}),
                 origin    : Requests]

NoDocument(r) == [status |-> "ABSENT", bookingId |-> 0, ids |-> {},
                  steps |-> {}, origin |-> r]

NewDocument(origin) == [status |-> "PENDING", bookingId |-> 0, ids |-> {},
                        steps |-> {}, origin |-> origin]

StoreTypeOK ==
    /\ saga \in [Requests -> SagaDocument]
    /\ locks \subseteq Requests
    /\ activeSagas \subseteq Requests
    /\ progress \subseteq Requests
    /\ pendingQueue \subseteq Requests
    /\ metadata \subseteq Requests
    /\ requested \in [Requests -> [Services -> Nat]]
-----------------------------------------------------------------------------
(* TravelBookingSagaStateRepository: each method is one MongoDB operation. *)

Found(r) == saga[r].status # "ABSENT"

\* Mutant: no unique index on requestId, a second insert replaces the first.
CreateSagaWithoutIndex(r, origin) ==
    saga' = [saga EXCEPT ![r] = NewDocument(origin)]

\* The unique index on requestId makes a second insert fail.
CreateSaga(r, origin) ==
    /\ ~Found(r)
    /\ saga' = [saga EXCEPT ![r] = NewDocument(origin)]

WithReservation(doc, s) ==
    [doc EXCEPT !.ids = @ \cup {s}, !.steps = @ \cup {ConfirmedStep[s]}]

\* findOneAndUpdate without upsert: nothing happens to an unknown id.
SaveConfirmedReservation(s, r) ==
    saga' = IF Found(r) THEN [saga EXCEPT ![r] = WithReservation(@, s)] ELSE saga

\* The document that findOneAndUpdate returns ({new: true}), or its absence.
StepsAfterSave(s, r) ==
    IF Found(r) THEN WithReservation(saga[r], s).steps ELSE {}

\* Mutant: the update replaces the document.
ConfirmSagaReplacing(r, booking) ==
    saga' = IF Found(r)
            THEN [saga EXCEPT ![r] = [NewDocument(r) EXCEPT
                                          !.bookingId = booking,
                                          !.status = "CONFIRMED",
                                          !.steps = AllConfirmed \cup {"COMPLETED"}]]
            ELSE saga

\* updateState as aggregateResults calls it: completedSteps is overwritten.
ConfirmSaga(r, booking) ==
    saga' = IF Found(r)
            THEN [saga EXCEPT ![r].bookingId = booking,
                              ![r].status = "CONFIRMED",
                              ![r].steps = AllConfirmed \cup {"COMPLETED"}]
            ELSE saga

\* setError fails whatever document has this id, in whatever status it is.
SetError(r) ==
    saga' = IF Found(r) THEN [saga EXCEPT ![r].status = "FAILED"] ELSE saga
-----------------------------------------------------------------------------
(* SagaCoordinator: a method that meets a Redis error logs it and returns, *)
(* so a write happens or, under the fault "redis", is silently left out.   *)

Write(new, old) == {new} \cup (IF "redis" \in Faults THEN {old} ELSE {})

ReleaseSagaLock(r)       == locks' \in Write(locks \ {r}, locks)
SetActiveSagaState(r)    == activeSagas' \in Write(activeSagas \cup {r}, activeSagas)
ClearActiveSagaState(r)  == activeSagas' \in Write(activeSagas \ {r}, activeSagas)
IncrementStepCounter(r)  == progress' \in Write(progress \cup {r}, progress)
AddToPendingQueue(r)     == pendingQueue' \in Write(pendingQueue \cup {r}, pendingQueue)
RemoveFromPendingQueue(r) == pendingQueue' \in Write(pendingQueue \ {r}, pendingQueue)
SetSagaMetadata(r)       == metadata' \in Write(metadata \cup {r}, metadata)

(* Five deletions at once. Four swallow their errors; the raw DEL of the   *)
(* metadata does not, so a failed DEL (ok = FALSE) makes cleanup throw.    *)
Cleanup(r, ok) ==
    /\ ReleaseSagaLock(r)
    /\ ClearActiveSagaState(r)
    /\ progress' \in Write(progress \ {r}, progress)
    /\ RemoveFromPendingQueue(r)
    /\ IF ok THEN metadata' = metadata \ {r}
             ELSE "redis" \in Faults /\ UNCHANGED metadata

(* Redis drops a lock after 300 seconds and a cached state after an hour,  *)
(* whoever still relies on it.                                             *)
ExpireLock(r) ==
    /\ "expiry" \in Faults
    /\ r \in locks
    /\ locks' = locks \ {r}
    /\ UNCHANGED <<saga, activeSagas, progress, pendingQueue, metadata, requested>>

ExpireActive(r) ==
    /\ "expiry" \in Faults
    /\ r \in activeSagas
    /\ activeSagas' = activeSagas \ {r}
    /\ UNCHANGED <<saga, locks, progress, pendingQueue, metadata, requested>>
=============================================================================
