--------------------------- MODULE SagaJoinProofs ---------------------------
(***************************************************************************)
(* Theorems about SagaJoin, for any number of requests and any faults.     *)
(***************************************************************************)
EXTENDS SagaJoin, TLAPS

(* What the parts of a delivery are.                                       *)
LEMMA DeliveryParts ==
    ASSUME NEW d \in Deliveries
    PROVE  d[1] \in Services /\ d[2] \in Requests /\ d[3] \in 1 .. MaxDeliveries
BY DEF Deliveries

(* Services record different steps, each one of the three awaited ones.    *)
LEMMA ConfirmedSteps ==
    /\ \A s \in Services : ConfirmedStep[s] \in AllConfirmed
    /\ \A s, t \in Services : ConfirmedStep[s] = ConfirmedStep[t] => s = t
    /\ \A p \in AllConfirmed : \E s \in Services : ConfirmedStep[s] = p
BY DEF Services, ConfirmedStep, AllConfirmed

LEMMA JoinTypeInit == JoinInit => JoinTypeOK
BY DEF JoinInit, JoinInitVars, JoinTypeOK, StoreTypeOK, SagaDocument, NewDocument,
   Statuses, HandlerState, HandlerPoints

(* What the repository's and the coordinator's operations keep.            *)
LEMMA StoreTypes ==
    ASSUME StoreTypeOK, NEW r \in Requests
    PROVE  /\ \A s \in Services :
                  /\ SaveConfirmedReservation(s, r) => saga' \in [Requests -> SagaDocument]
                  /\ StepsAfterSave(s, r) \subseteq AllConfirmed \cup {"COMPLETED"}
           /\ \A b \in Nat : ConfirmSaga(r, b) => saga' \in [Requests -> SagaDocument]
           /\ SetError(r) => saga' \in [Requests -> SagaDocument]
           /\ IncrementStepCounter(r) => progress' \subseteq Requests
           /\ RemoveFromPendingQueue(r) => pendingQueue' \subseteq Requests
           /\ SetSagaMetadata(r) => metadata' \subseteq Requests
           /\ \A ok \in BOOLEAN : Cleanup(r, ok) =>
                  /\ locks' \subseteq Requests
                  /\ activeSagas' \subseteq Requests
                  /\ progress' \subseteq Requests
                  /\ pendingQueue' \subseteq Requests
                  /\ metadata' \subseteq Requests
<1>1. saga \in [Requests -> SagaDocument] /\ saga[r] \in SagaDocument
  BY DEF StoreTypeOK
<1>2. ASSUME NEW s \in Services
      PROVE  /\ SaveConfirmedReservation(s, r) => saga' \in [Requests -> SagaDocument]
             /\ StepsAfterSave(s, r) \subseteq AllConfirmed \cup {"COMPLETED"}
  <2>1. WithReservation(saga[r], s) \in SagaDocument
    <3>1. saga[r].ids \cup {s} \in SUBSET Services
      BY <1>1 DEF SagaDocument
    <3>2. saga[r].steps \cup {ConfirmedStep[s]} \in SUBSET (AllConfirmed \cup {"COMPLETED"})
      BY <1>1, ConfirmedSteps DEF SagaDocument
    <3> QED
      BY <1>1, <3>1, <3>2 DEF WithReservation, SagaDocument
  <2>2. SaveConfirmedReservation(s, r) => saga' \in [Requests -> SagaDocument]
    BY <1>1, <2>1 DEF SaveConfirmedReservation
  <2>3. WithReservation(saga[r], s).steps \subseteq AllConfirmed \cup {"COMPLETED"}
    BY <2>1 DEF SagaDocument
  <2> QED
    BY <2>2, <2>3 DEF StepsAfterSave
<1>3. ASSUME NEW b \in Nat, ConfirmSaga(r, b)
      PROVE  saga' \in [Requests -> SagaDocument]
  <2>1. [saga[r] EXCEPT !.bookingId = b, !.status = "CONFIRMED",
                        !.steps = AllConfirmed \cup {"COMPLETED"}] \in SagaDocument
    BY <1>1 DEF SagaDocument, Statuses
  <2> QED
    BY <1>1, <1>3, <2>1 DEF ConfirmSaga
<1>4. ASSUME SetError(r) PROVE saga' \in [Requests -> SagaDocument]
  <2>1. [saga[r] EXCEPT !.status = "FAILED"] \in SagaDocument
    BY <1>1 DEF SagaDocument, Statuses
  <2> QED
    BY <1>1, <1>4, <2>1 DEF SetError
<1>5. \A ok \in BOOLEAN : Cleanup(r, ok) =>
          /\ locks' \subseteq Requests
          /\ activeSagas' \subseteq Requests
          /\ progress' \subseteq Requests
          /\ pendingQueue' \subseteq Requests
          /\ metadata' \subseteq Requests
  BY DEF StoreTypeOK, Cleanup, Write, ReleaseSagaLock, ClearActiveSagaState,
     RemoveFromPendingQueue
<1> QED
  BY <1>2, <1>3, <1>4, <1>5 DEF StoreTypeOK, Write, IncrementStepCounter,
     RemoveFromPendingQueue, SetSagaMetadata

LEMMA HandlerTypes ==
    ASSUME handler \in [Deliveries -> HandlerState], NEW d \in Deliveries,
           NEW p \in HandlerPoints, HandlerGoTo(d, p)
    PROVE  handler' \in [Deliveries -> HandlerState]
BY DEF HandlerGoTo, HandlerState

LEMMA JoinTypeStep == JoinTypeOK /\ [JoinNext]_jvars => JoinTypeOK'
<1> SUFFICES ASSUME JoinTypeOK, [JoinNext]_jvars
             PROVE  JoinTypeOK'
  OBVIOUS
<1> USE DEF JoinTypeOK
<1>1. ASSUME NEW d \in Deliveries, Save(d)
      PROVE  JoinTypeOK'
  <2>1. d[1] \in Services /\ d[2] \in Requests
    BY DeliveryParts
  <2>2. CASE SaveConfirmedReservation(d[1], d[2])
             /\ handler' = [handler EXCEPT ![d].at = "count",
                                           ![d].seen = StepsAfterSave(d[1], d[2])]
    <3>1. handler[d] \in HandlerState
          /\ StepsAfterSave(d[1], d[2]) \subseteq AllConfirmed \cup {"COMPLETED"}
      BY <2>1, StoreTypes
    <3>2. handler' \in [Deliveries -> HandlerState]
      BY <2>2, <3>1 DEF HandlerState, HandlerPoints
    <3> QED
      BY <1>1, <2>1, <2>2, <3>2, StoreTypes DEF Save, StoreTypeOK, redisVars
  <2>3. CASE HandlerGoTo(d, "failed") /\ UNCHANGED saga
    BY <1>1, <2>3, HandlerTypes DEF Save, StoreTypeOK, redisVars, HandlerPoints
  <2> QED
    BY <1>1, <2>2, <2>3 DEF Save
<1>2. ASSUME NEW d \in Deliveries, Handle(d)
      PROVE  JoinTypeOK'
  <2>0. d[1] \in Services /\ d[2] \in Requests
    BY DeliveryParts
  <2>1. CASE CountConfirmed(d)
    BY <2>0, <2>1, HandlerTypes, StoreTypes DEF CountConfirmed, StoreTypeOK, HandlerPoints
  <2>2. CASE ReadForAggregation(d)
    <3>1. CASE /\ bookings' = bookings + 1
               /\ handler' = [handler EXCEPT ![d].at = "write", ![d].booking = bookings']
      <4>1. handler[d] \in HandlerState /\ bookings' \in Nat
        BY <3>1
      <4>2. handler' \in [Deliveries -> HandlerState]
        BY <3>1, <4>1 DEF HandlerState, HandlerPoints
      <4> QED
        BY <2>2, <4>1, <4>2 DEF ReadForAggregation, storeVars, StoreTypeOK
    <3>2. CASE HandlerGoTo(d, "error") /\ UNCHANGED bookings
      BY <2>2, <3>2, HandlerTypes DEF ReadForAggregation, storeVars, StoreTypeOK,
         HandlerPoints
    <3> QED
      BY <2>2, <3>1, <3>2 DEF ReadForAggregation
  <2>3. CASE WriteConfirmed(d)
    <3>1. handler[d].booking \in Nat
      BY DEF HandlerState
    <3>2. saga' \in [Requests -> SagaDocument]
      BY <2>0, <2>3, <3>1, StoreTypes DEF WriteConfirmed, StoreTypeOK
    <3> QED
      BY <2>3, <3>2, HandlerTypes DEF WriteConfirmed, redisVars, StoreTypeOK, HandlerPoints
  <2>4. CASE CountCompleted(d)
    BY <2>0, <2>4, HandlerTypes, StoreTypes DEF CountCompleted, StoreTypeOK, HandlerPoints
  <2>5. CASE Dequeue(d)
    BY <2>0, <2>5, HandlerTypes, StoreTypes DEF Dequeue, StoreTypeOK, HandlerPoints
  <2>6. CASE CleanUp(d)
    BY <2>0, <2>6, HandlerTypes, StoreTypes DEF CleanUp, StoreTypeOK, HandlerPoints
  <2>7. CASE SaveAggregationError(d)
    BY <2>0, <2>7, HandlerTypes, StoreTypes DEF SaveAggregationError, redisVars,
       StoreTypeOK, HandlerPoints
  <2>8. CASE SaveAggregationMetadata(d)
    BY <2>0, <2>8, HandlerTypes, StoreTypes DEF SaveAggregationMetadata, StoreTypeOK,
       HandlerPoints
  <2>9. CASE NotifyConfirmed(d)
    <3>1. handler[d].booking \in Nat
      BY DEF HandlerState
    <3> QED
      BY <2>0, <2>9, <3>1, HandlerTypes DEF NotifyConfirmed, storeVars, StoreTypeOK,
         HandlerPoints, Notification
  <2>10. CASE NotifyFailed(d)
    BY <2>0, <2>10, HandlerTypes DEF NotifyFailed, storeVars, StoreTypeOK,
       HandlerPoints, Notification
  <2> QED
    BY <1>2, <2>1, <2>2, <2>3, <2>4, <2>5, <2>6, <2>7, <2>8, <2>9, <2>10 DEF Handle
<1>3. ASSUME NEW d \in Deliveries, LoseHandler(d)
      PROVE  JoinTypeOK'
  BY <1>3, HandlerTypes DEF LoseHandler, storeVars, StoreTypeOK, HandlerPoints
<1>4. CASE UNCHANGED jvars
  BY <1>4 DEF jvars, joinVars, storeVars, StoreTypeOK
<1> QED
  BY <1>1, <1>2, <1>3, <1>4 DEF JoinNext

(* The documents, the handlers and the notifications keep their types,     *)
(* whatever is redelivered and whichever faults occur.                     *)
THEOREM JoinTypesOK == JoinSpec => []JoinTypeOK
BY JoinTypeInit, JoinTypeStep, PTL DEF JoinSpec
-----------------------------------------------------------------------------
(* A booking rests on three confirmations, however often each of them is   *)
(* delivered: the number is drawn by a handler that has read all three     *)
(* ids, and no step takes an id away.                                      *)
Drawn(d) == handler[d].booking # 0

NumberInv ==
    /\ \A d \in Deliveries :
           handler[d].at \in {"write", "completed", "dequeue", "cleanup", "notify"} => Drawn(d)
    /\ \A d \in Deliveries : Drawn(d) => saga[d[2]].ids = Services

(* Nothing is stored under an id without a document.                       *)
BlankInv ==
    \A r \in Requests : ~Found(r) =>
        saga[r].ids = {} /\ saga[r].steps = {} /\ saga[r].bookingId = 0

JoinedInv == JoinTypeOK /\ BlankInv /\ NumberInv /\ BookedOnlyWhenJoined

(* A number is only drawn for a document.                                  *)
LEMMA DrawnIsFound ==
    ASSUME JoinedInv, NEW d \in Deliveries, Drawn(d)
    PROVE  Found(d[2])
<1>1. saga[d[2]].ids = Services /\ d[2] \in Requests
  BY DeliveryParts DEF JoinedInv, NumberInv
<1>2. Services # {}
  BY DEF Services
<1> QED
  BY <1>1, <1>2 DEF JoinedInv, BlankInv

(* A step of d that draws no number and books nothing.                     *)
PlainStep(d) ==
    /\ \A e \in Deliveries : handler'[e].booking = handler[e].booking
    /\ \A e \in Deliveries \ {d} : handler'[e] = handler[e]
    /\ handler'[d].at \in {"write", "completed", "dequeue", "cleanup", "notify"} => Drawn(d)
    /\ \A r \in Requests :
           /\ Found(r)' = Found(r)
           /\ ~Found(r) => saga'[r] = saga[r]
           /\ saga[r].ids \subseteq saga'[r].ids
           /\ saga'[r].bookingId = saga[r].bookingId
           /\ saga'[r].status = "CONFIRMED" => saga[r].status = "CONFIRMED"

LEMMA PlainStepKeepsJoined ==
    ASSUME JoinedInv, JoinTypeOK', NEW d \in Deliveries, PlainStep(d)
    PROVE  JoinedInv'
<1>1. \A r \in Requests : saga'[r].ids \subseteq Services
  BY DEF JoinTypeOK, StoreTypeOK, SagaDocument
<1>2. NumberInv'
  <2>1. \A e \in Deliveries : Drawn(e)' = Drawn(e)
    BY DEF PlainStep, Drawn
  <2>2. \A r \in Requests : saga[r].ids = Services => saga'[r].ids = Services
    BY <1>1 DEF PlainStep
  <2>3. \A e \in Deliveries \ {d} : handler'[e] = handler[e]
    BY DEF PlainStep
  <2>4. \A e \in Deliveries :
            handler'[e].at \in {"write", "completed", "dequeue", "cleanup", "notify"} => Drawn(e)
    BY <2>3 DEF JoinedInv, NumberInv, PlainStep
  <2> QED
    BY <2>1, <2>2, <2>4, DeliveryParts DEF JoinedInv, NumberInv
<1>3. BookedOnlyWhenJoined'
  BY <1>1, ZenonT(60) DEF JoinedInv, BookedOnlyWhenJoined, PlainStep
<1>4. BlankInv'
  BY DEF JoinedInv, BlankInv, PlainStep
<1> QED
  BY <1>2, <1>3, <1>4 DEF JoinedInv

(* Every step but the drawing and the storing of a number is plain.        *)
LEMMA PlainSteps ==
    ASSUME JoinedInv, NEW d \in Deliveries,
           Save(d) \/ CountConfirmed(d) \/ CountCompleted(d) \/ Dequeue(d) \/ CleanUp(d)
           \/ SaveAggregationError(d) \/ SaveAggregationMetadata(d) \/ NotifyConfirmed(d)
           \/ NotifyFailed(d) \/ LoseHandler(d)
    PROVE  PlainStep(d)
<1>0. /\ handler \in [Deliveries -> HandlerState]
      /\ saga \in [Requests -> SagaDocument]
      /\ d[1] \in Services /\ d[2] \in Requests
      /\ handler[d].at \in {"write", "completed", "dequeue", "cleanup", "notify"} => Drawn(d)
  BY DeliveryParts DEF JoinedInv, NumberInv, JoinTypeOK, StoreTypeOK
<1>1. CASE Save(d)
  <2>1. \A r \in Requests :
           /\ ~Found(r) => saga'[r] = saga[r]
           /\ saga[r].ids \subseteq saga'[r].ids
           /\ saga'[r].bookingId = saga[r].bookingId
           /\ saga'[r].status = saga[r].status
    <3>1. CASE UNCHANGED saga
      BY <3>1
    <3>2. CASE Found(d[2]) /\ saga' = [saga EXCEPT ![d[2]] = WithReservation(@, d[1])]
      <4>1. /\ saga'[d[2]] = WithReservation(saga[d[2]], d[1])
            /\ \A r \in Requests \ {d[2]} : saga'[r] = saga[r]
        BY <1>0, <3>2
      <4>2. /\ saga'[d[2]].ids = saga[d[2]].ids \cup {d[1]}
            /\ saga'[d[2]].bookingId = saga[d[2]].bookingId
            /\ saga'[d[2]].status = saga[d[2]].status
        BY <1>0, <4>1 DEF WithReservation, SagaDocument
      <4> QED
        BY <3>2, <4>1, <4>2
    <3> QED
      BY <1>1, <3>1, <3>2 DEF Save, SaveConfirmedReservation
  <2> QED
    BY <1>0, <1>1, <2>1 DEF Save, PlainStep, Found, HandlerGoTo, HandlerState, Drawn
<1>2. CASE CountConfirmed(d)
  BY <1>0, <1>2 DEF CountConfirmed, PlainStep, Found, HandlerGoTo, HandlerState, Drawn
<1>3. CASE CountCompleted(d)
  BY <1>0, <1>3 DEF CountCompleted, HandlerAt, PlainStep, Found, HandlerGoTo, HandlerState, Drawn
<1>4. CASE Dequeue(d)
  BY <1>0, <1>4 DEF Dequeue, HandlerAt, PlainStep, Found, HandlerGoTo, HandlerState, Drawn
<1>5. CASE CleanUp(d)
  BY <1>0, <1>5 DEF CleanUp, HandlerAt, PlainStep, Found, HandlerGoTo, HandlerState, Drawn
<1>6. CASE SaveAggregationError(d)
  <2>1. \A r \in Requests :
           /\ Found(r)' = Found(r)
           /\ ~Found(r) => saga'[r] = saga[r]
           /\ saga[r].ids \subseteq saga'[r].ids
           /\ saga'[r].bookingId = saga[r].bookingId
           /\ saga'[r].status = "CONFIRMED" => saga[r].status = "CONFIRMED"
    BY <1>0, <1>6 DEF SaveAggregationError, SetError, SagaDocument, Found
  <2> QED
    BY <1>0, <1>6, <2>1 DEF SaveAggregationError, PlainStep, HandlerGoTo, HandlerState, Drawn
<1>7. CASE SaveAggregationMetadata(d)
  BY <1>0, <1>7 DEF SaveAggregationMetadata, PlainStep, Found, HandlerGoTo, HandlerState, Drawn
<1>8. CASE NotifyConfirmed(d)
  BY <1>0, <1>8 DEF NotifyConfirmed, storeVars, PlainStep, Found, HandlerGoTo, HandlerState, Drawn
<1>9. CASE NotifyFailed(d)
  BY <1>0, <1>9 DEF NotifyFailed, storeVars, PlainStep, Found, HandlerGoTo, HandlerState, Drawn
<1>10. CASE LoseHandler(d)
  BY <1>0, <1>10 DEF LoseHandler, storeVars, PlainStep, Found, HandlerGoTo, HandlerState, Drawn
<1> QED
  BY <1>1, <1>2, <1>3, <1>4, <1>5, <1>6, <1>7, <1>8, <1>9, <1>10

(* What the two steps that are not plain do: draw a number, store it.      *)
LEMMA DrawStep ==
    ASSUME JoinTypeOK, NEW d \in Deliveries, ReadForAggregation(d)
    PROVE  /\ UNCHANGED <<saga, notified>>
           /\ \/ PlainStep(d) /\ handler'[d].at = "error" /\ UNCHANGED bookings
                 /\ handler'[d].seen = handler[d].seen
              \/ /\ saga[d[2]].ids = Services
                 /\ bookings' = bookings + 1
                 /\ handler' = [handler EXCEPT ![d].at = "write", ![d].booking = bookings']
<1>1. handler \in [Deliveries -> HandlerState]
  BY DEF JoinTypeOK
<1>2. UNCHANGED <<saga, notified>>
  BY DEF ReadForAggregation, storeVars
<1>3. CASE HandlerGoTo(d, "error") /\ UNCHANGED bookings
  BY <1>1, <1>2, <1>3 DEF PlainStep, Found, HandlerGoTo, HandlerState, Drawn
<1> QED
  BY <1>2, <1>3 DEF ReadForAggregation

LEMMA StoreStep ==
    ASSUME JoinedInv, NEW d \in Deliveries, WriteConfirmed(d)
    PROVE  /\ handler[d].at = "write"
           /\ UNCHANGED <<bookings, notified>>
           /\ \/ PlainStep(d) /\ handler'[d].at \in {"error", "completed"} /\ UNCHANGED saga
                 /\ (Found(d[2]) => handler'[d].at = "error")
                 /\ handler'[d].seen = handler[d].seen
              \/ /\ Found(d[2])
                 /\ saga' = [saga EXCEPT ![d[2]].bookingId = handler[d].booking,
                                         ![d[2]].status = "CONFIRMED",
                                         ![d[2]].steps = AllConfirmed \cup {"COMPLETED"}]
                 /\ handler' = [handler EXCEPT ![d].at = "completed"]
<1>1. /\ handler \in [Deliveries -> HandlerState]
      /\ handler[d].at = "write"
      /\ UNCHANGED <<bookings, notified>>
      /\ Drawn(d)
  BY DEF JoinedInv, NumberInv, JoinTypeOK, WriteConfirmed, HandlerAt
<1>2. CASE HandlerGoTo(d, "error") /\ UNCHANGED saga
  BY <1>1, <1>2 DEF PlainStep, Found, HandlerGoTo, HandlerState, Drawn
<1>3. CASE ConfirmSaga(d[2], handler[d].booking) /\ HandlerGoTo(d, "completed")
  BY <1>1, <1>3 DEF ConfirmSaga, PlainStep, Found, HandlerGoTo, HandlerState, Drawn
<1> QED
  BY <1>1, <1>2, <1>3 DEF WriteConfirmed

LEMMA JoinedInit == JoinInit => JoinedInv
BY JoinTypeInit DEF JoinInit, JoinInitVars, JoinedInv, BlankInv, NumberInv,
   BookedOnlyWhenJoined, Drawn, NewDocument, Found

LEMMA JoinedStep == JoinedInv /\ [JoinNext]_jvars => JoinedInv'
<1> SUFFICES ASSUME JoinedInv, [JoinNext]_jvars
             PROVE  JoinedInv'
  OBVIOUS
<1>0. JoinTypeOK /\ JoinTypeOK'
  BY JoinTypeStep DEF JoinedInv
<1>1. ASSUME NEW d \in Deliveries, ReadForAggregation(d)
      PROVE  JoinedInv'
  <2>1. CASE PlainStep(d)
    BY <1>0, <2>1, PlainStepKeepsJoined
  <2>2. CASE /\ saga[d[2]].ids = Services
             /\ bookings' = bookings + 1
             /\ handler' = [handler EXCEPT ![d].at = "write", ![d].booking = bookings']
    <3>1. UNCHANGED saga
      BY <1>0, <1>1, DrawStep
    <3>2. /\ handler \in [Deliveries -> HandlerState]
          /\ bookings \in Nat /\ bookings' # 0
      BY <1>0, <2>2 DEF JoinTypeOK
    <3>3. /\ handler'[d].booking # 0
          /\ \A e \in Deliveries \ {d} : handler'[e] = handler[e]
      BY <2>2, <3>2 DEF HandlerState
    <3>4. NumberInv'
      BY <2>2, <3>1, <3>3 DEF JoinedInv, NumberInv, Drawn
    <3>5. BookedOnlyWhenJoined' /\ BlankInv'
      BY <3>1 DEF JoinedInv, BookedOnlyWhenJoined, BlankInv, Found
    <3> QED
      BY <1>0, <3>4, <3>5 DEF JoinedInv
  <2> QED
    BY <1>0, <1>1, <2>1, <2>2, DrawStep
<1>2. ASSUME NEW d \in Deliveries, WriteConfirmed(d)
      PROVE  JoinedInv'
  <2>1. CASE PlainStep(d)
    BY <1>0, <2>1, PlainStepKeepsJoined
  <2>2. CASE /\ saga' = [saga EXCEPT ![d[2]].bookingId = handler[d].booking,
                                     ![d[2]].status = "CONFIRMED",
                                     ![d[2]].steps = AllConfirmed \cup {"COMPLETED"}]
             /\ handler' = [handler EXCEPT ![d].at = "completed"]
    <3>1. /\ handler \in [Deliveries -> HandlerState]
          /\ saga \in [Requests -> SagaDocument]
          /\ d[2] \in Requests
          /\ Drawn(d)
      BY <1>0, <1>2, StoreStep, DeliveryParts DEF JoinTypeOK, StoreTypeOK, JoinedInv, NumberInv
    <3>2. /\ \A r \in Requests : saga'[r].ids = saga[r].ids
          /\ \A r \in Requests \ {d[2]} : saga'[r] = saga[r]
          /\ saga'[d[2]].bookingId = handler[d].booking
      BY <2>2, <3>1 DEF SagaDocument
    <3>3. /\ \A e \in Deliveries : handler'[e].booking = handler[e].booking
          /\ \A e \in Deliveries \ {d} : handler'[e] = handler[e]
      BY <2>2, <3>1 DEF HandlerState
    <3>4. NumberInv'
      <4>1. \A e \in Deliveries : Drawn(e)' = Drawn(e)
        BY <3>3 DEF Drawn
      <4> QED
        BY <3>1, <3>2, <3>3, <4>1, DeliveryParts DEF JoinedInv, NumberInv
    <3>5. BookedOnlyWhenJoined'
      BY <3>1, <3>2 DEF JoinedInv, NumberInv, Drawn, BookedOnlyWhenJoined
    <3>6. BlankInv'
      <4>1. saga'[d[2]].status = "CONFIRMED"
        BY <2>2, <3>1 DEF SagaDocument
      <4> QED
        BY <3>2, <4>1 DEF JoinedInv, BlankInv, Found
    <3> QED
      BY <1>0, <3>4, <3>5, <3>6 DEF JoinedInv
  <2> QED
    BY <1>2, <2>1, <2>2, StoreStep
<1>3. ASSUME NEW d \in Deliveries, Save(d) \/ Handle(d) \/ LoseHandler(d),
             ~ReadForAggregation(d), ~WriteConfirmed(d)
      PROVE  JoinedInv'
  BY <1>0, <1>3, PlainSteps, PlainStepKeepsJoined DEF Handle
<1>4. CASE UNCHANGED jvars
  BY <1>0, <1>4 DEF jvars, joinVars, storeVars, JoinedInv, BlankInv, NumberInv, Drawn,
     BookedOnlyWhenJoined, Found
<1> QED
  BY <1>1, <1>2, <1>3, <1>4 DEF JoinNext, Handle

(* A saga is CONFIRMED, and has a bookingId, only when all three services  *)
(* have confirmed, however often their messages are delivered.             *)
THEOREM BookedOnlyWhenJoinedHolds == JoinSpec => []BookedOnlyWhenJoined
<1>1. JoinedInv => BookedOnlyWhenJoined
  BY DEF JoinedInv
<1> QED
  BY <1>1, JoinedInit, JoinedStep, PTL DEF JoinSpec
-----------------------------------------------------------------------------
(* If nothing is redelivered, one handler joins: of the handlers of a      *)
(* request only the one that saved last was returned a document with all   *)
(* three steps, because by then all others had saved (and none saves       *)
(* twice). Reading the document again instead of using the returned one    *)
(* would break the fourth conjunct.                                        *)
Saved(d) == handler[d].seen # {}
Full(d) == AllConfirmed \subseteq handler[d].seen

OnceInv ==
    /\ \A d \in Deliveries : handler[d].at = "waiting" => handler[d].seen = {}
    /\ \A r \in Requests, s \in Services :
           ConfirmedStep[s] \in saga[r].steps =>
               \E e \in Deliveries : e[1] = s /\ e[2] = r /\ Saved(e)
    /\ \A d, e \in Deliveries : Full(d) /\ e[2] = d[2] => Saved(e)
    /\ \A d, e \in Deliveries : Full(d) /\ Full(e) /\ e[2] = d[2] => d = e
    /\ \A d \in Deliveries : handler[d].at = "read" \/ Drawn(d) => Full(d)

(* Without redelivery a confirmation has one delivery.                     *)
LEMMA OneDelivery ==
    ASSUME Redelivered = {}
    PROVE  /\ \A d, e \in Deliveries : d[1] = e[1] /\ d[2] = e[2] => d = e
           /\ \A d \in Deliveries, s \in Services :
                  \E e \in Deliveries : e[1] = s /\ e[2] = d[2]
<1>1. \A d \in Deliveries : d = <<d[1], d[2], 1>>
  BY DEF Deliveries
<1>2. ASSUME NEW d \in Deliveries, NEW s \in Services
      PROVE  \E e \in Deliveries : e[1] = s /\ e[2] = d[2]
  <2>1. d[2] \in Requests /\ 1 \in 1 .. MaxDeliveries
    BY <1>1, DeliveryParts
  <2>2. <<s, d[2], 1>> \in Deliveries
    BY <2>1 DEF Deliveries
  <2> QED
    BY <2>2
<1> QED
  BY <1>1, <1>2

(* A step of d that saves no reservation and stores no number.             *)
SeenStep(d) ==
    /\ \A e \in Deliveries : handler'[e].seen = handler[e].seen
    /\ \A e \in Deliveries \ {d} : handler'[e] = handler[e]
    /\ \A r \in Requests : saga'[r].steps = saga[r].steps
    /\ handler'[d].at # "waiting"
    /\ handler'[d].at = "read" \/ handler'[d].booking # 0 => Full(d)

LEMMA SeenStepKeepsOnce ==
    ASSUME OnceInv, NEW d \in Deliveries, SeenStep(d)
    PROVE  OnceInv'
<1>1. \A e \in Deliveries : Saved(e)' = Saved(e) /\ Full(e)' = Full(e)
  BY DEF SeenStep, Saved, Full
<1> QED
  BY <1>1 DEF OnceInv, SeenStep, Drawn

LEMMA SeenSteps ==
    ASSUME JoinTypeOK, OnceInv, NEW d \in Deliveries,
           Handle(d) \/ LoseHandler(d),
           ~WriteConfirmed(d)
    PROVE  SeenStep(d)
<1>0. /\ handler \in [Deliveries -> HandlerState]
      /\ saga \in [Requests -> SagaDocument]
      /\ d[1] \in Services /\ d[2] \in Requests
      /\ handler[d].at = "read" \/ handler[d].booking # 0 => Full(d)
  BY DeliveryParts DEF JoinTypeOK, StoreTypeOK, OnceInv, Drawn
<1>1. CASE CountConfirmed(d)
  <2>1. handler[d].seen \subseteq AllConfirmed \cup {"COMPLETED"}
    BY <1>0 DEF HandlerState
  <2>2. AllConfirmationSteps(d[1]) \subseteq handler[d].seen => Full(d)
    BY <2>1 DEF AllConfirmationSteps, Full, AllConfirmed
  <2> QED
    BY <1>0, <1>1, <2>2 DEF CountConfirmed, SeenStep, HandlerGoTo, HandlerState
<1>2. CASE ReadForAggregation(d)
  <2>1. Full(d)
    BY <1>0, <1>2 DEF ReadForAggregation, HandlerAt
  <2> QED
    BY <1>0, <1>2, <2>1 DEF ReadForAggregation, storeVars, SeenStep, HandlerGoTo,
       HandlerState
<1>3. CASE CountCompleted(d)
  BY <1>0, <1>3 DEF CountCompleted, SeenStep, HandlerGoTo, HandlerState
<1>4. CASE Dequeue(d)
  BY <1>0, <1>4 DEF Dequeue, SeenStep, HandlerGoTo, HandlerState
<1>5. CASE CleanUp(d)
  BY <1>0, <1>5 DEF CleanUp, SeenStep, HandlerGoTo, HandlerState
<1>6. CASE SaveAggregationError(d)
  <2>1. \A r \in Requests : saga'[r].steps = saga[r].steps
    BY <1>0, <1>6 DEF SaveAggregationError, SetError, SagaDocument
  <2> QED
    BY <1>0, <1>6, <2>1 DEF SaveAggregationError, SeenStep, HandlerGoTo, HandlerState
<1>7. CASE SaveAggregationMetadata(d)
  BY <1>0, <1>7 DEF SaveAggregationMetadata, SeenStep, HandlerGoTo, HandlerState
<1>8. CASE NotifyConfirmed(d)
  BY <1>0, <1>8 DEF NotifyConfirmed, storeVars, SeenStep, HandlerGoTo, HandlerState
<1>9. CASE NotifyFailed(d)
  BY <1>0, <1>9 DEF NotifyFailed, storeVars, SeenStep, HandlerGoTo, HandlerState
<1>10. CASE LoseHandler(d)
  BY <1>0, <1>10 DEF LoseHandler, storeVars, SeenStep, HandlerGoTo, HandlerState
<1> QED
  BY <1>1, <1>2, <1>3, <1>4, <1>5, <1>6, <1>7, <1>8, <1>9, <1>10 DEF Handle

LEMMA SaveKeepsOnce ==
    ASSUME Redelivered = {}, JoinedInv, OnceInv, NEW d \in Deliveries, Save(d)
    PROVE  OnceInv'
<1> DEFINE r == d[2]
           own == ConfirmedStep[d[1]]
<1>0. /\ handler \in [Deliveries -> HandlerState]
      /\ saga \in [Requests -> SagaDocument]
      /\ d[1] \in Services /\ r \in Requests
      /\ handler[d].at = "waiting" /\ handler[d].seen = {}
      /\ ~Full(d) /\ ~Drawn(d)
  BY DeliveryParts DEF JoinedInv, JoinTypeOK, StoreTypeOK, Save, HandlerAt, OnceInv, Full,
     AllConfirmed
<1>1. CASE UNCHANGED saga /\ handler'[d].seen = {}
  <2>1. SeenStep(d)
    BY <1>0, <1>1 DEF Save, SeenStep, HandlerGoTo, HandlerState, Drawn
  <2> QED
    BY <2>1, SeenStepKeepsOnce
<1>2. CASE /\ saga' = [saga EXCEPT ![r] = WithReservation(@, d[1])]
           /\ handler' = [handler EXCEPT ![d].at = "count",
                                         ![d].seen = WithReservation(saga[r], d[1]).steps]
  <2>1. WithReservation(saga[r], d[1]).steps = saga[r].steps \cup {own}
    BY <1>0 DEF WithReservation, SagaDocument
  <2>2. /\ saga'[r].steps = saga[r].steps \cup {own}
        /\ \A q \in Requests \ {r} : saga'[q] = saga[q]
    BY <1>0, <1>2, <2>1
  <2>3. /\ handler'[d].at = "count"
        /\ handler'[d].seen = saga[r].steps \cup {own}
        /\ handler'[d].booking = handler[d].booking
        /\ \A e \in Deliveries \ {d} : handler'[e] = handler[e]
    BY <1>0, <1>2, <2>1 DEF HandlerState
  <2>4. /\ Saved(d)' /\ ~Drawn(d)'
        /\ \A e \in Deliveries : Saved(e) => Saved(e)'
        /\ \A e \in Deliveries \ {d} : Full(e)' = Full(e) /\ Drawn(e)' = Drawn(e)
    BY <1>0, <2>3 DEF Saved, Full, Drawn
  <2>5. \A e \in Deliveries : Full(e) => e[2] # r
    BY <1>0 DEF OnceInv, Saved
  <2>6. ASSUME Full(d)', NEW e \in Deliveries, e[2] = r, e # d
        PROVE  Saved(e)
    <3>1. e[1] \in Services /\ e[1] # d[1]
      BY <2>6, DeliveryParts, OneDelivery
    <3>2. ConfirmedStep[e[1]] \in saga[r].steps
      BY <1>0, <2>3, <2>6, <3>1, ConfirmedSteps DEF Full
    <3>3. PICK f \in Deliveries : f[1] = e[1] /\ f[2] = r /\ Saved(f)
      BY <1>0, <3>1, <3>2 DEF OnceInv
    <3> QED
      BY <2>6, <3>3, OneDelivery
  <2>7. \A q \in Requests, s \in Services :
            ConfirmedStep[s] \in saga'[q].steps =>
                \E e \in Deliveries : e[1] = s /\ e[2] = q /\ Saved(e)'
    <3> SUFFICES ASSUME NEW q \in Requests, NEW s \in Services,
                        ConfirmedStep[s] \in saga'[q].steps
                 PROVE  \E e \in Deliveries : e[1] = s /\ e[2] = q /\ Saved(e)'
      OBVIOUS
    <3>1. CASE ConfirmedStep[s] \in saga[q].steps
      BY <2>4, <3>1 DEF OnceInv
    <3>2. CASE ConfirmedStep[s] \notin saga[q].steps
      <4>1. q = r /\ s = d[1]
        BY <1>0, <2>2, <3>2, ConfirmedSteps
      <4> QED
        BY <2>4, <4>1
    <3> QED
      BY <3>1, <3>2
  <2>8. \A e, f \in Deliveries : Full(e)' /\ f[2] = e[2] => Saved(f)'
    BY <2>4, <2>6 DEF OnceInv
  <2>9. \A e, f \in Deliveries : Full(e)' /\ Full(f)' /\ f[2] = e[2] => e = f
    BY <2>4, <2>5 DEF OnceInv
  <2>10. \A e \in Deliveries :
             /\ handler'[e].at = "waiting" => handler'[e].seen = {}
             /\ handler'[e].at = "read" \/ Drawn(e)' => Full(e)'
    BY <2>3, <2>4 DEF OnceInv
  <2> QED
    BY <2>7, <2>8, <2>9, <2>10 DEF OnceInv
<1> QED
  BY <1>0, <1>1, <1>2 DEF Save, HandlerGoTo, HandlerState, SaveConfirmedReservation,
     StepsAfterSave

LEMMA WriteKeepsOnce ==
    ASSUME Redelivered = {}, JoinedInv, OnceInv, NEW d \in Deliveries, WriteConfirmed(d)
    PROVE  OnceInv'
<1>0. /\ handler \in [Deliveries -> HandlerState]
      /\ saga \in [Requests -> SagaDocument]
      /\ d[2] \in Requests
      /\ Drawn(d) /\ Full(d)
  BY DeliveryParts, StoreStep DEF JoinedInv, NumberInv, JoinTypeOK, StoreTypeOK, OnceInv
<1>1. CASE PlainStep(d) /\ handler'[d].at \in {"error", "completed"} /\ UNCHANGED saga
           /\ handler'[d].seen = handler[d].seen
  <2>1. SeenStep(d)
    BY <1>0, <1>1 DEF PlainStep, SeenStep
  <2> QED
    BY <2>1, SeenStepKeepsOnce
<1>2. CASE /\ saga' = [saga EXCEPT ![d[2]].bookingId = handler[d].booking,
                                   ![d[2]].status = "CONFIRMED",
                                   ![d[2]].steps = AllConfirmed \cup {"COMPLETED"}]
           /\ handler' = [handler EXCEPT ![d].at = "completed"]
  <2>1. \A q \in Requests \ {d[2]} : saga'[q] = saga[q]
    BY <1>0, <1>2
  <2>2. /\ \A e \in Deliveries : handler'[e].seen = handler[e].seen
        /\ \A e \in Deliveries : handler'[e].booking = handler[e].booking
        /\ \A e \in Deliveries \ {d} : handler'[e] = handler[e]
        /\ handler'[d].at = "completed"
    BY <1>0, <1>2 DEF HandlerState
  <2>3. \A e \in Deliveries :
            Saved(e)' = Saved(e) /\ Full(e)' = Full(e) /\ Drawn(e)' = Drawn(e)
    BY <2>2 DEF Saved, Full, Drawn
  <2>4. \A s \in Services : \E e \in Deliveries : e[1] = s /\ e[2] = d[2] /\ Saved(e)
    BY <1>0, OneDelivery DEF OnceInv
  <2>5. \A q \in Requests, s \in Services :
            ConfirmedStep[s] \in saga'[q].steps =>
                \E e \in Deliveries : e[1] = s /\ e[2] = q /\ Saved(e)'
    BY <2>1, <2>3, <2>4 DEF OnceInv
  <2>6. \A e \in Deliveries : handler'[e].at = "waiting" => handler'[e].seen = {}
    BY <2>2 DEF OnceInv
  <2>7. \A e \in Deliveries : handler'[e].at = "read" \/ Drawn(e)' => Full(e)'
    BY <1>0, <2>2, <2>3 DEF OnceInv
  <2> QED
    BY <2>3, <2>5, <2>6, <2>7 DEF OnceInv
<1> QED
  BY <1>1, <1>2, StoreStep

LEMMA OnceInit == JoinInit => OnceInv
<1> SUFFICES ASSUME JoinInit PROVE OnceInv
  OBVIOUS
<1>1. /\ \A d \in Deliveries : handler[d] = [at |-> "waiting", seen |-> {}, booking |-> 0]
      /\ \A r \in Requests : saga[r].steps = {}
  BY DEF JoinInit, JoinInitVars, NewDocument
<1> QED
  BY <1>1 DEF OnceInv, Saved, Full, Drawn, AllConfirmed

LEMMA OnceStep ==
    ASSUME Redelivered = {}, JoinedInv, OnceInv, [JoinNext]_jvars
    PROVE  OnceInv'
<1>1. ASSUME NEW d \in Deliveries, Save(d)
      PROVE  OnceInv'
  BY <1>1, SaveKeepsOnce
<1>2. ASSUME NEW d \in Deliveries, WriteConfirmed(d)
      PROVE  OnceInv'
  BY <1>2, WriteKeepsOnce
<1>3. ASSUME NEW d \in Deliveries, Handle(d) \/ LoseHandler(d), ~WriteConfirmed(d)
      PROVE  OnceInv'
  BY <1>3, SeenSteps, SeenStepKeepsOnce DEF JoinedInv
<1>4. CASE UNCHANGED jvars
  BY <1>4 DEF jvars, joinVars, storeVars, OnceInv, Saved, Full, Drawn
<1> QED
  BY <1>1, <1>2, <1>3, <1>4 DEF JoinNext

(* If no confirmation is redelivered, only one handler of a request ever   *)
(* aggregates it, in whatever order the confirmations come and are saved.  *)
THEOREM AggregatedOnceHolds ==
    ASSUME Redelivered = {}
    PROVE  JoinSpec => []AggregatedOnce
<1>1. JoinedInv /\ OnceInv => AggregatedOnce
  BY DEF OnceInv, Drawn, AggregatedOnce
<1>2. JoinedInv /\ OnceInv /\ [JoinNext]_jvars => (JoinedInv /\ OnceInv)'
  BY JoinedStep, OnceStep
<1> QED
  BY <1>1, <1>2, JoinedInit, OnceInit, PTL DEF JoinSpec
-----------------------------------------------------------------------------
(* What was told stays stored, and the join implements BookingPromise: the *)
(* number of a request was drawn by a handler that is past its writing, so *)
(* a handler about to write is the request's first, and numbers are never  *)
(* drawn twice.                                                            *)
Past == {"completed", "dequeue", "cleanup", "notify"}

UniqueInv ==
    /\ \A d \in Deliveries : handler[d].booking <= bookings
    /\ \A d, e \in Deliveries : Drawn(d) /\ handler[e].booking = handler[d].booking => d = e
    /\ \A d \in Deliveries : handler[d].at \in {"waiting", "count", "read"} => ~Drawn(d)

StoredInv ==
    /\ \A r \in Requests : saga[r].bookingId # 0 =>
           \E d \in Deliveries : /\ d[2] = r
                                 /\ handler[d].booking = saga[r].bookingId
                                 /\ handler[d].at # "write"
    /\ \A d \in Deliveries : handler[d].at \in Past =>
           saga[d[2]].bookingId = handler[d].booking
    /\ \A m \in notified : m.status = "CONFIRMED" =>
           m.booking # 0 /\ saga[m.request].bookingId = m.booking

KeptInv == JoinedInv /\ OnceInv /\ UniqueInv /\ StoredInv

(* A step of d that neither draws nor stores a number.                     *)
KeptStep(d) ==
    /\ UNCHANGED bookings
    /\ \A e \in Deliveries : handler'[e].booking = handler[e].booking
    /\ \A e \in Deliveries \ {d} : handler'[e] = handler[e]
    /\ handler'[d].at # "write"
    /\ handler'[d].at \in {"waiting", "count", "read"} => ~Drawn(d)
    /\ handler'[d].at \in Past => handler[d].at \in Past
    /\ \A r \in Requests : saga'[r].bookingId = saga[r].bookingId
    /\ \A m \in notified' :
           \/ m \in notified
           \/ m.status # "CONFIRMED"
           \/ handler[d].at \in Past /\ Drawn(d) /\ m.request = d[2]
              /\ m.booking = handler[d].booking

LEMMA KeptStepKeeps ==
    ASSUME KeptInv, JoinTypeOK', NEW d \in Deliveries, KeptStep(d)
    PROVE  UniqueInv' /\ StoredInv'
<1>1. \A e \in Deliveries : Drawn(e)' = Drawn(e)
  BY DEF KeptStep, Drawn
<1>2. UniqueInv'
  BY <1>1 DEF KeptInv, UniqueInv, KeptStep
<1>3. \A r \in Requests : saga'[r].bookingId # 0 =>
          \E e \in Deliveries : /\ e[2] = r
                                /\ handler'[e].booking = saga'[r].bookingId
                                /\ handler'[e].at # "write"
  BY DEF KeptInv, StoredInv, KeptStep
<1>4. \A e \in Deliveries : handler'[e].at \in Past =>
          saga'[e[2]].bookingId = handler'[e].booking
  BY DeliveryParts DEF KeptInv, StoredInv, KeptStep
<1>5. ASSUME NEW m \in notified', m.status = "CONFIRMED"
      PROVE  m.booking # 0 /\ saga'[m.request].bookingId = m.booking
  <2>1. m.request \in Requests
    BY DEF JoinTypeOK, Notification
  <2>2. m.booking # 0 /\ saga[m.request].bookingId = m.booking
    BY <1>5 DEF KeptInv, StoredInv, KeptStep, Drawn
  <2> QED
    BY <2>1, <2>2 DEF KeptStep
<1> QED
  BY <1>2, <1>3, <1>4, <1>5 DEF StoredInv

LEMMA KeptSteps ==
    ASSUME KeptInv, NEW d \in Deliveries,
           Save(d) \/ CountConfirmed(d) \/ CountCompleted(d) \/ Dequeue(d) \/ CleanUp(d)
           \/ SaveAggregationError(d) \/ SaveAggregationMetadata(d) \/ NotifyConfirmed(d)
           \/ NotifyFailed(d) \/ LoseHandler(d)
    PROVE  KeptStep(d)
<1>0. /\ handler \in [Deliveries -> HandlerState]
      /\ saga \in [Requests -> SagaDocument]
      /\ d[1] \in Services /\ d[2] \in Requests
      /\ handler[d].at \in {"waiting", "count", "read"} => ~Drawn(d)
      /\ handler[d].at \in Past => Drawn(d)
  BY DeliveryParts DEF KeptInv, JoinedInv, NumberInv, JoinTypeOK, StoreTypeOK, UniqueInv,
     Past
<1> USE DEF Past
<1>1. CASE Save(d)
  <2>1. \A r \in Requests : saga'[r].bookingId = saga[r].bookingId
    <3>1. CASE UNCHANGED saga
      BY <3>1
    <3>2. CASE saga' = [saga EXCEPT ![d[2]] = WithReservation(@, d[1])]
      <4>1. /\ saga'[d[2]] = WithReservation(saga[d[2]], d[1])
            /\ \A r \in Requests \ {d[2]} : saga'[r] = saga[r]
        BY <1>0, <3>2
      <4>2. saga'[d[2]].bookingId = saga[d[2]].bookingId
        BY <1>0, <4>1 DEF WithReservation, SagaDocument
      <4> QED
        BY <4>1, <4>2
    <3> QED
      BY <1>1, <3>1, <3>2 DEF Save, SaveConfirmedReservation
  <2> QED
    BY <1>0, <1>1, <2>1 DEF Save, KeptStep, HandlerAt, HandlerGoTo, HandlerState, Drawn
<1>2. CASE CountConfirmed(d)
  BY <1>0, <1>2 DEF CountConfirmed, KeptStep, HandlerAt, HandlerGoTo, HandlerState, Drawn
<1>3. CASE CountCompleted(d)
  BY <1>0, <1>3 DEF CountCompleted, KeptStep, HandlerAt, HandlerGoTo, HandlerState, Drawn
<1>4. CASE Dequeue(d)
  BY <1>0, <1>4 DEF Dequeue, KeptStep, HandlerAt, HandlerGoTo, HandlerState, Drawn
<1>5. CASE CleanUp(d)
  BY <1>0, <1>5 DEF CleanUp, KeptStep, HandlerAt, HandlerGoTo, HandlerState, Drawn
<1>6. CASE SaveAggregationError(d)
  <2>1. \A r \in Requests : saga'[r].bookingId = saga[r].bookingId
    BY <1>0, <1>6 DEF SaveAggregationError, SetError, SagaDocument
  <2> QED
    BY <1>0, <1>6, <2>1 DEF SaveAggregationError, KeptStep, HandlerAt, HandlerGoTo,
       HandlerState, Drawn
<1>7. CASE SaveAggregationMetadata(d)
  BY <1>0, <1>7 DEF SaveAggregationMetadata, KeptStep, HandlerAt, HandlerGoTo,
     HandlerState, Drawn
<1>8. CASE NotifyConfirmed(d)
  BY <1>0, <1>8 DEF NotifyConfirmed, storeVars, KeptStep, HandlerAt, HandlerGoTo,
     HandlerState, Drawn
<1>9. CASE NotifyFailed(d)
  BY <1>0, <1>9 DEF NotifyFailed, storeVars, KeptStep, HandlerAt, HandlerGoTo,
     HandlerState, Drawn
<1>10. CASE LoseHandler(d)
  BY <1>0, <1>10 DEF LoseHandler, storeVars, KeptStep, HandlerGoTo, HandlerState, Drawn
<1> QED
  BY <1>1, <1>2, <1>3, <1>4, <1>5, <1>6, <1>7, <1>8, <1>9, <1>10

(* A drawn number is new.                                                  *)
LEMMA DrawKeeps ==
    ASSUME KeptInv, JoinTypeOK', NEW d \in Deliveries, ReadForAggregation(d)
    PROVE  UniqueInv' /\ StoredInv'
<1>0. /\ handler \in [Deliveries -> HandlerState]
      /\ JoinTypeOK /\ bookings \in Nat
      /\ handler[d].at = "read" /\ ~Drawn(d)
      /\ UNCHANGED <<saga, notified>>
  BY DrawStep DEF KeptInv, JoinedInv, JoinTypeOK, ReadForAggregation, HandlerAt, UniqueInv
<1>1. CASE PlainStep(d) /\ handler'[d].at = "error" /\ UNCHANGED bookings
  <2>1. KeptStep(d)
    BY <1>0, <1>1 DEF PlainStep, KeptStep, Past
  <2> QED
    BY <2>1, KeptStepKeeps
<1>2. CASE /\ bookings' = bookings + 1
           /\ handler' = [handler EXCEPT ![d].at = "write", ![d].booking = bookings']
  <2>1. /\ handler'[d].at = "write" /\ handler'[d].booking = bookings + 1
        /\ \A e \in Deliveries \ {d} : handler'[e] = handler[e]
        /\ \A e \in Deliveries : handler[e].booking \in Nat
    BY <1>0, <1>2 DEF HandlerState
  <2>2. UniqueInv'
    BY <1>0, <1>2, <2>1 DEF KeptInv, UniqueInv, Drawn
  <2>3. StoredInv'
    BY <1>0, <2>1 DEF KeptInv, StoredInv, Drawn, Past
  <2> QED
    BY <2>2, <2>3
<1> QED
  BY <1>0, <1>1, <1>2, DrawStep

(* The handler that stores a number is the only one that has drawn one for *)
(* this request, so the request has none yet and nobody was told of one.   *)
LEMMA FirstToStore ==
    ASSUME KeptInv, NEW d \in Deliveries, handler[d].at = "write"
    PROVE  /\ Drawn(d)
           /\ \A e \in Deliveries : Drawn(e) /\ e[2] = d[2] => e = d
           /\ saga[d[2]].bookingId = 0
           /\ \A r \in Requests : saga[r].bookingId # handler[d].booking
           /\ \A m \in notified : m.status = "CONFIRMED" => m.request # d[2]
<1>1. d[2] \in Requests /\ Drawn(d)
  BY DeliveryParts DEF KeptInv, JoinedInv, NumberInv
<1>2. \A e \in Deliveries : Drawn(e) /\ e[2] = d[2] => e = d
  BY <1>1 DEF KeptInv, OnceInv
<1>3. saga[d[2]].bookingId = 0
  BY <1>1, <1>2 DEF KeptInv, StoredInv, Drawn
<1>4. \A r \in Requests : saga[r].bookingId # handler[d].booking
  BY <1>1 DEF KeptInv, StoredInv, UniqueInv, Drawn
<1> QED
  BY <1>1, <1>2, <1>3, <1>4 DEF KeptInv, StoredInv

LEMMA StoreKeeps ==
    ASSUME KeptInv, JoinTypeOK', NEW d \in Deliveries, WriteConfirmed(d)
    PROVE  UniqueInv' /\ StoredInv'
<1>0. /\ handler \in [Deliveries -> HandlerState]
      /\ saga \in [Requests -> SagaDocument]
      /\ handler[d].at = "write" /\ d[2] \in Requests /\ Found(d[2])
      /\ UNCHANGED <<bookings, notified>>
  BY StoreStep, FirstToStore, DrawnIsFound, DeliveryParts DEF KeptInv, JoinedInv, JoinTypeOK,
     StoreTypeOK
<1>1. CASE PlainStep(d) /\ handler'[d].at = "error" /\ UNCHANGED saga
  <2>1. KeptStep(d)
    BY <1>0, <1>1 DEF PlainStep, KeptStep, Past
  <2> QED
    BY <2>1, KeptStepKeeps
<1>2. CASE /\ saga' = [saga EXCEPT ![d[2]].bookingId = handler[d].booking,
                                   ![d[2]].status = "CONFIRMED",
                                   ![d[2]].steps = AllConfirmed \cup {"COMPLETED"}]
           /\ handler' = [handler EXCEPT ![d].at = "completed"]
  <2>1. /\ \A e \in Deliveries : handler'[e].booking = handler[e].booking
        /\ \A e \in Deliveries \ {d} : handler'[e] = handler[e]
        /\ handler'[d].at = "completed"
    BY <1>0, <1>2 DEF HandlerState
  <2>2. /\ saga'[d[2]].bookingId = handler[d].booking
        /\ saga'[d[2]].status = "CONFIRMED"
        /\ \A r \in Requests \ {d[2]} : saga'[r] = saga[r]
    BY <1>0, <1>2 DEF SagaDocument
  <2>3. UniqueInv'
    <3>1. \A e \in Deliveries : Drawn(e)' = Drawn(e)
      BY <2>1 DEF Drawn
    <3> QED
      BY <1>0, <2>1, <3>1 DEF KeptInv, UniqueInv
  <2>4. \A r \in Requests : saga'[r].bookingId # 0 =>
            \E e \in Deliveries : /\ e[2] = r
                                  /\ handler'[e].booking = saga'[r].bookingId
                                  /\ handler'[e].at # "write"
    <3> SUFFICES ASSUME NEW r \in Requests, saga'[r].bookingId # 0
                 PROVE  \E e \in Deliveries : /\ e[2] = r
                                              /\ handler'[e].booking = saga'[r].bookingId
                                              /\ handler'[e].at # "write"
      OBVIOUS
    <3>1. CASE r = d[2]
      BY <2>1, <2>2, <3>1
    <3>2. CASE r # d[2]
      BY <2>1, <2>2, <3>2 DEF KeptInv, StoredInv
    <3> QED
      BY <3>1, <3>2
  <2>5. \A e \in Deliveries : handler'[e].at \in Past =>
            saga'[e[2]].bookingId = handler'[e].booking
    <3> SUFFICES ASSUME NEW e \in Deliveries, e # d, handler[e].at \in Past
                 PROVE  saga'[e[2]].bookingId = handler[e].booking
      BY <2>1, <2>2
    <3>1. Drawn(e) /\ e[2] \in Requests
      BY DeliveryParts DEF KeptInv, JoinedInv, NumberInv, Past
    <3>2. e[2] # d[2]
      BY <1>0, <3>1, FirstToStore
    <3> QED
      BY <2>2, <3>1, <3>2 DEF KeptInv, StoredInv
  <2>6. ASSUME NEW m \in notified, m.status = "CONFIRMED"
        PROVE  m.booking # 0 /\ saga'[m.request].bookingId = m.booking
    <3>1. m.request \in Requests /\ m.request # d[2]
      BY <1>0, <2>6, FirstToStore DEF KeptInv, JoinedInv, JoinTypeOK, Notification
    <3> QED
      BY <2>2, <2>6, <3>1 DEF KeptInv, StoredInv
  <2> QED
    BY <1>0, <2>3, <2>4, <2>5, <2>6 DEF StoredInv
<1> QED
  BY <1>0, <1>1, <1>2, StoreStep DEF KeptInv

LEMMA KeptInit == JoinInit => KeptInv
<1> SUFFICES ASSUME JoinInit PROVE KeptInv
  OBVIOUS
<1>1. /\ \A d \in Deliveries : handler[d] = [at |-> "waiting", seen |-> {}, booking |-> 0]
      /\ \A r \in Requests : saga[r].bookingId = 0 /\ saga[r].status = "PENDING"
      /\ bookings = 0 /\ notified = {}
  BY DEF JoinInit, JoinInitVars, NewDocument
<1> QED
  BY <1>1, JoinedInit, OnceInit DEF KeptInv, UniqueInv, StoredInv, Drawn, Past

LEMMA KeptStepAll ==
    ASSUME Redelivered = {}, KeptInv, [JoinNext]_jvars
    PROVE  KeptInv'
<1>0. JoinedInv' /\ OnceInv' /\ JoinTypeOK'
  BY JoinedStep, OnceStep DEF KeptInv, JoinedInv
<1>1. ASSUME NEW d \in Deliveries, ReadForAggregation(d)
      PROVE  KeptInv'
  BY <1>0, <1>1, DrawKeeps DEF KeptInv
<1>2. ASSUME NEW d \in Deliveries, WriteConfirmed(d)
      PROVE  KeptInv'
  BY <1>0, <1>2, StoreKeeps DEF KeptInv
<1>3. ASSUME NEW d \in Deliveries, Save(d) \/ Handle(d) \/ LoseHandler(d),
             ~ReadForAggregation(d), ~WriteConfirmed(d)
      PROVE  KeptInv'
  BY <1>0, <1>3, KeptSteps, KeptStepKeeps DEF Handle, KeptInv
<1>4. CASE UNCHANGED jvars
  <2>1. UniqueInv' /\ StoredInv'
    BY <1>4 DEF jvars, joinVars, storeVars, KeptInv, UniqueInv, StoredInv, Drawn, Past
  <2> QED
    BY <1>0, <2>1 DEF KeptInv
<1> QED
  BY <1>1, <1>2, <1>3, <1>4 DEF JoinNext, Handle

(* Without redelivery the bookingId that a client was told is, and stays,  *)
(* the one stored for its request.                                         *)
THEOREM NotifiedIsStoredHolds ==
    ASSUME Redelivered = {}
    PROVE  JoinSpec => []NotifiedIsStored
<1>1. KeptInv => NotifiedIsStored
  BY DEF KeptInv, StoredInv, NotifiedIsStored
<1>2. KeptInv /\ [JoinNext]_jvars => KeptInv'
  BY KeptStepAll
<1> QED
  BY <1>1, <1>2, KeptInit, PTL DEF JoinSpec

LEMMA PromiseInit == JoinInit => Promise!Init
BY DEF JoinInit, JoinInitVars, Promise!Init, NewDocument

(* Saving a reservation is an arrival, storing the number is the booking,  *)
(* and everything else is a stutter.                                       *)
LEMMA PromiseStep ==
    ASSUME KeptInv, [JoinNext]_jvars
    PROVE  [Promise!Next]_<<[r \in Requests |-> saga[r].ids],
                            [r \in Requests |-> saga[r].bookingId]>>
<1> DEFINE arrived == [r \in Requests |-> saga[r].ids]
           booking == [r \in Requests |-> saga[r].bookingId]
<1>0. /\ handler \in [Deliveries -> HandlerState]
      /\ saga \in [Requests -> SagaDocument]
  BY DEF KeptInv, JoinedInv, JoinTypeOK, StoreTypeOK
<1>1. ASSUME NEW d \in Deliveries, Save(d), saga' # saga
      PROVE  Promise!Arrive(d[2], d[1])
  <2>1. d[1] \in Services /\ d[2] \in Requests
    BY DeliveryParts
  <2>2. saga' = [saga EXCEPT ![d[2]] = WithReservation(@, d[1])]
    BY <1>0, <1>1, <2>1 DEF Save, SaveConfirmedReservation
  <2>3. /\ saga'[d[2]] = WithReservation(saga[d[2]], d[1])
        /\ \A r \in Requests \ {d[2]} : saga'[r] = saga[r]
    BY <1>0, <2>1, <2>2
  <2>4. /\ saga'[d[2]].ids = saga[d[2]].ids \cup {d[1]}
        /\ saga'[d[2]].bookingId = saga[d[2]].bookingId
    BY <1>0, <2>1, <2>3 DEF WithReservation, SagaDocument
  <2>5. arrived' = [arrived EXCEPT ![d[2]] = @ \cup {d[1]}]
    BY <2>1, <2>3, <2>4
  <2>6. booking' = booking
    BY <2>1, <2>3, <2>4
  <2> QED
    BY <2>5, <2>6 DEF Promise!Arrive
<1>2. ASSUME NEW d \in Deliveries, WriteConfirmed(d), saga' # saga
      PROVE  Promise!Book(d[2])
  <2>1. d[2] \in Requests
    BY DeliveryParts
  <2>2. /\ handler[d].at = "write"
        /\ saga' = [saga EXCEPT ![d[2]].bookingId = handler[d].booking,
                                ![d[2]].status = "CONFIRMED",
                                ![d[2]].steps = AllConfirmed \cup {"COMPLETED"}]
    BY <1>2, StoreStep DEF KeptInv
  <2>3. /\ saga'[d[2]].ids = saga[d[2]].ids
        /\ saga'[d[2]].bookingId = handler[d].booking
        /\ \A r \in Requests \ {d[2]} : saga'[r] = saga[r]
    BY <1>0, <2>1, <2>2 DEF SagaDocument
  <2>4. arrived' = arrived
    BY <2>1, <2>3
  <2>5. booking' = [booking EXCEPT ![d[2]] = booking'[d[2]]]
    BY <2>1, <2>3
  <2>6. arrived[d[2]] = Services /\ booking[d[2]] = 0
    BY <2>1, <2>2, FirstToStore DEF KeptInv, JoinedInv, NumberInv
  <2>7. booking'[d[2]] \in Nat \ {booking[q] : q \in Requests}
    <3>1. booking'[d[2]] = handler[d].booking /\ handler[d].booking \in Nat
      BY <1>0, <2>1, <2>3 DEF HandlerState
    <3>2. \A q \in Requests : booking[q] # handler[d].booking
      BY <2>2, FirstToStore
    <3> QED
      BY <3>1, <3>2
  <2> QED
    BY <2>4, <2>5, <2>6, <2>7 DEF Promise!Book
<1>3. ASSUME NEW d \in Deliveries, Handle(d) \/ LoseHandler(d), ~WriteConfirmed(d)
      PROVE  UNCHANGED <<arrived, booking>>
  <2>1. CASE UNCHANGED saga
    BY <2>1
  <2>2. CASE saga' # saga
    <3>1. SetError(d[2])
      BY <1>3, <2>2 DEF Handle, LoseHandler, CountConfirmed, ReadForAggregation,
         CountCompleted, Dequeue, CleanUp, SaveAggregationError, SaveAggregationMetadata,
         NotifyConfirmed, NotifyFailed, storeVars
    <3>2. \A r \in Requests :
              saga'[r].ids = saga[r].ids /\ saga'[r].bookingId = saga[r].bookingId
      BY <1>0, <3>1 DEF SetError, SagaDocument
    <3> QED
      BY <3>2
  <2> QED
    BY <2>1, <2>2
<1>4. CASE UNCHANGED saga
  BY <1>4
<1> QED
  BY <1>1, <1>2, <1>3, <1>4, DeliveryParts DEF JoinNext, jvars, storeVars, Promise!Next

(* The join point of any number of requests, with any faults but without   *)
(* redelivery, implements BookingPromise.                                  *)
THEOREM KeepsPromiseHolds ==
    ASSUME Redelivered = {}
    PROVE  JoinSpec => KeepsPromise
<1>1. KeptInv /\ [JoinNext]_jvars => KeptInv'
  BY KeptStepAll
<1>2. KeptInv /\ [JoinNext]_jvars =>
          [Promise!Next]_<<[r \in Requests |-> saga[r].ids],
                           [r \in Requests |-> saga[r].bookingId]>>
  BY PromiseStep
<1> QED
  BY <1>1, <1>2, KeptInit, PromiseInit, PTL DEF JoinSpec, KeepsPromise, Promise!Spec
-----------------------------------------------------------------------------
(* Without redelivery, and while Redis answers, the news of a request      *)
(* agree with its number. A handler that fails has either never saved, and *)
(* then nobody is returned all three steps, or it was the one handler that *)
(* was, and then nobody else stores a number. The status is not part of    *)
(* the argument: a call of execute may fail a saga that has a number.      *)
Failing == {"error", "metadata", "failed"}

(* d is a handler that keeps its request from ever getting a number.       *)
Prevents(d) == Full(d) \/ ~Saved(d)

NewsInv ==
    /\ \A d \in Deliveries : handler[d].at \in Failing =>
           Prevents(d) /\ saga[d[2]].bookingId = 0
    /\ \A d \in Deliveries : handler[d].at \in Past => saga[d[2]].bookingId # 0
    /\ \A m \in notified : m.status = "CONFIRMED" => saga[m.request].bookingId # 0
    /\ \A m \in notified : m.status = "failed" =>
           /\ saga[m.request].bookingId = 0
           /\ \E e \in Deliveries : e[2] = m.request /\ handler[e].at = "done" /\ Prevents(e)

ToldInv == KeptInv /\ NewsInv

(* A step of d that stores no number and takes none away.                  *)
NewsStep(d) ==
    /\ \A e \in Deliveries \ {d} : handler'[e] = handler[e]
    /\ handler[d].at # "done"
    /\ \A r \in Requests : saga'[r].bookingId # 0 <=> saga[r].bookingId # 0
    /\ handler'[d].at \in Failing => Prevents(d)' /\ saga[d[2]].bookingId = 0
    /\ handler'[d].at \in Past => saga[d[2]].bookingId # 0
    /\ \A m \in notified' :
           \/ m \in notified
           \/ m.request = d[2] /\ m.status = "CONFIRMED" /\ saga[d[2]].bookingId # 0
           \/ /\ m.request = d[2] /\ m.status = "failed" /\ saga[d[2]].bookingId = 0
              /\ handler'[d].at = "done" /\ Prevents(d)'

LEMMA NewsStepKeeps ==
    ASSUME ToldInv, JoinTypeOK', NEW d \in Deliveries, NewsStep(d)
    PROVE  NewsInv'
<1>1. \A e \in Deliveries \ {d} : Prevents(e)' = Prevents(e)
  BY DEF NewsStep, Prevents, Full, Saved
<1>2. \A e \in Deliveries : e[2] \in Requests
  BY DeliveryParts
<1>3. \A m \in notified' : m.request \in Requests
  BY DEF JoinTypeOK, Notification
<1>4. \A e \in Deliveries : handler'[e].at \in Failing =>
          Prevents(e)' /\ saga'[e[2]].bookingId = 0
  BY <1>1, <1>2 DEF ToldInv, NewsInv, NewsStep
<1>5. \A e \in Deliveries : handler'[e].at \in Past => saga'[e[2]].bookingId # 0
  BY <1>2 DEF ToldInv, NewsInv, NewsStep
<1>6. \A m \in notified' : m.status = "CONFIRMED" => saga'[m.request].bookingId # 0
  BY <1>2, <1>3 DEF ToldInv, NewsInv, NewsStep
<1>7. ASSUME NEW m \in notified', m.status = "failed"
      PROVE  /\ saga'[m.request].bookingId = 0
             /\ \E e \in Deliveries :
                    e[2] = m.request /\ handler'[e].at = "done" /\ Prevents(e)'
  <2>1. CASE m \in notified
    <3>1. PICK e \in Deliveries :
              e[2] = m.request /\ handler[e].at = "done" /\ Prevents(e)
      BY <1>7, <2>1 DEF ToldInv, NewsInv
    <3>2. e # d
      BY <3>1 DEF NewsStep
    <3>3. handler'[e].at = "done" /\ Prevents(e)'
      BY <1>1, <3>1, <3>2 DEF NewsStep
    <3>4. saga'[m.request].bookingId = 0
      BY <1>3, <1>7, <2>1 DEF ToldInv, NewsInv, NewsStep
    <3> QED
      BY <3>1, <3>3, <3>4
  <2>2. CASE m \notin notified
    BY <1>2, <1>7, <2>2 DEF NewsStep
  <2> QED
    BY <2>1, <2>2
<1> QED
  BY <1>4, <1>5, <1>6, <1>7 DEF NewsInv

(* A number is stored only by the handler that drew it, and that handler   *)
(* was returned all three steps.                                           *)
LEMMA NumberedBySome ==
    ASSUME KeptInv, NEW r \in Requests, saga[r].bookingId # 0
    PROVE  \E e \in Deliveries : e[2] = r /\ Full(e) /\ Drawn(e)
<1>1. PICK e \in Deliveries : e[2] = r /\ handler[e].booking = saga[r].bookingId
  BY DEF KeptInv, StoredInv
<1>2. Drawn(e)
  BY <1>1 DEF Drawn
<1> QED
  BY <1>1, <1>2 DEF KeptInv, OnceInv

(* A handler that has not saved, or that joins and has stored no number,   *)
(* finds its request without one.                                          *)
LEMMA NotYetNumbered ==
    ASSUME KeptInv, NEW d \in Deliveries,
           \/ ~Saved(d)
           \/ Full(d) /\ ~Drawn(d)
           \/ handler[d].at = "write"
    PROVE  saga[d[2]].bookingId = 0
<1> SUFFICES ASSUME saga[d[2]].bookingId # 0
             PROVE  FALSE
  OBVIOUS
<1>1. d[2] \in Requests
  BY DeliveryParts
<1>2. PICK e \in Deliveries : e[2] = d[2] /\ Full(e) /\ Drawn(e)
  BY <1>1, NumberedBySome
<1>3. CASE ~Saved(d)
  BY <1>2, <1>3 DEF KeptInv, OnceInv
<1>4. CASE Full(d) /\ ~Drawn(d)
  BY <1>2, <1>4 DEF KeptInv, OnceInv
<1>5. CASE handler[d].at = "write"
  BY <1>1, <1>5, FirstToStore
<1> QED
  BY <1>3, <1>4, <1>5

LEMMA NewsSteps ==
    ASSUME "redis" \notin Faults, ToldInv, NEW d \in Deliveries,
           Save(d) \/ CountConfirmed(d) \/ CountCompleted(d) \/ Dequeue(d) \/ CleanUp(d)
           \/ SaveAggregationError(d) \/ SaveAggregationMetadata(d) \/ NotifyConfirmed(d)
           \/ NotifyFailed(d) \/ LoseHandler(d) \/ ReadForAggregation(d)
    PROVE  NewsStep(d)
<1>0. /\ handler \in [Deliveries -> HandlerState]
      /\ saga \in [Requests -> SagaDocument]
      /\ d[1] \in Services /\ d[2] \in Requests
      /\ handler[d].at \in Failing => Prevents(d) /\ saga[d[2]].bookingId = 0
      /\ handler[d].at \in Past => saga[d[2]].bookingId # 0
  BY DeliveryParts DEF ToldInv, NewsInv, KeptInv, JoinedInv, JoinTypeOK, StoreTypeOK
<1> USE DEF Failing, Past
<1>1. CASE Save(d)
  <2>1. handler[d].seen = {} /\ saga[d[2]].bookingId = 0
    <3>1. handler[d].seen = {} /\ ~Saved(d)
      BY <1>1 DEF Save, HandlerAt, ToldInv, KeptInv, OnceInv, Saved
    <3> QED
      BY <3>1, NotYetNumbered DEF ToldInv
  <2>2. \A r \in Requests : saga'[r].bookingId = saga[r].bookingId
    <3>1. CASE UNCHANGED saga
      BY <3>1
    <3>2. CASE saga' = [saga EXCEPT ![d[2]] = WithReservation(@, d[1])]
      <4>1. /\ saga'[d[2]] = WithReservation(saga[d[2]], d[1])
            /\ \A r \in Requests \ {d[2]} : saga'[r] = saga[r]
        BY <1>0, <3>2
      <4>2. saga'[d[2]].bookingId = saga[d[2]].bookingId
        BY <1>0, <4>1 DEF WithReservation, SagaDocument
      <4> QED
        BY <4>1, <4>2
    <3> QED
      BY <1>1, <3>1, <3>2 DEF Save, SaveConfirmedReservation
  <2>3. CASE handler' = [handler EXCEPT ![d].at = "count",
                                        ![d].seen = StepsAfterSave(d[1], d[2])]
    <3>1. /\ handler'[d].at = "count"
          /\ \A e \in Deliveries \ {d} : handler'[e] = handler[e]
      BY <1>0, <2>3 DEF HandlerState
    <3> QED
      BY <1>1, <2>2, <3>1 DEF Save, HandlerAt, NewsStep
  <2>4. CASE HandlerGoTo(d, "failed")
    <3>1. /\ handler'[d].at = "failed" /\ Prevents(d)'
          /\ \A e \in Deliveries \ {d} : handler'[e] = handler[e]
      BY <1>0, <2>1, <2>4 DEF HandlerGoTo, HandlerState, Prevents, Saved
    <3> QED
      BY <1>1, <2>1, <2>2, <3>1 DEF Save, HandlerAt, NewsStep
  <2> QED
    BY <1>1, <2>3, <2>4 DEF Save
<1>2. ASSUME NEW p \in HandlerPoints, HandlerGoTo(d, p)
      PROVE  /\ handler'[d].at = p
             /\ Prevents(d)' = Prevents(d)
             /\ \A e \in Deliveries \ {d} : handler'[e] = handler[e]
  BY <1>0, <1>2 DEF HandlerGoTo, HandlerState, Prevents, Full, Saved
<1>3. CASE CountConfirmed(d)
  BY <1>2, <1>3 DEF CountConfirmed, HandlerAt, HandlerPoints, NewsStep
<1>4. CASE CountCompleted(d)
  BY <1>0, <1>2, <1>4 DEF CountCompleted, HandlerAt, HandlerPoints, NewsStep
<1>5. CASE Dequeue(d)
  BY <1>0, <1>2, <1>5 DEF Dequeue, HandlerAt, HandlerPoints, NewsStep
<1>6. CASE CleanUp(d)
  <2>1. HandlerGoTo(d, "notify")
    BY <1>6 DEF CleanUp, Cleanup
  <2> QED
    BY <1>0, <1>2, <1>6, <2>1 DEF CleanUp, HandlerAt, HandlerPoints, NewsStep
<1>7. CASE SaveAggregationError(d)
  <2>1. \A r \in Requests : saga'[r].bookingId # 0 <=> saga[r].bookingId # 0
    BY <1>0, <1>7 DEF SaveAggregationError, HandlerAt, SetError, SagaDocument
  <2> QED
    BY <1>0, <1>2, <1>7, <2>1 DEF SaveAggregationError, HandlerAt, HandlerPoints, NewsStep
<1>8. CASE SaveAggregationMetadata(d)
  BY <1>0, <1>2, <1>8 DEF SaveAggregationMetadata, HandlerAt, HandlerPoints, NewsStep
<1>9. CASE NotifyConfirmed(d)
  BY <1>0, <1>2, <1>9 DEF NotifyConfirmed, HandlerAt, storeVars, HandlerPoints, NewsStep
<1>10. CASE NotifyFailed(d)
  BY <1>0, <1>2, <1>10 DEF NotifyFailed, HandlerAt, storeVars, HandlerPoints, NewsStep
<1>11. CASE LoseHandler(d)
  BY <1>2, <1>11 DEF LoseHandler, Handling, storeVars, HandlerPoints, NewsStep
<1>12. CASE ReadForAggregation(d)
  <2>1. /\ Full(d) /\ ~Drawn(d)
        /\ handler[d].at = "read"
        /\ UNCHANGED <<saga, notified>>
    BY <1>12 DEF ReadForAggregation, HandlerAt, storeVars, ToldInv, KeptInv, OnceInv,
       UniqueInv
  <2>2. saga[d[2]].bookingId = 0 /\ Prevents(d)
    BY <2>1, NotYetNumbered DEF ToldInv, Prevents
  <2>3. CASE HandlerGoTo(d, "error")
    BY <1>2, <2>1, <2>2, <2>3 DEF HandlerPoints, NewsStep
  <2>4. CASE handler' = [handler EXCEPT ![d].at = "write", ![d].booking = bookings']
    <3>1. /\ handler'[d].at = "write"
          /\ \A e \in Deliveries \ {d} : handler'[e] = handler[e]
      BY <1>0, <2>4 DEF HandlerState
    <3> QED
      BY <2>1, <3>1 DEF NewsStep
  <2> QED
    BY <1>12, <2>3, <2>4 DEF ReadForAggregation
<1> QED
  BY <1>1, <1>3, <1>4, <1>5, <1>6, <1>7, <1>8, <1>9, <1>10, <1>11, <1>12

(* The handler that confirms is the one that was returned all three steps, *)
(* so every other handler of the request has saved and none of them fails. *)
LEMMA StoreKeepsNews ==
    ASSUME ToldInv, JoinTypeOK', NEW d \in Deliveries, WriteConfirmed(d)
    PROVE  NewsInv'
<1>0. /\ handler \in [Deliveries -> HandlerState]
      /\ saga \in [Requests -> SagaDocument]
      /\ handler[d].at = "write" /\ d[2] \in Requests /\ Found(d[2])
      /\ UNCHANGED <<bookings, notified>>
      /\ Full(d) /\ handler[d].booking # 0
      /\ saga[d[2]].bookingId = 0
  <2>1. KeptInv /\ JoinedInv
    BY DEF ToldInv, KeptInv
  <2>2. handler[d].at = "write" /\ UNCHANGED <<bookings, notified>>
    BY <2>1, StoreStep
  <2>3. d[2] \in Requests /\ Drawn(d) /\ saga[d[2]].bookingId = 0
    BY <2>1, <2>2, DeliveryParts, FirstToStore, NotYetNumbered
  <2>4. Found(d[2])
    BY <2>1, <2>3, DrawnIsFound
  <2> QED
    BY <2>1, <2>2, <2>3, <2>4 DEF KeptInv, JoinedInv, JoinTypeOK, StoreTypeOK, OnceInv, Drawn
<1>1. CASE PlainStep(d) /\ handler'[d].at = "error" /\ UNCHANGED saga
           /\ handler'[d].seen = handler[d].seen
  <2>1. Prevents(d)'
    BY <1>0, <1>1 DEF Prevents, Full
  <2>2. NewsStep(d)
    BY <1>0, <1>1, <2>1 DEF PlainStep, NewsStep, Failing, Past
  <2> QED
    BY <2>2, NewsStepKeeps
<1>2. CASE /\ saga' = [saga EXCEPT ![d[2]].bookingId = handler[d].booking,
                                   ![d[2]].status = "CONFIRMED",
                                   ![d[2]].steps = AllConfirmed \cup {"COMPLETED"}]
           /\ handler' = [handler EXCEPT ![d].at = "completed"]
  <2>1. /\ saga'[d[2]].bookingId # 0
        /\ \A r \in Requests \ {d[2]} : saga'[r] = saga[r]
    BY <1>0, <1>2 DEF SagaDocument
  <2>2. /\ \A e \in Deliveries : handler'[e].seen = handler[e].seen
        /\ \A e \in Deliveries \ {d} : handler'[e] = handler[e]
        /\ handler'[d].at = "completed"
    BY <1>0, <1>2 DEF HandlerState
  <2>3. \A e \in Deliveries : Prevents(e)' = Prevents(e)
    BY <2>2 DEF Prevents, Full, Saved
  <2>4. \A e \in Deliveries : e[2] = d[2] /\ Prevents(e) => e = d
    BY <1>0 DEF ToldInv, KeptInv, OnceInv, Prevents
  <2>5. ASSUME NEW e \in Deliveries, handler'[e].at \in Failing
        PROVE  Prevents(e)' /\ saga'[e[2]].bookingId = 0
    <3>1. e # d /\ handler[e].at \in Failing
      BY <2>2, <2>5 DEF Failing
    <3>2. Prevents(e) /\ saga[e[2]].bookingId = 0 /\ e[2] # d[2]
      BY <2>4, <3>1 DEF ToldInv, NewsInv
    <3> QED
      BY <2>1, <2>3, <3>2, DeliveryParts
  <2>6. \A e \in Deliveries : handler'[e].at \in Past => saga'[e[2]].bookingId # 0
    BY <2>1, <2>2, DeliveryParts DEF ToldInv, NewsInv
  <2>7. ASSUME NEW m \in notified', m.status = "CONFIRMED"
        PROVE  saga'[m.request].bookingId # 0
    <3>1. m \in notified /\ m.request \in Requests
      BY <1>0, <2>7 DEF JoinTypeOK, Notification
    <3> QED
      BY <2>1, <2>7, <3>1 DEF ToldInv, NewsInv
  <2>8. ASSUME NEW m \in notified', m.status = "failed"
        PROVE  /\ saga'[m.request].bookingId = 0
               /\ \E e \in Deliveries :
                      e[2] = m.request /\ handler'[e].at = "done" /\ Prevents(e)'
    <3>1. m \in notified /\ m.request \in Requests
      BY <1>0, <2>8 DEF JoinTypeOK, Notification
    <3>2. PICK e \in Deliveries :
              e[2] = m.request /\ handler[e].at = "done" /\ Prevents(e)
      BY <2>8, <3>1 DEF ToldInv, NewsInv
    <3>3. e # d /\ e[2] # d[2]
      BY <1>0, <2>4, <3>2
    <3>4. saga'[m.request].bookingId = 0
      BY <2>1, <2>8, <3>1, <3>2, <3>3 DEF ToldInv, NewsInv
    <3> QED
      BY <2>2, <2>3, <3>2, <3>3, <3>4
  <2> QED
    BY <2>5, <2>6, <2>7, <2>8 DEF NewsInv
<1>3. JoinedInv
  BY DEF ToldInv, KeptInv
<1> QED
  BY <1>0, <1>1, <1>2, <1>3, StoreStep

LEMMA ToldInit == JoinInit => ToldInv
BY KeptInit DEF JoinInit, JoinInitVars, ToldInv, NewsInv, Failing, Past

LEMMA ToldStep ==
    ASSUME Redelivered = {}, "redis" \notin Faults, ToldInv, [JoinNext]_jvars
    PROVE  ToldInv'
<1>0. KeptInv' /\ JoinTypeOK'
  BY KeptStepAll DEF ToldInv, KeptInv, JoinedInv
<1>1. ASSUME NEW d \in Deliveries, WriteConfirmed(d)
      PROVE  NewsInv'
  BY <1>0, <1>1, StoreKeepsNews
<1>2. ASSUME NEW d \in Deliveries, Save(d) \/ Handle(d) \/ LoseHandler(d),
             ~WriteConfirmed(d)
      PROVE  NewsInv'
  BY <1>0, <1>2, NewsSteps, NewsStepKeeps DEF Handle
<1>3. CASE UNCHANGED jvars
  <2>1. UNCHANGED <<saga, handler, notified>>
    BY <1>3 DEF jvars, joinVars, storeVars
  <2>2. \A e \in Deliveries : Prevents(e)' = Prevents(e)
    BY <2>1 DEF Prevents, Full, Saved
  <2>3. NewsInv'
    BY <2>1, <2>2 DEF ToldInv, NewsInv, Failing, Past
  <2> QED
    BY <1>0, <2>3 DEF ToldInv
<1> QED
  BY <1>0, <1>1, <1>2, <1>3 DEF JoinNext, Handle, ToldInv

(* Without redelivery and while Redis answers, no client is told both that *)
(* its booking succeeded and that it failed, whichever handlers die and    *)
(* whichever operations of MongoDB fail.                                   *)
THEOREM NoMixedNewsHolds ==
    ASSUME Redelivered = {}, "redis" \notin Faults
    PROVE  JoinSpec => []NoMixedNews
<1>1. ToldInv => NoMixedNews
  BY DEF ToldInv, NewsInv, NoMixedNews, KeptInv, JoinedInv, JoinTypeOK, Notification
<1>2. ToldInv /\ [JoinNext]_jvars => ToldInv'
  BY ToldStep
<1> QED
  BY <1>1, <1>2, ToldInit, PTL DEF JoinSpec
-----------------------------------------------------------------------------
(* What other writers may do to the documents while handlers run: execute  *)
(* inserts a new one, and its catch block fails one. They touch neither    *)
(* its ids, nor its steps, nor its number, so they disturb no invariant of *)
(* the join point.                                                         *)
DocumentStep ==
    \A r \in Requests :
        \/ saga'[r] = saga[r]
        \/ /\ ~Found(r)
           /\ \E o \in Requests : saga'[r] = NewDocument(o)
        \/ /\ Found(r)
           /\ saga'[r] = [saga[r] EXCEPT !.status = "FAILED"]

LEMMA DocumentStepKeeps ==
    ASSUME StoreTypeOK, DocumentStep, BlankInv
    PROVE  \A r \in Requests :
               /\ saga'[r].ids = saga[r].ids
               /\ saga'[r].steps = saga[r].steps
               /\ saga'[r].bookingId = saga[r].bookingId
               /\ saga'[r].status = "CONFIRMED" => saga[r].status = "CONFIRMED"
               /\ Found(r) => Found(r)'
<1> TAKE r \in Requests
<1>0. saga[r] \in SagaDocument
  BY DEF StoreTypeOK
<1>1. CASE saga'[r] = saga[r]
  BY <1>1 DEF Found
<1>2. ASSUME ~Found(r), NEW o \in Requests, saga'[r] = NewDocument(o)
      PROVE  /\ saga'[r].ids = saga[r].ids
             /\ saga'[r].steps = saga[r].steps
             /\ saga'[r].bookingId = saga[r].bookingId
             /\ saga'[r].status = "PENDING"
  BY <1>2 DEF NewDocument, BlankInv
<1>3. CASE Found(r) /\ saga'[r] = [saga[r] EXCEPT !.status = "FAILED"]
  BY <1>0, <1>3 DEF SagaDocument, Found
<1> QED
  BY <1>1, <1>2, <1>3 DEF DocumentStep, Found

LEMMA DocumentKeepsJoined ==
    ASSUME JoinedInv, StoreTypeOK', DocumentStep, UNCHANGED joinVars
    PROVE  JoinedInv'
<1>1. /\ UNCHANGED <<handler, bookings, notified>>
      /\ StoreTypeOK /\ BlankInv
  BY DEF joinVars, JoinedInv, JoinTypeOK
<1>2. JoinTypeOK'
  BY <1>1 DEF JoinedInv, JoinTypeOK
<1>3. BlankInv' /\ BookedOnlyWhenJoined'
  BY <1>1, DocumentStepKeeps DEF JoinedInv, BlankInv, BookedOnlyWhenJoined
<1>4. NumberInv'
  BY <1>1, DocumentStepKeeps, DeliveryParts DEF JoinedInv, NumberInv, Drawn
<1> QED
  BY <1>2, <1>3, <1>4 DEF JoinedInv

LEMMA DocumentKeepsKept ==
    ASSUME KeptInv, StoreTypeOK', DocumentStep, UNCHANGED joinVars
    PROVE  KeptInv'
<1>1. /\ UNCHANGED <<handler, bookings, notified>>
      /\ StoreTypeOK /\ JoinTypeOK /\ BlankInv /\ JoinedInv'
  BY DocumentKeepsJoined DEF joinVars, JoinedInv, JoinTypeOK, KeptInv
<1>2. \A d \in Deliveries : /\ Drawn(d)' = Drawn(d)
                            /\ Saved(d)' = Saved(d)
                            /\ Full(d)' = Full(d)
                            /\ d[2] \in Requests
  BY <1>1, DeliveryParts DEF Drawn, Saved, Full
<1>3. OnceInv'
  BY <1>1, <1>2, DocumentStepKeeps DEF KeptInv, OnceInv
<1>4. UniqueInv'
  BY <1>1, <1>2 DEF KeptInv, UniqueInv
<1>5. StoredInv'
  BY <1>1, <1>2, DocumentStepKeeps DEF KeptInv, StoredInv, Past, JoinTypeOK, Notification
<1> QED
  BY <1>1, <1>3, <1>4, <1>5 DEF KeptInv

LEMMA DocumentKeepsTold ==
    ASSUME ToldInv, StoreTypeOK', DocumentStep, UNCHANGED joinVars
    PROVE  ToldInv'
<1>1. /\ UNCHANGED <<handler, notified>>
      /\ StoreTypeOK /\ BlankInv /\ JoinTypeOK
  BY DEF joinVars, ToldInv, KeptInv, JoinedInv, JoinTypeOK
<1>2. /\ \A r \in Requests : saga'[r].bookingId = saga[r].bookingId
      /\ \A d \in Deliveries : d[2] \in Requests
      /\ \A m \in notified : m.request \in Requests
  BY <1>1, DocumentStepKeeps, DeliveryParts DEF JoinTypeOK, Notification
<1>3. \A d \in Deliveries : Prevents(d)' = Prevents(d)
  BY <1>1 DEF Prevents, Full, Saved
<1>4. NewsInv'
  BY <1>1, <1>2, <1>3 DEF ToldInv, NewsInv, Failing, Past
<1> QED
  BY <1>4, DocumentKeepsKept DEF ToldInv
=============================================================================
