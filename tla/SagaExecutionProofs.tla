------------------------ MODULE SagaExecutionProofs ------------------------
(***************************************************************************)
(* Theorems about SagaExecution, for any number of calls, nodes, users and *)
(* request ids, and for any of the faults.                                 *)
(***************************************************************************)
EXTENDS SagaExecution, TLAPS

(* EmitOrder names each service once.                                      *)
LEMMA EmitOrderLemma ==
    /\ \A j \in 1 .. 3 : EmitOrder[j] \in Services
    /\ \A i, j \in 1 .. 3 : EmitOrder[i] = EmitOrder[j] => i = j
    /\ \A s \in Services : \E j \in 1 .. 3 : EmitOrder[j] = s
<1>1. /\ EmitOrder[1] = "hotel" /\ EmitOrder[2] = "flight" /\ EmitOrder[3] = "car"
  BY DEF EmitOrder
<1>2. 1 .. 3 = {1, 2, 3}
  OBVIOUS
<1> QED BY <1>1, <1>2 DEF Services

(* Typing needs that a running call always finds a request id in the field *)
(* of its node: the singleton's field is set before the first await.       *)
TypeInv ==
    /\ ExecTypeOK
    /\ \A c \in Calls : Running(c) => Id(c) \in Requests

LEMMA TypeInit == Init => TypeInv
BY CallsAssumption DEF Init, ExecInit, TypeInv, ExecTypeOK, StoreTypeOK,
   SagaDocument, NoDocument, Statuses, CallState, Points, Replies, Running, Id

(* What the repository's and the coordinator's operations keep.            *)
LEMMA ExecStoreTypes ==
    ASSUME StoreTypeOK, NEW r \in Requests
    PROVE  /\ \A o \in Requests : CreateSaga(r, o) => saga' \in [Requests -> SagaDocument]
           /\ SetError(r) => saga' \in [Requests -> SagaDocument]
           /\ ReleaseSagaLock(r) => locks' \subseteq Requests
           /\ SetActiveSagaState(r) => activeSagas' \subseteq Requests
           /\ ClearActiveSagaState(r) => activeSagas' \subseteq Requests
           /\ IncrementStepCounter(r) => progress' \subseteq Requests
           /\ AddToPendingQueue(r) => pendingQueue' \subseteq Requests
           /\ SetSagaMetadata(r) => metadata' \subseteq Requests
<1>1. ASSUME NEW o \in Requests, CreateSaga(r, o)
      PROVE  saga' \in [Requests -> SagaDocument]
  BY <1>1 DEF CreateSaga, StoreTypeOK, SagaDocument, NewDocument, Statuses
<1>2. ASSUME SetError(r) PROVE saga' \in [Requests -> SagaDocument]
  <2>1. saga[r] \in SagaDocument
    BY DEF StoreTypeOK
  <2>2. [saga[r] EXCEPT !.status = "FAILED"] \in SagaDocument
    BY <2>1 DEF SagaDocument, Statuses
  <2> QED
    BY <1>2, <2>2 DEF SetError, StoreTypeOK
<1> QED
  BY <1>1, <1>2 DEF StoreTypeOK, Write, ReleaseSagaLock, SetActiveSagaState,
     ClearActiveSagaState, IncrementStepCounter, AddToPendingQueue, SetSagaMetadata

LEMMA CallTypes ==
    ASSUME call \in [Calls -> CallState], NEW c \in Calls
    PROVE  /\ \A p \in Points : GoTo(c, p) => call' \in [Calls -> CallState]
           /\ \A y \in Replies : Finally(c, y) => call' \in [Calls -> CallState]
BY DEF GoTo, Finally, CallState, Points

LEMMA TypeStep == TypeInv /\ [ExecNext]_vars => TypeInv'
<1> SUFFICES ASSUME TypeInv, [ExecNext]_vars
             PROVE  TypeInv'
  OBVIOUS
<1> USE CallsAssumption DEF TypeInv, ExecTypeOK, rateVars
<1>1. ASSUME NEW c \in Calls, Start(c)
      PROVE  TypeInv'
  <2>1. RequestOf[c] \in Requests /\ (Found(RequestOf[c]) => saga[RequestOf[c]].status \in Replies)
    BY DEF StoreTypeOK, SagaDocument, Found, Statuses, Replies
  <2>2. call' \in [Calls -> CallState]
    BY <1>1, <2>1, CallTypes DEF Start, Points
  <2>3. \A d \in Calls : Running(d)' => Id(d)' \in Requests
    BY <1>1, <2>1 DEF Start, Running, Id, GoTo, Finally, At, CallState, Nodes
  <2> QED
    BY <1>1, <2>1, <2>2, <2>3 DEF Start, storeVars, StoreTypeOK, Nodes
<1>2. ASSUME NEW c \in Calls, CheckActive(c)
      PROVE  TypeInv'
  BY <1>2, CallTypes DEF CheckActive, Running, Id, Points, Replies, GoTo, Finally,
     CallState, storeVars, StoreTypeOK, At
<1>3. ASSUME NEW c \in Calls, AcquireLock(c)
      PROVE  TypeInv'
  <2>1. Id(c) \in Requests
    BY <1>3 DEF AcquireLock, At, Running
  <2>2. call' \in [Calls -> CallState]
    <3>1. CASE call' = [call EXCEPT ![c].at = "rate", ![c].locked = TRUE]
      <4>1. call \in [Calls -> CallState]
        OBVIOUS
      <4>2. [call[c] EXCEPT !.at = "rate", !.locked = TRUE] \in CallState
        BY <4>1 DEF CallState, Points
      <4> QED
        BY <3>1, <4>1, <4>2
    <3>2. CASE Finally(c, "FAILED")
      BY <3>2, CallTypes DEF Replies
    <3> QED
      BY <1>3, <3>1, <3>2 DEF AcquireLock
  <2>3. \A d \in Calls : Running(d)' => Id(d)' \in Requests
    BY <1>3, <2>1 DEF AcquireLock, Running, Id, GoTo, Finally, At, CallState
  <2> QED
    BY <1>3, <2>1, <2>2, <2>3 DEF AcquireLock, StoreTypeOK
<1>4. ASSUME NEW c \in Calls, CheckRate(c)
      PROVE  TypeInv'
  <2>1. Id(c) \in Requests
    BY <1>4 DEF CheckRate, At, Running
  <2>2. call' \in [Calls -> CallState]
    BY <1>4, CallTypes DEF CheckRate, Points
  <2>3. \A d \in Calls : Running(d)' => Id(d)' \in Requests
    BY <1>4, <2>1 DEF CheckRate, Running, Id, GoTo, Finally, At, CallState
  <2>4. rate' \in [Users -> Nat]
    <3>1. rate \in [Users -> Nat]
      OBVIOUS
    <3>2. rate' \in {rate, [rate EXCEPT ![UserOf[c]] = @ + 1]}
      BY <1>4 DEF CheckRate
    <3> QED
      BY <3>1, <3>2
  <2>5. UNCHANGED <<storeVars, field, expiring, made>>
    BY <1>4 DEF CheckRate
  <2> QED
    BY <2>2, <2>3, <2>4, <2>5 DEF StoreTypeOK, storeVars
<1>5. ASSUME NEW c \in Calls, CreateDocument(c)
      PROVE  TypeInv'
  BY <1>5, CallTypes, ExecStoreTypes DEF CreateDocument, Running, Id, Points, GoTo,
     CallState, redisVars, StoreTypeOK, At
<1>6. ASSUME NEW c \in Calls, CacheActive(c)
      PROVE  TypeInv'
  BY <1>6, CallTypes, ExecStoreTypes DEF CacheActive, Running, Id, Points, GoTo,
     CallState, StoreTypeOK, At
<1>7. ASSUME NEW c \in Calls, Enqueue(c)
      PROVE  TypeInv'
  BY <1>7, CallTypes, ExecStoreTypes DEF Enqueue, Running, Id, Points, GoTo,
     CallState, StoreTypeOK, At
<1>8. ASSUME NEW c \in Calls, Emit(c)
      PROVE  TypeInv'
  <2>1. Id(c) \in Requests
    BY <1>8 DEF Emit, At, Running
  <2>2. call' \in [Calls -> CallState]
    BY <1>8, CallTypes DEF Emit, Points
  <2>3. \A d \in Calls : Running(d)' => Id(d)' \in Requests
    BY <1>8, <2>1 DEF Emit, Running, Id, GoTo, Finally, At, CallState
  <2>4. call[c].k \in 1 .. 3
    BY DEF CallState
  <2>5. requested' \in [Requests -> [Services -> Nat]]
    BY <1>8, <2>1, <2>4, EmitOrderLemma DEF Emit, StoreTypeOK
  <2>6. made' \in [Requests -> [Services -> Nat]]
    BY <1>8, <2>1, <2>4, EmitOrderLemma DEF Emit, MakeReservation
  <2> QED
    BY <1>8, <2>2, <2>3, <2>5, <2>6 DEF Emit, redisVars, StoreTypeOK
<1>9. ASSUME NEW c \in Calls, CountStep(c)
      PROVE  TypeInv'
  <2>1. Id(c) \in Requests
    BY <1>9 DEF CountStep, At, Running
  <2>2. call' \in [Calls -> CallState]
    <3>1. CASE call[c].k < 3
      <4>1. call \in [Calls -> CallState]
        OBVIOUS
      <4>2. call[c] \in CallState /\ call[c].k + 1 \in 1 .. 3
        BY <3>1, <4>1 DEF CallState
      <4>3. [call[c] EXCEPT !.at = "emit", !.k = @ + 1] \in CallState
        BY <4>2 DEF CallState, Points
      <4> QED
        BY <1>9, <3>1, <4>1, <4>3 DEF CountStep
    <3>2. CASE ~(call[c].k < 3)
      BY <1>9, <3>2, CallTypes DEF CountStep, Replies
    <3> QED
      BY <3>1, <3>2
  <2>3. \A d \in Calls : Running(d)' => Id(d)' \in Requests
    BY <1>9, <2>1 DEF CountStep, Running, Id, GoTo, Finally, At, CallState
  <2> QED
    BY <1>9, <2>1, <2>2, <2>3, ExecStoreTypes DEF CountStep, StoreTypeOK
<1>10. ASSUME NEW c \in Calls, SaveError(c)
       PROVE  TypeInv'
  BY <1>10, CallTypes, ExecStoreTypes DEF SaveError, Running, Id, Points, Replies, GoTo,
     Finally, CallState, redisVars, StoreTypeOK, At
<1>11. ASSUME NEW c \in Calls, SaveErrorMetadata(c)
       PROVE  TypeInv'
  BY <1>11, CallTypes, ExecStoreTypes DEF SaveErrorMetadata, Running, Id, Points, Replies,
     Finally, CallState, StoreTypeOK, At
<1>12. ASSUME NEW c \in Calls, ReleaseLock(c)
       PROVE  TypeInv'
  BY <1>12, CallTypes, ExecStoreTypes DEF ReleaseLock, Running, Id, Points, GoTo,
     CallState, StoreTypeOK, At
<1>13. ASSUME NEW c \in Calls, ClearActive(c)
       PROVE  TypeInv'
  BY <1>13, CallTypes, ExecStoreTypes DEF ClearActive, Running, Id, Points, GoTo,
     CallState, StoreTypeOK, At
<1>14. ASSUME NEW r \in Requests, ExpireLock(r) \/ ExpireActive(r), UNCHANGED execVars
       PROVE  TypeInv'
  BY <1>14 DEF ExpireLock, ExpireActive, execVars, StoreTypeOK, Running, Id
<1>15. ASSUME NEW n \in Nodes, Crash(n)
       PROVE  TypeInv'
  BY <1>15, ZenonT(60) DEF Crash, Nodes, storeVars, StoreTypeOK, Running, Id, CallState,
     Points
<1>16. ASSUME NEW u \in Users, ResetRate(u)
       PROVE  TypeInv'
  BY <1>16 DEF ResetRate, storeVars, StoreTypeOK, Running, Id
<1>17. ASSUME NEW c \in Calls, OpenWindow(c)
       PROVE  TypeInv'
  BY <1>17, CallTypes DEF OpenWindow, Running, Id, Points, GoTo, CallState, storeVars,
     StoreTypeOK, At, Users
<1>18. CASE UNCHANGED vars
  BY <1>18 DEF vars, storeVars, execVars, StoreTypeOK, Running, Id
<1> QED
  BY <1>1, <1>2, <1>3, <1>4, <1>5, <1>6, <1>7, <1>8, <1>9, <1>10, <1>11, <1>12, <1>13,
     <1>14, <1>15, <1>16, <1>17, <1>18 DEF ExecNext, Step, Environment

(* No document, lock or counter, and no call, is ever anything but what    *)
(* the code stores in it, whichever faults occur.                          *)
THEOREM ExecTypesOK == ExecSpec => []ExecTypeOK
<1>1. TypeInv => ExecTypeOK
  BY DEF TypeInv
<1> QED
  BY <1>1, TypeInit, TypeStep, PTL DEF ExecSpec
-----------------------------------------------------------------------------
(* The invariant behind RequestedOnce and PendingIsPublished. A call owns  *)
(* the saga of its request from its insert to its last publication. Only   *)
(* the insert creates an owner, and it needs the document to be absent, so *)
(* there is one owner at most; only an owner publishes, and it has         *)
(* published just the services before its position. The locks are not part *)
(* of the argument: they may expire or be lost.                            *)
Owner(c) == call[c].at \in {"cache", "queue", "emit", "count"}

Published(c, j) == j < call[c].k \/ (j = call[c].k /\ call[c].at = "count")

FieldInv == \A c \in Calls : Running(c) => Id(c) = RequestOf[c]

PositionInv ==
    \A c \in Calls :
        call[c].at \in {"idle", "active", "lock", "rate", "window", "create", "cache", "queue"}
            => call[c].k = 1

OwnerInv ==
    /\ \A c \in Calls : Owner(c) => Found(RequestOf[c])
    /\ \A c, d \in Calls :
           Owner(c) /\ Owner(d) /\ RequestOf[c] = RequestOf[d] => c = d

PublishedInv ==
    \A c \in Calls : Owner(c) =>
        \A j \in 1 .. 3 :
            LET times == IF Published(c, j) THEN 1 ELSE 0
            IN  /\ requested[RequestOf[c]][EmitOrder[j]] = times
                /\ made[RequestOf[c]][EmitOrder[j]] = times

AbsentInv ==
    \A r \in Requests : ~Found(r) =>
        \A s \in Services : requested[r][s] = 0 /\ made[r][s] = 0

(* A call has no answer before it is through, holds no lock until it asks  *)
(* for one, and goes on past it only with the lock. So an answer PENDING   *)
(* of a call with a lock is that of the call that published.               *)
Unanswered(c) == call[c].at \notin {"release", "clear", "done", "crashed"}

AnswerOf(c) ==
    /\ Unanswered(c) => call[c].reply = "none"
    /\ call[c].at \in {"idle", "active", "lock"} => ~call[c].locked
    /\ call[c].at \in {"rate", "window", "create"} \/ Owner(c) => call[c].locked

AllRequested(r) == \A s \in Services : requested[r][s] > 0

PendingAnswer(c) ==
    call[c].reply = "PENDING" =>
        /\ Found(RequestOf[c])
        /\ call[c].locked => AllRequested(RequestOf[c])

(* Only stored sagas are cached as active, and a saga that is stored was   *)
(* published, unless the call that inserted it was cut short.              *)
PublisherInv ==
    /\ \A r \in activeSagas : Found(r)
    /\ \A r \in Requests : Found(r) =>
           AllRequested(r) \/ \E d \in Calls : RequestOf[d] = r /\ CutShort(d)

AnswerInv ==
    /\ \A c \in Calls : AnswerOf(c) /\ PendingAnswer(c)
    /\ PublisherInv

ExecInv ==
    /\ TypeInv
    /\ FieldInv
    /\ PositionInv
    /\ OwnerInv
    /\ PublishedInv
    /\ AbsentInv
    /\ RequestedOnce
    /\ AnswerInv

LEMMA ExecInvInit == Init => ExecInv
<1> SUFFICES ASSUME Init PROVE ExecInv
  OBVIOUS
<1>1. TypeInv
  BY TypeInit
<1>2. \A c \in Calls : call[c].at = "idle" /\ call[c].k = 1 /\ ~call[c].locked
                       /\ call[c].reply = "none"
  BY DEF Init, ExecInit
<1>3. \A r \in Requests : ~Found(r)
  BY DEF Init, NoDocument, Found
<1>4. AnswerInv
  BY <1>2, <1>3 DEF Init, AnswerInv, AnswerOf, Unanswered, PendingAnswer, PublisherInv,
     Owner
<1> QED
  BY <1>1, <1>2, <1>4, CallsAssumption DEF Init, ExecInit, ExecInv, FieldInv, PositionInv,
     OwnerInv, PublishedInv, AbsentInv, RequestedOnce, Running, Owner

(* A step of c that publishes nothing, inserts nothing and makes no owner: *)
(* it can only move an owner on, repeat the status of a saga that is       *)
(* there, or turn three publications into PENDING.                         *)
Accepts(c) == call[c].at = "count" /\ call[c].k = 3

LocalStep(c) ==
    /\ UNCHANGED <<requested, made>>
    /\ \A r \in Requests : Found(r)' = Found(r)
    /\ \A d \in Calls \ {c} : call'[d] = call[d]
    /\ Owner(c)' => Owner(c) /\ \A j \in 1 .. 3 : Published(c, j)' = Published(c, j)
    /\ call'[c].at \in {"idle", "active", "lock", "rate", "window", "create", "cache", "queue"}
           => call'[c].k = 1
    /\ AnswerOf(c)'
    /\ call'[c].reply = "PENDING" =>
           \/ call[c].reply = "PENDING" /\ call'[c].locked = call[c].locked
           \/ Found(RequestOf[c]) /\ ~call'[c].locked
           \/ Accepts(c)
    /\ CutShort(c) => CutShort(c)' \/ Accepts(c)
    /\ \A r \in activeSagas' : r \in activeSagas \/ Found(r)

LEMMA LocalStepKeepsInv ==
    ASSUME ExecInv, TypeInv', FieldInv', NEW c \in Calls, LocalStep(c)
    PROVE  ExecInv'
<1> USE CallsAssumption
<1>1. PositionInv'
  BY DEF ExecInv, LocalStep, PositionInv
<1>2. \A d \in Calls : Owner(d)' => Owner(d)
  BY DEF LocalStep, Owner
<1>3. OwnerInv'
  BY <1>2 DEF ExecInv, OwnerInv, LocalStep
<1>4. PublishedInv'
  <2> SUFFICES ASSUME NEW d \in Calls, Owner(d)', NEW j \in 1 .. 3
               PROVE  (LET times == IF Published(d, j) THEN 1 ELSE 0
                       IN  /\ requested[RequestOf[d]][EmitOrder[j]] = times
                           /\ made[RequestOf[d]][EmitOrder[j]] = times)'
    BY DEF PublishedInv
  <2>1. Published(d, j)' = Published(d, j)
    BY DEF LocalStep, Published
  <2> QED
    BY <1>2, <2>1 DEF ExecInv, PublishedInv, LocalStep
<1>5. AbsentInv' /\ RequestedOnce'
  BY DEF ExecInv, LocalStep, AbsentInv, RequestedOnce
<1>6. Accepts(c) => Found(RequestOf[c]) /\ AllRequested(RequestOf[c])
  <2> SUFFICES ASSUME Accepts(c)
               PROVE  Found(RequestOf[c]) /\ AllRequested(RequestOf[c])
    OBVIOUS
  <2>1. \A j \in 1 .. 3 : requested[RequestOf[c]][EmitOrder[j]] = 1
    BY DEF Accepts, ExecInv, PublishedInv, Owner, Published
  <2> QED
    BY <2>1, EmitOrderLemma DEF Accepts, ExecInv, OwnerInv, Owner, AllRequested
<1>7. \A r \in Requests : /\ AllRequested(r)' = AllRequested(r)
                          /\ Found(r)' = Found(r)
  BY DEF LocalStep, AllRequested
<1>8. \A d \in Calls : AnswerOf(d)' /\ PendingAnswer(d)'
  <2> TAKE d \in Calls
  <2>0. RequestOf[d] \in Requests
    OBVIOUS
  <2>1. CASE d = c
    BY <1>6, <1>7, <2>0, <2>1 DEF LocalStep, ExecInv, AnswerInv, PendingAnswer
  <2>2. CASE d # c
    BY <1>7, <2>0, <2>2 DEF LocalStep, ExecInv, AnswerInv, AnswerOf, Unanswered, Owner,
       PendingAnswer
  <2> QED
    BY <2>1, <2>2
<1>9. PublisherInv'
  <2>1. \A r \in activeSagas' : Found(r)'
    BY <1>7 DEF LocalStep, ExecInv, AnswerInv, PublisherInv, TypeInv, ExecTypeOK,
       StoreTypeOK
  <2>2. ASSUME NEW r \in Requests, Found(r)', ~AllRequested(r)'
        PROVE  \E d \in Calls : RequestOf[d] = r /\ CutShort(d)'
    <3>1. PICK d \in Calls : RequestOf[d] = r /\ CutShort(d)
      BY <1>7, <2>2 DEF ExecInv, AnswerInv, PublisherInv
    <3>2. CutShort(d)'
      BY <1>6, <1>7, <2>2, <3>1 DEF LocalStep, CutShort
    <3> QED
      BY <3>1, <3>2
  <2> QED
    BY <2>1, <2>2 DEF PublisherInv
<1> QED
  BY <1>1, <1>3, <1>4, <1>5, <1>8, <1>9 DEF ExecInv, AnswerInv

(* What is not a step of a call leaves the calls and the requests alone,   *)
(* and only removes cached states.                                         *)
LEMMA IdleStepKeepsInv ==
    ASSUME ExecInv, TypeInv', UNCHANGED <<requested, made, field, call>>,
           \A r \in Requests : Found(r)' = Found(r), activeSagas' \subseteq activeSagas
    PROVE  ExecInv'
<1>1. \A c \in Calls : RequestOf[c] \in Requests
  BY CallsAssumption
<1>2. FieldInv' /\ PositionInv' /\ OwnerInv' /\ PublishedInv' /\ AbsentInv' /\ RequestedOnce'
  BY <1>1 DEF ExecInv, FieldInv, PositionInv, OwnerInv, PublishedInv, AbsentInv,
     RequestedOnce, Running, Id, Owner, Published
<1>3. \A c \in Calls : AnswerOf(c)' /\ PendingAnswer(c)'
  BY <1>1 DEF ExecInv, AnswerInv, AnswerOf, Unanswered, Owner, PendingAnswer, AllRequested
<1>4. PublisherInv'
  <2>1. \A r \in activeSagas' : Found(r)'
    BY DEF ExecInv, AnswerInv, PublisherInv, TypeInv, ExecTypeOK, StoreTypeOK
  <2>2. \A r \in Requests : AllRequested(r)' = AllRequested(r)
    BY DEF AllRequested
  <2>3. \A d \in Calls : CutShort(d)' = CutShort(d)
    BY DEF CutShort
  <2> QED
    BY <2>1, <2>2, <2>3 DEF ExecInv, AnswerInv, PublisherInv
<1> QED
  BY <1>2, <1>3, <1>4 DEF ExecInv, AnswerInv

(* The first step of a call gives the node's field its own request id. The *)
(* other calls that run there are for the same id.                         *)
LEMMA FieldStep ==
    ASSUME OneRequestPerNode, ExecInv, NEW c \in Calls, Step(c)
    PROVE  FieldInv'
<1> USE CallsAssumption
<1>0. /\ call \in [Calls -> CallState]
      /\ field \in [Nodes -> Requests \cup {NoRequest}] /\ NodeOf[c] \in Nodes
  BY DEF ExecInv, TypeInv, ExecTypeOK, Nodes
<1>1. CASE Start(c)
  <2>1. \A d \in Calls \ {c} : call'[d] = call[d]
    BY <1>0, <1>1 DEF Start, GoTo, Finally
  <2> SUFFICES ASSUME NEW d \in Calls, Running(d)'
               PROVE  Id(d)' = RequestOf[d]
    BY DEF FieldInv
  <2>2. CASE NodeOf[d] = NodeOf[c]
    BY <1>0, <1>1, <2>2 DEF Start, Id, OneRequestPerNode
  <2>3. CASE NodeOf[d] # NodeOf[c]
    <3>1. d # c /\ Running(d)
      BY <2>1, <2>3 DEF Running
    <3> QED
      BY <1>0, <1>1, <2>3, <3>1 DEF Start, Id, ExecInv, FieldInv
  <2> QED
    BY <2>2, <2>3
<1>2. CASE ~Start(c)
  <2>1. /\ UNCHANGED field
        /\ Running(c)
        /\ \A d \in Calls \ {c} : call'[d] = call[d]
    BY <1>0, <1>2 DEF Step, CheckActive, AcquireLock, CheckRate, OpenWindow, CreateDocument,
       CacheActive, Enqueue, Emit, CountStep, SaveError, SaveErrorMetadata, ReleaseLock,
       ClearActive, GoTo, Finally, At, Running
  <2> QED
    BY <2>1 DEF ExecInv, FieldInv, Running, Id
<1> QED
  BY <1>1, <1>2

(* The insert makes an owner only when the request had no document, hence  *)
(* no owner and no publication.                                            *)
LEMMA CreateKeepsInv ==
    ASSUME ExecInv, TypeInv', NEW c \in Calls, CreateDocument(c)
    PROVE  ExecInv'
<1> USE CallsAssumption
<1> DEFINE r == RequestOf[c]
<1>1. Id(c) = r /\ r \in Requests /\ Running(c) /\ call[c].k = 1 /\ At(c, "create")
  BY DEF CreateDocument, At, Running, ExecInv, FieldInv, PositionInv
<1>2. call \in [Calls -> CallState] /\ saga \in [Requests -> SagaDocument]
  BY DEF ExecInv, TypeInv, ExecTypeOK, StoreTypeOK
<1>3. CASE GoTo(c, "error") /\ UNCHANGED saga
  <2>1. FieldInv'
    BY <1>1, <1>2, <1>3 DEF CreateDocument, GoTo, ExecInv, FieldInv, Running, Id, CallState
  <2>2. LocalStep(c)
    BY <1>1, <1>2, <1>3 DEF CreateDocument, redisVars, LocalStep, GoTo, Owner, Found,
       CallState, At, ExecInv, AnswerInv, AnswerOf, Unanswered, CutShort
  <2> QED
    BY <2>1, <2>2, LocalStepKeepsInv
<1>4. CASE CreateSaga(r, r) /\ GoTo(c, "cache")
  <2>1. /\ UNCHANGED <<field, requested, made, activeSagas>>
        /\ ~Found(r)
        /\ \A q \in Requests : Found(q)' = (Found(q) \/ q = r)
        /\ call' = [call EXCEPT ![c].at = "cache"]
    BY <1>1, <1>2, <1>4 DEF CreateDocument, CreateSaga, Found, NewDocument, GoTo, redisVars
  <2>2. FieldInv' /\ PositionInv'
    BY <1>1, <1>2, <2>1 DEF ExecInv, FieldInv, PositionInv, Running, Id, CallState
  <2>3. \A d \in Calls : Owner(d)' => d = c \/ (Owner(d) /\ RequestOf[d] # r)
    BY <1>2, <2>1 DEF Owner, ExecInv, OwnerInv
  <2>4. OwnerInv'
    BY <1>1, <2>1, <2>3 DEF ExecInv, OwnerInv
  <2>5. PublishedInv'
    <3> SUFFICES ASSUME NEW d \in Calls, Owner(d)', NEW j \in 1 .. 3
                 PROVE  (LET times == IF Published(d, j) THEN 1 ELSE 0
                         IN  /\ requested[RequestOf[d]][EmitOrder[j]] = times
                             /\ made[RequestOf[d]][EmitOrder[j]] = times)'
      BY DEF PublishedInv
    <3>1. CASE d = c
      <4>1. ~Published(c, j)'
        BY <1>1, <1>2, <2>1 DEF Published, CallState
      <4>2. requested[r][EmitOrder[j]] = 0 /\ made[r][EmitOrder[j]] = 0
        BY <1>1, <2>1, EmitOrderLemma DEF ExecInv, AbsentInv
      <4> QED
        BY <2>1, <3>1, <4>1, <4>2
    <3>2. CASE d # c
      BY <1>2, <2>1, <2>3, <3>2 DEF ExecInv, PublishedInv, Published
    <3> QED
      BY <3>1, <3>2
  <2>6. AbsentInv' /\ RequestedOnce'
    BY <2>1 DEF ExecInv, AbsentInv, RequestedOnce
  <2>7. /\ \A d \in Calls \ {c} : call'[d] = call[d]
        /\ call'[c].at = "cache"
        /\ call'[c].reply = call[c].reply /\ call'[c].locked = call[c].locked
    BY <1>2, <2>1 DEF CallState
  <2>8. \A d \in Calls : AnswerOf(d)' /\ PendingAnswer(d)'
    <3> TAKE d \in Calls
    <3>1. RequestOf[d] \in Requests
      OBVIOUS
    <3>2. AnswerOf(d) /\ PendingAnswer(d)
      BY DEF ExecInv, AnswerInv
    <3>3. CASE d = c
      BY <1>1, <2>7, <3>2, <3>3 DEF AnswerOf, Unanswered, At, PendingAnswer
    <3>4. CASE d # c
      BY <2>1, <2>7, <3>1, <3>2, <3>4 DEF AnswerOf, Unanswered, Owner, PendingAnswer,
         AllRequested
    <3> QED
      BY <3>3, <3>4
  <2>9. PublisherInv'
    <3>1. CutShort(c)'
      BY <1>1, <2>7 DEF CutShort, ExecInv, AnswerInv, AnswerOf, At
    <3>2. \A d \in Calls : CutShort(d) => CutShort(d)'
      BY <2>7, <3>1 DEF CutShort
    <3>3. \A q \in Requests : AllRequested(q)' = AllRequested(q)
      BY <2>1 DEF AllRequested
    <3>4. \A q \in activeSagas' : Found(q)'
      BY <2>1 DEF ExecInv, AnswerInv, PublisherInv, TypeInv, ExecTypeOK, StoreTypeOK
    <3>5. \A q \in Requests : Found(q)' =>
              AllRequested(q)' \/ \E d \in Calls : RequestOf[d] = q /\ CutShort(d)'
      BY <2>1, <3>1, <3>2, <3>3 DEF ExecInv, AnswerInv, PublisherInv
    <3> QED
      BY <3>4, <3>5 DEF PublisherInv
  <2> QED
    BY <2>2, <2>4, <2>5, <2>6, <2>8, <2>9 DEF ExecInv, AnswerInv
<1> QED
  BY <1>1, <1>3, <1>4 DEF CreateDocument

(* A publication, whether or not the broker reports it, is by the owner    *)
(* and of the service at the owner's position, which was not asked before. *)
LEMMA EmitKeepsInv ==
    ASSUME ExecInv, TypeInv', NEW c \in Calls, Emit(c)
    PROVE  ExecInv'
<1> USE CallsAssumption
<1> DEFINE r == RequestOf[c]
           k == call[c].k
           e == EmitOrder[k]
<1>1. Id(c) = r /\ r \in Requests /\ Running(c) /\ Owner(c) /\ At(c, "emit")
  BY DEF Emit, At, Running, Owner, ExecInv, FieldInv
<1>2. /\ call \in [Calls -> CallState]
      /\ requested \in [Requests -> [Services -> Nat]]
      /\ made \in [Requests -> [Services -> Nat]]
      /\ k \in 1 .. 3
  BY DEF ExecInv, TypeInv, ExecTypeOK, StoreTypeOK, CallState
<1>3. requested[r][e] = 0 /\ made[r][e] = 0 /\ e \in Services /\ Found(r)
  BY <1>1, <1>2, EmitOrderLemma DEF ExecInv, PublishedInv, Published, OwnerInv, At
<1>4. UNCHANGED <<saga, field, activeSagas>>
  BY DEF Emit, redisVars
<1>5. PICK published, rejected \in BOOLEAN :
          /\ published \/ rejected
          /\ requested' = IF published THEN [requested EXCEPT ![r][e] = @ + 1]
                          ELSE requested
          /\ made' = [made EXCEPT ![r][e] = @ + 1]
          /\ call' = [call EXCEPT ![c].at = IF rejected THEN "error" ELSE "count"]
  BY <1>1 DEF Emit, GoTo, MakeReservation
<1>6. /\ \A q \in Requests, s \in Services :
             ~(q = r /\ s = e) => /\ requested'[q][s] = requested[q][s]
                                  /\ made'[q][s] = made[q][s]
      /\ requested'[r][e] \in {0, 1}
      /\ made'[r][e] = 1
      /\ ~rejected => requested'[r][e] = 1
  BY <1>1, <1>2, <1>3, <1>5
<1>7. /\ \A d \in Calls \ {c} : call'[d] = call[d]
      /\ call'[c].at \in {"error", "count"}
      /\ call'[c].at = "count" => ~rejected
      /\ call'[c].k = k
      /\ call'[c].reply = call[c].reply /\ call'[c].locked = call[c].locked
  BY <1>2, <1>5 DEF CallState
<1>8. FieldInv' /\ PositionInv'
  BY <1>1, <1>4, <1>7 DEF ExecInv, FieldInv, PositionInv, Running, Id
<1>9. \A d \in Calls : Owner(d)' => Owner(d)
  BY <1>1, <1>7 DEF Owner
<1>10. OwnerInv'
  BY <1>4, <1>9 DEF ExecInv, OwnerInv, Found
<1>11. PublishedInv'
  <2> SUFFICES ASSUME NEW d \in Calls, Owner(d)', NEW j \in 1 .. 3
               PROVE  (LET times == IF Published(d, j) THEN 1 ELSE 0
                       IN  /\ requested[RequestOf[d]][EmitOrder[j]] = times
                           /\ made[RequestOf[d]][EmitOrder[j]] = times)'
    BY DEF PublishedInv
  <2>1. LET times == IF Published(d, j) THEN 1 ELSE 0
        IN  /\ requested[RequestOf[d]][EmitOrder[j]] = times
            /\ made[RequestOf[d]][EmitOrder[j]] = times
    BY <1>9 DEF ExecInv, PublishedInv
  <2>2. CASE d # c
    <3>1. RequestOf[d] # r
      BY <1>1, <1>9, <2>2 DEF ExecInv, OwnerInv
    <3> QED
      BY <1>6, <1>7, <2>1, <2>2, <3>1, EmitOrderLemma DEF Published
  <2>3. CASE d = c /\ j = k
    <3>1. call'[c].at = "count"
      BY <1>7, <2>3 DEF Owner
    <3> QED
      BY <1>6, <1>7, <2>3, <3>1 DEF Published
  <2>4. CASE d = c /\ j # k
    <3>1. EmitOrder[j] # e /\ EmitOrder[j] \in Services
      BY <1>2, <2>4, EmitOrderLemma
    <3>2. Published(d, j)' = Published(d, j)
      BY <1>1, <1>2, <1>7, <2>4 DEF Published
    <3> QED
      BY <1>1, <1>6, <2>1, <2>4, <3>1, <3>2
  <2> QED
    BY <2>2, <2>3, <2>4
<1>12. AbsentInv'
  BY <1>3, <1>4, <1>6 DEF ExecInv, AbsentInv, Found
<1>13. RequestedOnce'
  <2> SUFFICES ASSUME NEW q \in Requests, NEW s \in Services
               PROVE  requested'[q][s] <= 1 /\ made'[q][s] <= 1
    BY DEF RequestedOnce
  <2>1. CASE q = r /\ s = e
    BY <1>6, <2>1
  <2>2. CASE ~(q = r /\ s = e)
    BY <1>6, <2>2 DEF ExecInv, RequestedOnce
  <2> QED
    BY <2>1, <2>2
<1>14. \A q \in Requests : AllRequested(q) => AllRequested(q)'
  <2> SUFFICES ASSUME NEW q \in Requests, AllRequested(q), NEW s \in Services
               PROVE  requested'[q][s] > 0
    BY DEF AllRequested
  <2>1. ~(q = r /\ s = e)
    BY <1>3 DEF AllRequested
  <2> QED
    BY <1>6, <2>1 DEF AllRequested
<1>15. \A d \in Calls : AnswerOf(d)' /\ PendingAnswer(d)'
  <2> TAKE d \in Calls
  <2>1. AnswerOf(d) /\ PendingAnswer(d) /\ RequestOf[d] \in Requests
    BY DEF ExecInv, AnswerInv
  <2>2. CASE d = c
    BY <1>1, <1>7, <2>1, <2>2 DEF AnswerOf, Unanswered, Owner, At, PendingAnswer
  <2>3. CASE d # c
    BY <1>4, <1>7, <1>14, <2>1, <2>3 DEF AnswerOf, Unanswered, Owner, PendingAnswer, Found
  <2> QED
    BY <2>2, <2>3
<1>16. PublisherInv'
  <2>1. \A d \in Calls : CutShort(d) => CutShort(d)'
    BY <1>7 DEF CutShort
  <2> QED
    BY <1>4, <1>14, <2>1 DEF ExecInv, AnswerInv, PublisherInv, Found
<1> QED
  BY <1>8, <1>10, <1>11, <1>12, <1>13, <1>15, <1>16 DEF ExecInv, AnswerInv

(* A crash ends calls and empties fields; it undoes nothing.               *)
LEMMA CrashKeepsInv ==
    ASSUME ExecInv, TypeInv', NEW n \in Nodes, Crash(n)
    PROVE  ExecInv'
<1> USE CallsAssumption
<1>1. /\ UNCHANGED <<saga, requested, made, activeSagas>>
      /\ \A d \in Calls : call'[d] = call[d] \/ call'[d] = [call[d] EXCEPT !.at = "crashed"]
  BY DEF Crash, storeVars
<1>2. call \in [Calls -> CallState]
  BY DEF ExecInv, TypeInv, ExecTypeOK
<1>3. \A d \in Calls :
         /\ call'[d].reply = call[d].reply
         /\ call'[d].locked = call[d].locked
         /\ call'[d].k = call[d].k
         /\ call'[d].at \in {call[d].at, "crashed"}
  BY <1>1, <1>2, ZenonT(60) DEF CallState
<1>4. FieldInv'
  <2> SUFFICES ASSUME NEW d \in Calls, Running(d)'
               PROVE  Id(d)' = RequestOf[d]
    BY DEF FieldInv
  <2>1. NodeOf[d] # n /\ call'[d] = call[d]
    BY <1>2 DEF Crash, Running, CallState
  <2> QED
    BY <2>1 DEF ExecInv, FieldInv, Running, Id, Crash, TypeInv, ExecTypeOK
<1>5. \A d \in Calls : Owner(d)' => Owner(d) /\ call'[d].at = call[d].at
  BY <1>3 DEF Owner
<1>6. PositionInv' /\ OwnerInv'
  <2>1. PositionInv'
    BY <1>3 DEF ExecInv, PositionInv
  <2>2. OwnerInv'
    BY <1>1, <1>5 DEF ExecInv, OwnerInv, Found
  <2> QED
    BY <2>1, <2>2
<1>7. AbsentInv' /\ RequestedOnce' /\ AnswerInv'
  <2>1. AbsentInv' /\ RequestedOnce'
    BY <1>1 DEF ExecInv, AbsentInv, RequestedOnce, Found
  <2>2. \A d \in Calls : AnswerOf(d)' /\ PendingAnswer(d)'
    BY <1>1, <1>3, <1>5 DEF ExecInv, AnswerInv, AnswerOf, Unanswered, PendingAnswer,
       AllRequested, Found
  <2>3. \A d \in Calls : CutShort(d) => CutShort(d)'
    BY <1>3 DEF CutShort
  <2>4. PublisherInv'
    BY <1>1, <2>3 DEF ExecInv, AnswerInv, PublisherInv, AllRequested, Found
  <2> QED
    BY <2>1, <2>2, <2>4 DEF AnswerInv
<1>8. PublishedInv'
  <2> SUFFICES ASSUME NEW d \in Calls, Owner(d)', NEW j \in 1 .. 3
               PROVE  (LET times == IF Published(d, j) THEN 1 ELSE 0
                       IN  /\ requested[RequestOf[d]][EmitOrder[j]] = times
                           /\ made[RequestOf[d]][EmitOrder[j]] = times)'
    BY DEF PublishedInv
  <2>0. call'[d].k = call[d].k /\ call'[d].at = call[d].at
    BY <1>3, <1>5
  <2>1. Published(d, j)' = Published(d, j)
    BY <2>0 DEF Published
  <2> QED
    BY <1>1, <1>5, <2>1 DEF ExecInv, PublishedInv
<1> QED
  BY <1>4, <1>6, <1>7, <1>8 DEF ExecInv

LEMMA ExecInvStep ==
    ASSUME OneRequestPerNode, ExecInv, [ExecNext]_vars
    PROVE  ExecInv'
<1> USE CallsAssumption
<1>1. TypeInv'
  BY TypeStep DEF ExecInv
<1>2. call \in [Calls -> CallState] /\ saga \in [Requests -> SagaDocument]
  BY DEF ExecInv, TypeInv, ExecTypeOK, StoreTypeOK
<1>3. ASSUME NEW c \in Calls, Step(c)
      PROVE  ExecInv'
  <2>0. FieldInv' /\ AnswerOf(c)
    BY <1>3, FieldStep DEF ExecInv, AnswerInv
  <2>1. CASE Start(c)
    <3>1. LocalStep(c)
      BY <1>2, <2>0, <2>1 DEF Start, LocalStep, GoTo, Finally, At, Owner, Found, CallState,
         ExecInv, PositionInv, storeVars, AnswerOf, Unanswered, CutShort
    <3> QED
      BY <1>1, <2>0, <3>1, LocalStepKeepsInv
  <2>2. CASE CreateDocument(c)
    BY <1>1, <2>2, CreateKeepsInv
  <2>3. CASE Emit(c)
    BY <1>1, <2>3, EmitKeepsInv
  <2>4. CASE CheckActive(c)
    <3>1. LocalStep(c)
      <4>1. Id(c) = RequestOf[c]
        BY <2>4 DEF CheckActive, At, Running, ExecInv, FieldInv
      <4>2. Id(c) \in activeSagas => Found(RequestOf[c])
        BY <4>1 DEF ExecInv, AnswerInv, PublisherInv
      <4> QED
        BY <1>2, <2>0, <2>4, <4>2 DEF CheckActive, LocalStep, GoTo, Finally, At, Owner,
           Found, CallState, ExecInv, PositionInv, storeVars, AnswerOf, Unanswered, CutShort
    <3> QED
      BY <1>1, <2>0, <3>1, LocalStepKeepsInv
  <2>5. CASE AcquireLock(c)
    <3>1. LocalStep(c)
      BY <1>2, <2>0, <2>5 DEF AnswerOf, Unanswered, CutShort, AcquireLock, LocalStep,
         Finally, At, Owner, Found, CallState, ExecInv, PositionInv
    <3> QED
      BY <1>1, <2>0, <3>1, LocalStepKeepsInv
  <2>6. CASE CheckRate(c)
    <3>1. LocalStep(c)
      BY <1>2, <2>0, <2>6 DEF AnswerOf, Unanswered, CutShort, CheckRate, LocalStep, GoTo,
         At, Owner, Found, CallState, ExecInv, PositionInv, storeVars
    <3> QED
      BY <1>1, <2>0, <3>1, LocalStepKeepsInv
  <2>7. CASE CacheActive(c)
    <3>1. Id(c) = RequestOf[c] /\ Found(RequestOf[c])
      BY <2>7 DEF CacheActive, At, Running, Owner, ExecInv, FieldInv, OwnerInv
    <3>2. \A r \in activeSagas' : r \in activeSagas \/ Found(r)
      BY <2>7, <3>1 DEF CacheActive, SetActiveSagaState, Write
    <3>3. LocalStep(c)
      BY <1>2, <2>0, <2>7, <3>2 DEF CacheActive, LocalStep, GoTo, At, Owner, Found,
         Published, CallState, ExecInv, PositionInv, AnswerOf, Unanswered, CutShort
    <3> QED
      BY <1>1, <2>0, <3>3, LocalStepKeepsInv
  <2>8. CASE Enqueue(c)
    <3>1. LocalStep(c)
      BY <1>2, <2>0, <2>8 DEF AnswerOf, Unanswered, CutShort, Enqueue, LocalStep, GoTo, At,
         Owner, Found, Published, CallState, ExecInv, PositionInv
    <3> QED
      BY <1>1, <2>0, <3>1, LocalStepKeepsInv
  <2>9. CASE CountStep(c)
    <3>1. LocalStep(c)
      BY <1>2, <2>0, <2>9 DEF AnswerOf, Unanswered, CutShort, Accepts, CountStep, LocalStep,
         Finally, At, Owner, Found, Published, CallState
    <3> QED
      BY <1>1, <2>0, <3>1, LocalStepKeepsInv
  <2>10. CASE SaveError(c)
    <3>1. \A r \in Requests : Found(r)' = Found(r)
      BY <1>2, <2>10 DEF SaveError, SetError, Found, SagaDocument
    <3>2. LocalStep(c)
      BY <1>2, <2>0, <2>10, <3>1 DEF AnswerOf, Unanswered, CutShort, SaveError, redisVars,
         LocalStep, GoTo, Finally, At, Owner, CallState
    <3> QED
      BY <1>1, <2>0, <3>2, LocalStepKeepsInv
  <2>11. CASE SaveErrorMetadata(c)
    <3>1. LocalStep(c)
      BY <1>2, <2>0, <2>11 DEF AnswerOf, Unanswered, CutShort, SaveErrorMetadata, LocalStep,
         Finally, At, Owner, Found, CallState
    <3> QED
      BY <1>1, <2>0, <3>1, LocalStepKeepsInv
  <2>12. CASE ReleaseLock(c)
    <3>1. LocalStep(c)
      BY <1>2, <2>0, <2>12 DEF AnswerOf, Unanswered, CutShort, ReleaseLock, LocalStep, GoTo,
         At, Owner, Found, CallState
    <3> QED
      BY <1>1, <2>0, <3>1, LocalStepKeepsInv
  <2>13. CASE ClearActive(c)
    <3>1. LocalStep(c)
      BY <1>2, <2>0, <2>13 DEF AnswerOf, Unanswered, CutShort, ClearActive,
         ClearActiveSagaState, Write, LocalStep, GoTo, At, Owner, Found, CallState
    <3> QED
      BY <1>1, <2>0, <3>1, LocalStepKeepsInv
  <2>14. CASE OpenWindow(c)
    <3>1. LocalStep(c)
      BY <1>2, <2>0, <2>14 DEF AnswerOf, Unanswered, CutShort, OpenWindow, LocalStep, GoTo,
         At, Owner, Found, CallState, ExecInv, PositionInv, storeVars
    <3> QED
      BY <1>1, <2>0, <3>1, LocalStepKeepsInv
  <2> QED
    BY <1>3, <2>1, <2>2, <2>3, <2>4, <2>5, <2>6, <2>7, <2>8, <2>9, <2>10, <2>11, <2>12,
       <2>13, <2>14 DEF Step
<1>4. CASE /\ UNCHANGED <<saga, requested, made, field, call>>
           /\ activeSagas' \subseteq activeSagas
  BY <1>1, <1>4, IdleStepKeepsInv DEF Found
<1>5. CASE Environment
  <2>1. ASSUME NEW n \in Nodes, Crash(n) PROVE ExecInv'
    BY <1>1, <2>1, CrashKeepsInv
  <2> QED
    BY <1>4, <1>5, <2>1 DEF Environment, ExpireLock, ExpireActive, ResetRate, execVars,
       storeVars
<1>6. CASE UNCHANGED vars
  BY <1>4, <1>6 DEF vars, storeVars, execVars
<1> QED
  BY <1>3, <1>5, <1>6 DEF ExecNext

(* However many calls carry the same request id, on however many nodes,    *)
(* with locks that expire or are lost and nodes that crash, each service   *)
(* is asked at most once: the unique index alone guarantees it.            *)
THEOREM RequestedOnceHolds ==
    ASSUME OneRequestPerNode
    PROVE  ExecSpec => []RequestedOnce
<1>1. ExecInv => RequestedOnce
  BY DEF ExecInv
<1>2. ExecInv /\ [ExecNext]_vars => ExecInv'
  BY ExecInvStep
<1> QED
  BY <1>1, <1>2, ExecInvInit, PTL DEF ExecSpec

(* A call that is answered PENDING finds a saga that is stored, and that   *)
(* all three services were asked for unless the call that stored it was    *)
(* cut short, by an error or a crash, or is still at work. The answer of   *)
(* the call that published needs no such exception.                        *)
THEOREM PendingIsPublishedHolds ==
    ASSUME OneRequestPerNode
    PROVE  ExecSpec => []PendingIsPublished
<1>1. ExecInv => PendingIsPublished
  BY CallsAssumption DEF ExecInv, AnswerInv, PendingAnswer, PublisherInv, AllRequested,
     PendingIsPublished
<1>2. ExecInv /\ [ExecNext]_vars => ExecInv'
  BY ExecInvStep
<1> QED
  BY <1>1, <1>2, ExecInvInit, PTL DEF ExecSpec
=============================================================================
