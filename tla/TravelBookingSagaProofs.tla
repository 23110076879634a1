---------------------- MODULE TravelBookingSagaProofs ----------------------
(***************************************************************************)
(* Theorems about TravelBookingSaga. What was proved of the calls and of   *)
(* the handlers alone is carried over to their composition, and what only  *)
(* both together guarantee is proved here.                                 *)
(***************************************************************************)
EXTENDS TravelBookingSaga, SagaExecutionProofs, SagaJoinProofs

(* A call inserts documents and fails documents (DocumentStep).            *)
LEMMA ExecOnDocuments ==
    ASSUME TypeInv, [ExecNext]_vars
    PROVE  DocumentStep
<1>0. saga \in [Requests -> SagaDocument]
  BY DEF TypeInv, ExecTypeOK, StoreTypeOK
<1>1. ASSUME NEW c \in Calls, CreateDocument(c)
      PROVE  DocumentStep
  <2>1. Id(c) \in Requests /\ RequestOf[c] \in Requests
    BY <1>1, CallsAssumption DEF TypeInv, CreateDocument, At, Running
  <2> QED
    BY <1>0, <1>1, <2>1 DEF CreateDocument, CreateSaga, DocumentStep
<1>2. ASSUME NEW c \in Calls, SaveError(c)
      PROVE  DocumentStep
  <2>1. Id(c) \in Requests
    BY <1>2 DEF TypeInv, SaveError, At, Running
  <2> QED
    BY <1>0, <1>2, <2>1 DEF SaveError, SetError, DocumentStep
<1>3. CASE UNCHANGED saga
  BY <1>3 DEF DocumentStep
<1>4. ASSUME NEW c \in Calls, Step(c), ~CreateDocument(c), ~SaveError(c)
      PROVE  UNCHANGED saga
  BY <1>4 DEF Step, Start, CheckActive, AcquireLock, CheckRate, OpenWindow, CacheActive,
     Enqueue, Emit, CountStep, SaveErrorMetadata, ReleaseLock, ClearActive, storeVars
<1>5. CASE Environment
  BY <1>3, <1>5 DEF Environment, ExpireLock, ExpireActive, Crash, ResetRate, storeVars
<1> QED
  BY <1>1, <1>2, <1>3, <1>4, <1>5 DEF ExecNext, vars, storeVars

(* What the steps of the handlers leave alone: no document comes or goes,  *)
(* and no service is asked.                                                *)
LEMMA JoinOnStore ==
    ASSUME JoinedInv, [JoinNext]_jvars
    PROVE  /\ UNCHANGED requested
           /\ \A r \in Requests : Found(r)' = Found(r)
<1>1. UNCHANGED requested
  BY DEF JoinNext, jvars, storeVars, Save, Handle, LoseHandler, CountConfirmed,
     ReadForAggregation, WriteConfirmed, CountCompleted, Dequeue, CleanUp,
     SaveAggregationError, SaveAggregationMetadata, NotifyConfirmed, NotifyFailed
<1>2. ASSUME NEW d \in Deliveries, ReadForAggregation(d) \/ UNCHANGED saga
      PROVE  \A r \in Requests : Found(r)' = Found(r)
  BY <1>2 DEF ReadForAggregation, storeVars, Found
<1>3. ASSUME NEW d \in Deliveries, WriteConfirmed(d)
      PROVE  \A r \in Requests : Found(r)' = Found(r)
  <2>1. saga \in [Requests -> SagaDocument] /\ d[2] \in Requests
    BY DeliveryParts DEF JoinedInv, JoinTypeOK, StoreTypeOK
  <2>2. CASE /\ Found(d[2])
             /\ saga' = [saga EXCEPT ![d[2]].bookingId = handler[d].booking,
                                     ![d[2]].status = "CONFIRMED",
                                     ![d[2]].steps = AllConfirmed \cup {"COMPLETED"}]
    BY <2>1, <2>2 DEF SagaDocument, Found
  <2> QED
    BY <1>3, <2>2, StoreStep DEF PlainStep
<1>4. ASSUME NEW d \in Deliveries, Save(d) \/ Handle(d) \/ LoseHandler(d),
             ~ReadForAggregation(d), ~WriteConfirmed(d)
      PROVE  \A r \in Requests : Found(r)' = Found(r)
  BY <1>4, PlainSteps DEF Handle, PlainStep
<1>5. CASE UNCHANGED jvars
  BY <1>5 DEF jvars, storeVars, Found
<1> QED
  BY <1>1, <1>2, <1>3, <1>4, <1>5 DEF JoinNext, Handle

(* They only release locks and clear cached states.                        *)
LEMMA JoinOnlyUnlocks ==
    ASSUME [JoinNext]_jvars
    PROVE  locks' \subseteq locks /\ activeSagas' \subseteq activeSagas
BY DEF JoinNext, jvars, storeVars, redisVars, Save, Handle, LoseHandler, CountConfirmed,
   ReadForAggregation, WriteConfirmed, CountCompleted, Dequeue, CleanUp, Cleanup,
   ReleaseSagaLock, ClearActiveSagaState, Write, SaveAggregationError,
   SaveAggregationMetadata, NotifyConfirmed, NotifyFailed

LEMMA JoinKeepsTypes ==
    ASSUME TypeInv, JoinTypeOK', [JoinNext]_jvars, UNCHANGED execVars
    PROVE  TypeInv'
BY DEF TypeInv, ExecTypeOK, JoinTypeOK, execVars, rateVars, Running, Id

LEMMA JoinKeepsExec ==
    ASSUME ExecInv, JoinedInv, [JoinNext]_jvars, UNCHANGED execVars
    PROVE  ExecInv'
<1>1. /\ UNCHANGED <<requested, made, field, call>>
      /\ \A r \in Requests : Found(r)' = Found(r)
      /\ activeSagas' \subseteq activeSagas
  BY JoinOnStore, JoinOnlyUnlocks DEF execVars
<1>2. TypeInv'
  BY JoinTypeStep, JoinKeepsTypes DEF ExecInv, JoinedInv
<1> QED
  BY <1>1, <1>2, IdleStepKeepsInv
-----------------------------------------------------------------------------
(* The composition keeps the invariants of both halves.                    *)
LEMMA JoinedAtStart == SagaInit => KeptInv
<1> SUFFICES ASSUME SagaInit PROVE KeptInv
  OBVIOUS
<1>1. /\ \A d \in Deliveries :
             handler[d].at = "waiting" /\ handler[d].seen = {} /\ handler[d].booking = 0
      /\ \A r \in Requests : /\ saga[r].ids = {} /\ saga[r].steps = {}
                             /\ saga[r].bookingId = 0 /\ saga[r].status = "ABSENT"
      /\ bookings = 0 /\ notified = {}
  BY DEF SagaInit, Init, JoinInitVars, NoDocument
<1>2. JoinTypeOK
  BY TypeInit DEF SagaInit, TypeInv, ExecTypeOK, JoinInitVars, JoinTypeOK, HandlerState,
     HandlerPoints
<1>3. \A d \in Deliveries : ~Drawn(d) /\ ~Saved(d) /\ ~Full(d)
  BY <1>1 DEF Drawn, Saved, Full, AllConfirmed
<1>4. JoinedInv
  BY <1>1, <1>2, <1>3 DEF JoinedInv, BlankInv, NumberInv, BookedOnlyWhenJoined
<1>5. OnceInv
  BY <1>1, <1>3 DEF OnceInv
<1>6. UniqueInv /\ StoredInv
  BY <1>1, <1>3 DEF UniqueInv, StoredInv, Past
<1> QED
  BY <1>4, <1>5, <1>6 DEF KeptInv

SagaTypeInv == TypeInv /\ JoinedInv

(* A step is a step of a call or of a handler, which leaves the variables  *)
(* of the other half alone, or nothing.                                    *)
LEMMA SagaSteps ==
    ASSUME [SagaNext]_sagaVars
    PROVE  \/ [ExecNext]_vars /\ UNCHANGED joinVars
           \/ [JoinNext]_jvars /\ UNCHANGED execVars
<1>1. CASE UNCHANGED sagaVars
  <2>1. UNCHANGED storeVars /\ UNCHANGED execVars /\ UNCHANGED joinVars
    BY <1>1 DEF sagaVars
  <2> QED
    BY <2>1 DEF vars
<1> QED
  BY <1>1 DEF SagaNext

LEMMA SagaTypeStep ==
    ASSUME SagaTypeInv, [SagaNext]_sagaVars
    PROVE  SagaTypeInv'
<1>0. TypeInv /\ JoinedInv /\ JoinTypeOK
  BY DEF SagaTypeInv, JoinedInv
<1>1. CASE [ExecNext]_vars /\ UNCHANGED joinVars
  <2>1. TypeInv' /\ DocumentStep
    BY <1>0, <1>1, TypeStep, ExecOnDocuments
  <2>2. JoinedInv'
    BY <1>0, <1>1, <2>1, DocumentKeepsJoined DEF TypeInv, ExecTypeOK
  <2> QED
    BY <2>1, <2>2 DEF SagaTypeInv
<1>2. CASE [JoinNext]_jvars /\ UNCHANGED execVars
  <2>1. JoinedInv' /\ JoinTypeOK'
    BY <1>0, <1>2, JoinedStep, JoinTypeStep
  <2>2. TypeInv'
    BY <1>0, <1>2, <2>1, JoinKeepsTypes
  <2> QED
    BY <2>1, <2>2 DEF SagaTypeInv
<1> QED
  BY <1>1, <1>2, SagaSteps

LEMMA SagaTypeInvariance == SagaSpec => []SagaTypeInv
<1>1. SagaInit => SagaTypeInv
  BY TypeInit, JoinedAtStart DEF SagaInit, SagaTypeInv, KeptInv
<1> QED
  BY <1>1, SagaTypeStep, PTL DEF SagaSpec

(* Calls and handlers share one store and keep its types.                  *)
THEOREM SagaTypesOK == SagaSpec => []SagaTypeOK
<1>1. SagaTypeInv => SagaTypeOK
  BY DEF SagaTypeInv, TypeInv, JoinedInv, SagaTypeOK
<1> QED
  BY <1>1, SagaTypeInvariance, PTL

(* Whatever the calls do meanwhile, a saga is CONFIRMED and has a number   *)
(* only when all three services have confirmed.                            *)
THEOREM SagaBookedOnlyWhenJoined == SagaSpec => []BookedOnlyWhenJoined
<1>1. SagaTypeInv => BookedOnlyWhenJoined
  BY DEF SagaTypeInv, JoinedInv
<1> QED
  BY <1>1, SagaTypeInvariance, PTL
-----------------------------------------------------------------------------
(* With calls of a node for one request only, all that was shown of calls  *)
(* alone holds while handlers run, and the other way round.                *)
SagaInv == ExecInv /\ JoinedInv

LEMMA SagaInvInit == SagaInit => SagaInv
BY ExecInvInit, JoinedAtStart DEF SagaInit, SagaInv, KeptInv

LEMMA SagaInvStep ==
    ASSUME OneRequestPerNode, SagaInv, [SagaNext]_sagaVars
    PROVE  SagaInv'
<1>0. TypeInv /\ ExecInv /\ JoinedInv
  BY DEF SagaInv, ExecInv
<1>1. CASE [ExecNext]_vars /\ UNCHANGED joinVars
  <2>1. TypeInv' /\ DocumentStep /\ ExecInv'
    BY <1>0, <1>1, TypeStep, ExecOnDocuments, ExecInvStep
  <2>2. JoinedInv'
    BY <1>0, <1>1, <2>1, DocumentKeepsJoined DEF TypeInv, ExecTypeOK
  <2> QED
    BY <2>1, <2>2 DEF SagaInv
<1>2. CASE [JoinNext]_jvars /\ UNCHANGED execVars
  BY <1>0, <1>2, JoinedStep, JoinKeepsExec DEF SagaInv
<1> QED
  BY <1>1, <1>2, SagaSteps

(* Each service is asked at most once for a request, and a call answered   *)
(* PENDING finds a saga that was published or whose call was cut short,    *)
(* whatever the handlers do meanwhile.                                     *)
THEOREM SagaRequestedOnce ==
    ASSUME OneRequestPerNode
    PROVE  SagaSpec => [](RequestedOnce /\ PendingIsPublished)
<1>1. SagaInv => RequestedOnce /\ PendingIsPublished
  BY CallsAssumption DEF SagaInv, ExecInv, AnswerInv, PendingAnswer, PublisherInv,
     AllRequested, PendingIsPublished
<1>2. SagaInv /\ [SagaNext]_sagaVars => SagaInv'
  BY SagaInvStep
<1> QED
  BY <1>1, <1>2, SagaInvInit, PTL DEF SagaSpec
-----------------------------------------------------------------------------
(* Without redelivery the calls disturb neither the join nor its promise.  *)
SagaKeptInv == TypeInv /\ KeptInv

LEMMA SagaKeptStep ==
    ASSUME Redelivered = {}, SagaKeptInv, [SagaNext]_sagaVars
    PROVE  SagaKeptInv'
<1>0. TypeInv /\ KeptInv /\ JoinTypeOK
  BY DEF SagaKeptInv, KeptInv, JoinedInv
<1>1. CASE [ExecNext]_vars /\ UNCHANGED joinVars
  <2>1. TypeInv' /\ DocumentStep
    BY <1>0, <1>1, TypeStep, ExecOnDocuments
  <2>2. KeptInv'
    BY <1>0, <1>1, <2>1, DocumentKeepsKept DEF TypeInv, ExecTypeOK
  <2> QED
    BY <2>1, <2>2 DEF SagaKeptInv
<1>2. CASE [JoinNext]_jvars /\ UNCHANGED execVars
  <2>1. KeptInv' /\ JoinTypeOK'
    BY <1>0, <1>2, KeptStepAll, JoinTypeStep
  <2>2. TypeInv'
    BY <1>0, <1>2, <2>1, JoinKeepsTypes
  <2> QED
    BY <2>1, <2>2 DEF SagaKeptInv
<1> QED
  BY <1>1, <1>2, SagaSteps

(* One handler of a request aggregates it, and the number that its client  *)
(* is told is the one stored, also while calls insert and fail documents.  *)
THEOREM SagaAggregatedOnce ==
    ASSUME Redelivered = {}
    PROVE  SagaSpec => [](AggregatedOnce /\ NotifiedIsStored)
<1>1. SagaKeptInv => AggregatedOnce /\ NotifiedIsStored
  BY DEF SagaKeptInv, KeptInv, OnceInv, StoredInv, Drawn, AggregatedOnce, NotifiedIsStored
<1>2. SagaInit => SagaKeptInv
  BY TypeInit, JoinedAtStart DEF SagaInit, SagaKeptInv
<1>3. SagaKeptInv /\ [SagaNext]_sagaVars => SagaKeptInv'
  BY SagaKeptStep
<1> QED
  BY <1>1, <1>2, <1>3, PTL DEF SagaSpec

(* The whole saga implements BookingPromise: inserting and failing a       *)
(* document are stutters of the promise.                                   *)
THEOREM SagaKeepsPromise ==
    ASSUME Redelivered = {}
    PROVE  SagaSpec => KeepsPromise
<1>1. SagaInit => SagaKeptInv /\ Promise!Init
  <2>1. SagaInit => SagaKeptInv
    BY TypeInit, JoinedAtStart DEF SagaInit, SagaKeptInv
  <2>2. SagaInit => Promise!Init
    BY DEF SagaInit, Init, Promise!Init, NoDocument
  <2> QED
    BY <2>1, <2>2
<1>2. SagaKeptInv /\ [SagaNext]_sagaVars => SagaKeptInv'
  BY SagaKeptStep
<1>3. SagaKeptInv /\ [SagaNext]_sagaVars =>
          [Promise!Next]_<<[r \in Requests |-> saga[r].ids],
                           [r \in Requests |-> saga[r].bookingId]>>
  <2> SUFFICES ASSUME SagaKeptInv, [SagaNext]_sagaVars
               PROVE  [Promise!Next]_<<[r \in Requests |-> saga[r].ids],
                                       [r \in Requests |-> saga[r].bookingId]>>
    OBVIOUS
  <2>0. TypeInv /\ KeptInv /\ StoreTypeOK /\ BlankInv
    BY DEF SagaKeptInv, KeptInv, JoinedInv, TypeInv, ExecTypeOK
  <2>1. CASE [ExecNext]_vars /\ UNCHANGED joinVars
    <3>1. DocumentStep
      BY <2>0, <2>1, ExecOnDocuments
    <3>2. \A r \in Requests : /\ saga'[r].ids = saga[r].ids
                              /\ saga'[r].bookingId = saga[r].bookingId
      BY <2>0, <3>1, DocumentStepKeeps
    <3> QED
      BY <3>2
  <2>2. CASE [JoinNext]_jvars /\ UNCHANGED execVars
    BY <2>0, <2>2, PromiseStep
  <2> QED
    BY <2>1, <2>2, SagaSteps
<1> QED
  BY <1>1, <1>2, <1>3, PTL DEF SagaSpec, KeepsPromise, Promise!Spec
-----------------------------------------------------------------------------
(* Without redelivery and while Redis answers, the news agree with the     *)
(* numbers, also while calls insert and fail documents.                    *)
SagaToldInv == TypeInv /\ ToldInv

LEMMA SagaToldInit == SagaInit => SagaToldInv
BY TypeInit, JoinedAtStart
   DEF SagaInit, JoinInitVars, SagaToldInv, ToldInv, NewsInv, Failing, Past

LEMMA SagaToldStep ==
    ASSUME Redelivered = {}, "redis" \notin Faults, SagaToldInv, [SagaNext]_sagaVars
    PROVE  SagaToldInv'
<1>0. TypeInv /\ ToldInv /\ KeptInv /\ JoinTypeOK
  BY DEF SagaToldInv, ToldInv, KeptInv, JoinedInv
<1>1. CASE [ExecNext]_vars /\ UNCHANGED joinVars
  <2>1. TypeInv' /\ DocumentStep
    BY <1>0, <1>1, TypeStep, ExecOnDocuments
  <2>2. ToldInv'
    BY <1>0, <1>1, <2>1, DocumentKeepsTold DEF TypeInv, ExecTypeOK
  <2> QED
    BY <2>1, <2>2 DEF SagaToldInv
<1>2. CASE [JoinNext]_jvars /\ UNCHANGED execVars
  <2>1. ToldInv' /\ JoinTypeOK'
    BY <1>0, <1>2, ToldStep, JoinTypeStep
  <2>2. TypeInv'
    BY <1>0, <1>2, <2>1, JoinKeepsTypes
  <2> QED
    BY <2>1, <2>2 DEF SagaToldInv
<1> QED
  BY <1>1, <1>2, SagaSteps

(* No client is told both that its booking succeeded and that it failed,   *)
(* also when a call of execute fails the saga in between.                  *)
THEOREM SagaNoMixedNews ==
    ASSUME Redelivered = {}, "redis" \notin Faults
    PROVE  SagaSpec => []NoMixedNews
<1>1. SagaToldInv => NoMixedNews
  BY DEF SagaToldInv, ToldInv, NewsInv, NoMixedNews, KeptInv, JoinedInv, JoinTypeOK,
     Notification
<1>2. SagaToldInv /\ [SagaNext]_sagaVars => SagaToldInv'
  BY SagaToldStep
<1> QED
  BY <1>1, <1>2, SagaToldInit, PTL DEF SagaSpec

(* A call changes the status of a confirmed saga in its catch block only,  *)
(* and then it is the saga of its own request.                             *)
LEMMA CallTakesBack ==
    ASSUME ExecInv, [ExecNext]_vars, NEW r \in Requests,
           saga[r].status = "CONFIRMED", saga'[r].status # "CONFIRMED"
    PROVE  \E c \in Calls : RequestOf[c] = r /\ At(c, "error") /\ ~At(c, "error")'
<1>0. /\ saga \in [Requests -> SagaDocument]
      /\ call \in [Calls -> CallState]
      /\ Found(r)
  BY DEF ExecInv, TypeInv, ExecTypeOK, StoreTypeOK, Found
<1>1. ASSUME NEW c \in Calls, CreateDocument(c)
      PROVE  FALSE
  BY <1>0, <1>1 DEF CreateDocument, CreateSaga, Found
<1>2. ASSUME NEW c \in Calls, SaveError(c)
      PROVE  RequestOf[c] = r /\ At(c, "error") /\ ~At(c, "error")'
  <2>1. Id(c) = RequestOf[c]
    BY <1>2 DEF SaveError, At, Running, ExecInv, FieldInv
  <2>2. SetError(Id(c)) /\ GoTo(c, "metadata") /\ At(c, "error")
    BY <1>2 DEF SaveError
  <2>3. Id(c) = r
    BY <1>0, <2>2 DEF SetError
  <2> QED
    BY <1>0, <2>1, <2>2, <2>3 DEF GoTo, At, CallState
<1>3. ASSUME NEW c \in Calls, Step(c), ~CreateDocument(c), ~SaveError(c)
      PROVE  UNCHANGED saga
  BY <1>3 DEF Step, Start, CheckActive, AcquireLock, CheckRate, OpenWindow, CacheActive,
     Enqueue, Emit, CountStep, SaveErrorMetadata, ReleaseLock, ClearActive, storeVars
<1>4. Environment => UNCHANGED saga
  BY DEF Environment, ExpireLock, ExpireActive, Crash, ResetRate, storeVars
<1> QED
  BY <1>1, <1>2, <1>3, <1>4 DEF ExecNext, vars, storeVars

(* No handler does: one that ends in its catch block finds no number.      *)
LEMMA HandlerTakesNothingBack ==
    ASSUME "redis" \notin Faults, ToldInv, [JoinNext]_jvars, NEW r \in Requests,
           saga[r].status = "CONFIRMED"
    PROVE  saga'[r].status = "CONFIRMED"
<1>0. /\ saga \in [Requests -> SagaDocument]
      /\ JoinedInv
      /\ saga[r].bookingId # 0
  BY DEF ToldInv, KeptInv, JoinedInv, JoinTypeOK, StoreTypeOK, BookedOnlyWhenJoined
<1>1. ASSUME NEW d \in Deliveries, Save(d)
      PROVE  saga'[r].status = "CONFIRMED"
  <2>1. d[2] \in Requests
    BY DeliveryParts
  <2>2. CASE saga' = [saga EXCEPT ![d[2]] = WithReservation(@, d[1])]
    <3>1. /\ saga'[d[2]] = WithReservation(saga[d[2]], d[1])
          /\ \A q \in Requests \ {d[2]} : saga'[q] = saga[q]
      BY <1>0, <2>1, <2>2
    <3>2. saga'[d[2]].status = saga[d[2]].status
      BY <1>0, <2>1, <3>1 DEF WithReservation, SagaDocument
    <3> QED
      BY <3>1, <3>2
  <2> QED
    BY <1>1, <2>2 DEF Save, SaveConfirmedReservation
<1>2. ASSUME NEW d \in Deliveries, WriteConfirmed(d)
      PROVE  saga'[r].status = "CONFIRMED"
  BY <1>0, <1>2, DeliveryParts DEF WriteConfirmed, ConfirmSaga, SagaDocument
<1>3. ASSUME NEW d \in Deliveries, SaveAggregationError(d)
      PROVE  saga'[r].status = "CONFIRMED"
  <2>1. saga[d[2]].bookingId = 0
    BY <1>3 DEF SaveAggregationError, HandlerAt, ToldInv, NewsInv, Failing
  <2> QED
    BY <1>0, <1>3, <2>1 DEF SaveAggregationError, SetError
<1>4. ASSUME NEW d \in Deliveries, Save(d) \/ Handle(d) \/ LoseHandler(d),
             ~Save(d), ~WriteConfirmed(d), ~SaveAggregationError(d)
      PROVE  UNCHANGED saga
  BY <1>4 DEF Handle, CountConfirmed, ReadForAggregation, CountCompleted, Dequeue,
     CleanUp, SaveAggregationMetadata, NotifyConfirmed, NotifyFailed, LoseHandler,
     storeVars
<1> QED
  BY <1>1, <1>2, <1>3, <1>4 DEF JoinNext, jvars, storeVars

(* A confirmed booking is taken back by nobody but a call of execute for   *)
(* the same request that ends in its catch block.                          *)
THEOREM ConfirmedUnlessCallFailsHolds ==
    ASSUME OneRequestPerNode, Redelivered = {}, "redis" \notin Faults
    PROVE  SagaSpec => ConfirmedUnlessCallFails
<1>1. SagaInit => SagaInv /\ SagaToldInv
  BY SagaInvInit, SagaToldInit
<1>2. SagaInv /\ SagaToldInv /\ [SagaNext]_sagaVars => (SagaInv /\ SagaToldInv)'
  BY SagaInvStep, SagaToldStep
<1>3. SagaInv /\ SagaToldInv /\ [SagaNext]_sagaVars =>
          [\A r \in Requests :
               saga[r].status = "CONFIRMED" /\ saga'[r].status # "CONFIRMED" =>
                   \E c \in Calls :
                       RequestOf[c] = r /\ At(c, "error") /\ ~At(c, "error")']_sagaVars
  BY SagaSteps, CallTakesBack, HandlerTakesNothingBack DEF SagaInv, SagaToldInv
<1> QED
  BY <1>1, <1>2, <1>3, PTL DEF SagaSpec, ConfirmedUnlessCallFails
-----------------------------------------------------------------------------
(* While Redis answers and no node dies, the call that starts a window     *)
(* also sets its expiry: nobody is refused for longer than a window. The   *)
(* invariant needs no strengthening but the types.                         *)
LEMMA WindowStep ==
    ASSUME "redis" \notin Faults, "crash" \notin Faults, TypeInv, CounterHasWindow,
           [ExecNext]_vars
    PROVE  CounterHasWindow'
<1>0. rate \in [Users -> Nat] /\ call \in [Calls -> CallState]
  BY DEF TypeInv, ExecTypeOK
<1>1. ASSUME NEW c \in Calls, CheckRate(c)
      PROVE  CounterHasWindow'
  <2> DEFINE w == UserOf[c]
  <2>1. /\ w \in Users
        /\ rate' = [rate EXCEPT ![w] = @ + 1]
        /\ GoTo(c, IF rate'[w] = 1 THEN "window"
                   ELSE IF rate'[w] <= MaxPerMinute THEN "create" ELSE "error")
        /\ UNCHANGED expiring
        /\ call[c].at = "rate"
    BY <1>1 DEF CheckRate, Users, At
  <2>2. \A e \in Calls \ {c} : call'[e] = call[e]
    BY <1>0, <2>1 DEF GoTo
  <2> SUFFICES ASSUME NEW u \in Users, rate'[u] > 0
               PROVE  u \in expiring \/ \E e \in Calls : UserOf[e] = u /\ call'[e].at = "window"
    BY <2>1 DEF CounterHasWindow
  <2>3. CASE u = w /\ rate[w] = 0
    <3>1. rate'[w] = 1
      BY <1>0, <2>1, <2>3
    <3>2. call'[c].at = "window"
      BY <1>0, <2>1, <3>1 DEF GoTo, CallState
    <3> QED
      BY <2>3, <3>2
  <2>4. CASE u # w \/ rate[w] # 0
    <3>1. rate[u] > 0
      BY <1>0, <2>1, <2>4
    <3> QED
      BY <2>1, <2>2, <3>1 DEF CounterHasWindow
  <2> QED
    BY <2>3, <2>4
<1>2. ASSUME NEW c \in Calls, OpenWindow(c)
      PROVE  CounterHasWindow'
  <2>1. /\ expiring' = IF rate[UserOf[c]] > 0 THEN expiring \cup {UserOf[c]} ELSE expiring
        /\ UNCHANGED rate
        /\ \A e \in Calls \ {c} : call'[e] = call[e]
    BY <1>0, <1>2 DEF OpenWindow, GoTo
  <2> QED
    BY <2>1 DEF CounterHasWindow
<1>3. ASSUME NEW c \in Calls, Step(c), ~CheckRate(c), ~OpenWindow(c)
      PROVE  CounterHasWindow'
  <2>1. /\ UNCHANGED rateVars
        /\ call[c].at # "window"
        /\ \A e \in Calls \ {c} : call'[e] = call[e]
    BY <1>0, <1>3 DEF Step, Start, CheckActive, AcquireLock, CreateDocument, CacheActive,
       Enqueue, Emit, CountStep, SaveError, SaveErrorMetadata, ReleaseLock, ClearActive,
       GoTo, Finally, At
  <2> QED
    BY <2>1 DEF CounterHasWindow, rateVars
<1>4. CASE UNCHANGED <<rateVars, call>>
  BY <1>4 DEF CounterHasWindow, rateVars
<1>5. ASSUME NEW u \in Users, ResetRate(u)
      PROVE  CounterHasWindow'
  BY <1>0, <1>5 DEF ResetRate, CounterHasWindow
<1> QED
  BY <1>1, <1>2, <1>3, <1>4, <1>5 DEF ExecNext, Environment, Crash, execVars, vars

(* Every counter above zero will expire, or a call is about to see to it,  *)
(* whatever else fails: CheckRate and OpenWindow hand it over.             *)
THEOREM CounterHasWindowHolds ==
    ASSUME "redis" \notin Faults, "crash" \notin Faults
    PROVE  SagaSpec => []CounterHasWindow
<1>1. SagaInit => CounterHasWindow
  BY DEF SagaInit, Init, ExecInit, CounterHasWindow
<1>2. SagaTypeInv /\ CounterHasWindow /\ [SagaNext]_sagaVars => CounterHasWindow'
  <2> SUFFICES ASSUME SagaTypeInv, CounterHasWindow, [SagaNext]_sagaVars
               PROVE  CounterHasWindow'
    OBVIOUS
  <2>1. CASE [ExecNext]_vars
    BY <2>1, WindowStep DEF SagaTypeInv
  <2>2. CASE UNCHANGED execVars
    BY <2>2 DEF execVars, rateVars, CounterHasWindow
  <2> QED
    BY <2>1, <2>2, SagaSteps
<1> QED
  BY <1>1, <1>2, SagaTypeInvariance, PTL DEF SagaSpec
-----------------------------------------------------------------------------
(* What was stored for a request was asked for: a handler that has started *)
(* handles the confirmation of a service that was asked, and an id is only *)
(* stored for such a service. execute reserves before it publishes.        *)
AskedInv ==
    /\ \A d \in Deliveries : handler[d].at # "waiting" => requested[d[2]][d[1]] > 0
    /\ \A r \in Requests : \A s \in saga[r].ids : requested[r][s] > 0
    /\ \A r \in Requests, s \in Services : requested[r][s] <= made[r][s]

(* Publications are never taken back, and each follows a reservation.      *)
LEMMA ExecAsks ==
    ASSUME TypeInv, [ExecNext]_vars
    PROVE  \A r \in Requests, s \in Services :
               /\ requested'[r][s] >= requested[r][s]
               /\ requested[r][s] <= made[r][s] => requested'[r][s] <= made'[r][s]
<1>0. /\ requested \in [Requests -> [Services -> Nat]]
      /\ made \in [Requests -> [Services -> Nat]]
      /\ call \in [Calls -> CallState]
  BY DEF TypeInv, ExecTypeOK, StoreTypeOK
<1>1. ASSUME NEW c \in Calls, Emit(c)
      PROVE  \A r \in Requests, s \in Services :
                 /\ requested'[r][s] >= requested[r][s]
                 /\ requested[r][s] <= made[r][s] => requested'[r][s] <= made'[r][s]
  <2> DEFINE e == EmitOrder[call[c].k]
  <2>1. Id(c) \in Requests /\ call[c].k \in 1 .. 3
    BY <1>0, <1>1 DEF TypeInv, Emit, At, Running, CallState
  <2>2. e \in Services
    BY <2>1, EmitOrderLemma
  <2>3. /\ made' = [made EXCEPT ![Id(c)][e] = @ + 1]
        /\ \/ requested' = [requested EXCEPT ![Id(c)][e] = @ + 1]
           \/ requested' = requested
    BY <1>1 DEF Emit, MakeReservation
  <2> HIDE DEF e
  <2> TAKE r \in Requests, s \in Services
  <2>4. made[r][s] \in Nat /\ requested[r][s] \in Nat
    BY <1>0
  <2>5. CASE r = Id(c) /\ s = e
    BY <1>0, <2>1, <2>2, <2>3, <2>4, <2>5
  <2>6. CASE ~(r = Id(c) /\ s = e)
    BY <1>0, <2>1, <2>2, <2>3, <2>4, <2>6
  <2> QED
    BY <2>5, <2>6
<1>2. CASE UNCHANGED <<requested, made>>
  BY <1>0, <1>2
<1>3. ASSUME NEW c \in Calls, Step(c), ~Emit(c)
      PROVE  UNCHANGED <<requested, made>>
  BY <1>3 DEF Step, Start, CheckActive, AcquireLock, CheckRate, OpenWindow, CreateDocument,
     CacheActive, Enqueue, CountStep, SaveError, SaveErrorMetadata, ReleaseLock,
     ClearActive, storeVars
<1>4. CASE Environment
  BY <1>2, <1>4 DEF Environment, ExpireLock, ExpireActive, Crash, ResetRate, storeVars,
     execVars
<1> QED
  BY <1>1, <1>2, <1>3, <1>4 DEF ExecNext, vars, storeVars, execVars

LEMMA ExecKeepsAsked ==
    ASSUME SagaInv, AskedInv, [ExecNext]_vars, UNCHANGED joinVars
    PROVE  AskedInv'
<1>0. /\ TypeInv /\ StoreTypeOK /\ BlankInv
      /\ requested \in [Requests -> [Services -> Nat]]
      /\ requested' \in [Requests -> [Services -> Nat]]
      /\ UNCHANGED handler
  BY TypeStep DEF SagaInv, ExecInv, TypeInv, ExecTypeOK, StoreTypeOK, JoinedInv, joinVars
<1>1. \A r \in Requests, s \in Services : requested[r][s] > 0 => requested'[r][s] > 0
  <2> SUFFICES ASSUME NEW r \in Requests, NEW s \in Services, requested[r][s] > 0
               PROVE  requested'[r][s] > 0
    OBVIOUS
  <2>1. requested[r][s] \in Nat /\ requested'[r][s] \in Nat
        /\ requested'[r][s] >= requested[r][s]
    BY <1>0, ExecAsks
  <2> QED
    BY <2>1
<1>2. \A r \in Requests : saga'[r].ids = saga[r].ids /\ saga[r].ids \subseteq Services
  BY <1>0, ExecOnDocuments, DocumentStepKeeps DEF StoreTypeOK, SagaDocument
<1>3. \A d \in Deliveries : handler'[d].at # "waiting" => requested'[d[2]][d[1]] > 0
  BY <1>0, <1>1, DeliveryParts DEF AskedInv
<1>4. \A r \in Requests : \A s \in saga'[r].ids : requested'[r][s] > 0
  BY <1>1, <1>2 DEF AskedInv
<1>5. \A r \in Requests, s \in Services : requested'[r][s] <= made'[r][s]
  BY <1>0, ExecAsks DEF AskedInv
<1> QED
  BY <1>3, <1>4, <1>5 DEF AskedInv

(* A step of a handler moves that handler only, and if it is the first one *)
(* of that handler, the service was asked. Ids are stored by Save alone.   *)
LEMMA HandlerMoves ==
    ASSUME JoinedInv, NEW d \in Deliveries, Save(d) \/ Handle(d) \/ LoseHandler(d)
    PROVE  /\ \A e \in Deliveries \ {d} : handler'[e] = handler[e]
           /\ handler[d].at = "waiting" => requested[d[2]][d[1]] > 0
           /\ \A r \in Requests : \A s \in saga'[r].ids :
                  s \in saga[r].ids \/ (r = d[2] /\ s = d[1] /\ requested[r][s] > 0)
<1>0. /\ handler \in [Deliveries -> HandlerState]
      /\ saga \in [Requests -> SagaDocument]
      /\ d[2] \in Requests
  BY DeliveryParts DEF JoinedInv, JoinTypeOK, StoreTypeOK
<1>1. CASE Save(d)
  <2>1. requested[d[2]][d[1]] > 0 /\ \A e \in Deliveries \ {d} : handler'[e] = handler[e]
    BY <1>0, <1>1 DEF Save, HandlerGoTo
  <2>2. CASE UNCHANGED saga
    BY <2>1, <2>2
  <2>3. CASE saga' = [saga EXCEPT ![d[2]] = WithReservation(@, d[1])]
    <3>1. /\ saga'[d[2]] = WithReservation(saga[d[2]], d[1])
          /\ \A r \in Requests \ {d[2]} : saga'[r] = saga[r]
      BY <1>0, <2>3
    <3>2. saga'[d[2]].ids = saga[d[2]].ids \cup {d[1]}
      BY <1>0, <3>1 DEF WithReservation, SagaDocument
    <3> QED
      BY <2>1, <3>1, <3>2
  <2> QED
    BY <1>1, <2>2, <2>3 DEF Save, SaveConfirmedReservation
<1>2. CASE WriteConfirmed(d)
  <2>1. handler[d].at = "write" /\ \A e \in Deliveries \ {d} : handler'[e] = handler[e]
    BY <1>0, <1>2 DEF WriteConfirmed, HandlerAt, HandlerGoTo
  <2>2. \A r \in Requests : saga'[r].ids = saga[r].ids
    BY <1>0, <1>2 DEF WriteConfirmed, ConfirmSaga, SagaDocument
  <2> QED
    BY <2>1, <2>2
<1>3. CASE ReadForAggregation(d)
  BY <1>0, <1>3 DEF ReadForAggregation, storeVars, HandlerAt, HandlerGoTo, HandlerState
<1>4. CASE SaveAggregationError(d)
  BY <1>0, <1>4 DEF SaveAggregationError, SetError, HandlerAt, HandlerGoTo, SagaDocument
<1>5. CASE CountConfirmed(d) \/ CountCompleted(d) \/ Dequeue(d) \/ CleanUp(d)
           \/ SaveAggregationMetadata(d) \/ NotifyConfirmed(d) \/ NotifyFailed(d)
           \/ LoseHandler(d)
  <2>1. UNCHANGED saga
    BY <1>5 DEF CountConfirmed, CountCompleted, Dequeue, CleanUp, SaveAggregationMetadata,
       NotifyConfirmed, NotifyFailed, LoseHandler, storeVars
  <2>2. /\ handler[d].at # "waiting"
        /\ \A e \in Deliveries \ {d} : handler'[e] = handler[e]
    BY <1>0, <1>5 DEF CountConfirmed, CountCompleted, Dequeue, CleanUp,
       SaveAggregationMetadata, NotifyConfirmed, NotifyFailed, LoseHandler, Handling,
       HandlerAt, HandlerGoTo
  <2> QED
    BY <2>1, <2>2
<1> QED
  BY <1>1, <1>2, <1>3, <1>4, <1>5 DEF Handle

LEMMA JoinKeepsAsked ==
    ASSUME JoinedInv, AskedInv, [JoinNext]_jvars, UNCHANGED execVars
    PROVE  AskedInv'
<1>1. UNCHANGED <<requested, made>>
  BY JoinOnStore DEF execVars
<1>2. ASSUME NEW d \in Deliveries, Save(d) \/ Handle(d) \/ LoseHandler(d)
      PROVE  AskedInv'
  <2>1. \A e \in Deliveries : handler'[e].at # "waiting" => requested[e[2]][e[1]] > 0
    BY <1>2, HandlerMoves DEF AskedInv
  <2>2. \A r \in Requests : \A s \in saga'[r].ids : requested[r][s] > 0
    BY <1>2, HandlerMoves DEF AskedInv
  <2> QED
    BY <1>1, <2>1, <2>2 DEF AskedInv
<1>3. CASE UNCHANGED jvars
  BY <1>1, <1>3 DEF jvars, joinVars, storeVars, AskedInv
<1> QED
  BY <1>2, <1>3 DEF JoinNext

LEMMA AskedInvariance ==
    ASSUME OneRequestPerNode
    PROVE  SagaSpec => [](SagaInv /\ AskedInv)
<1>1. SagaInit => AskedInv
  <2> SUFFICES ASSUME SagaInit PROVE AskedInv
    OBVIOUS
  <2>1. /\ \A d \in Deliveries : handler[d].at = "waiting"
        /\ \A r \in Requests : saga[r].ids = {}
        /\ \A r \in Requests, s \in Services : requested[r][s] = 0 /\ made[r][s] = 0
    BY DEF SagaInit, Init, ExecInit, JoinInitVars, NoDocument
  <2> QED
    BY <2>1 DEF AskedInv
<1>2. SagaInv /\ AskedInv /\ [SagaNext]_sagaVars => (SagaInv /\ AskedInv)'
  BY SagaInvStep, SagaSteps, ExecKeepsAsked, JoinKeepsAsked DEF SagaInv
<1> QED
  BY <1>1, <1>2, SagaInvInit, PTL DEF SagaSpec

(* A booking rests on exactly one reservation at each service, however     *)
(* often the client called, on however many nodes, and whichever faults    *)
(* occur: locks that expire, calls and handlers that die, and publications *)
(* that are rejected are all covered.                                      *)
THEOREM BookedOnOneRequestEachHolds ==
    ASSUME OneRequestPerNode
    PROVE  SagaSpec => []BookedOnOneRequestEach
<1>1. SagaInv /\ AskedInv => BookedOnOneRequestEach
  <2> SUFFICES ASSUME SagaInv, AskedInv, NEW r \in Requests, saga[r].bookingId # 0,
                      NEW s \in Services
               PROVE  requested[r][s] = 1 /\ made[r][s] = 1
    BY DEF BookedOnOneRequestEach
  <2>1. saga[r].ids = Services
    BY DEF SagaInv, JoinedInv, BookedOnlyWhenJoined
  <2>2. /\ requested[r][s] > 0 /\ requested[r][s] <= made[r][s]
        /\ requested[r][s] <= 1 /\ made[r][s] <= 1
    BY <2>1 DEF AskedInv, SagaInv, ExecInv, RequestedOnce
  <2>3. requested[r][s] \in Nat /\ made[r][s] \in Nat
    BY DEF SagaInv, ExecInv, TypeInv, ExecTypeOK, StoreTypeOK
  <2> QED
    BY <2>2, <2>3
<1> QED
  BY <1>1, AskedInvariance, PTL
-----------------------------------------------------------------------------
(* While Redis answers, a request is out of the pending queue from the     *)
(* removal by its aggregating handler on: the entry is made by the owner   *)
(* of the saga before it asks the first service, and no handler starts     *)
(* before its service was asked.                                           *)
OutInv ==
    /\ \A d \in Deliveries :
           handler[d].at \in {"cleanup", "notify"} => d[2] \notin pendingQueue
    /\ \A m \in notified : m.status = "CONFIRMED" =>
           /\ m.request \notin pendingQueue
           /\ \E d \in Deliveries : d[2] = m.request /\ handler[d].at # "waiting"

LEMMA QueueSteps ==
    ASSUME [ExecNext]_vars, pendingQueue' # pendingQueue
    PROVE  \E c \in Calls : Enqueue(c)
<1>1. ASSUME NEW c \in Calls, Step(c), ~Enqueue(c)
      PROVE  UNCHANGED pendingQueue
  BY <1>1 DEF Step, Start, CheckActive, AcquireLock, CheckRate, OpenWindow, CreateDocument,
     CacheActive, Emit, CountStep, SaveError, SaveErrorMetadata, ReleaseLock, ClearActive,
     storeVars, redisVars
<1>2. ASSUME Environment
      PROVE  UNCHANGED pendingQueue
  BY <1>2 DEF Environment, ExpireLock, ExpireActive, Crash, ResetRate, storeVars
<1> QED
  BY <1>1, <1>2 DEF ExecNext, vars, storeVars

LEMMA EnqueueIsFirst ==
    ASSUME SagaInv, AskedInv, NEW c \in Calls, Enqueue(c)
    PROVE  /\ pendingQueue' \in {pendingQueue, pendingQueue \cup {RequestOf[c]}}
           /\ \A d \in Deliveries : handler[d].at # "waiting" => d[2] # RequestOf[c]
<1>1. Id(c) = RequestOf[c] /\ Owner(c) /\ call[c].at = "queue" /\ call[c].k = 1
  BY DEF Enqueue, At, Running, Owner, SagaInv, ExecInv, FieldInv, PositionInv
<1>2. \A s \in Services : requested[RequestOf[c]][s] = 0
  <2>1. \A j \in 1 .. 3 : ~Published(c, j)
    BY <1>1 DEF Published
  <2>2. \A j \in 1 .. 3 : requested[RequestOf[c]][EmitOrder[j]] = 0
    BY <1>1, <2>1 DEF SagaInv, ExecInv, PublishedInv
  <2> QED
    BY <2>2, EmitOrderLemma
<1>3. \A d \in Deliveries : handler[d].at # "waiting" => d[2] # RequestOf[c]
  BY <1>2, DeliveryParts DEF AskedInv
<1> QED
  BY <1>1, <1>3 DEF Enqueue, AddToPendingQueue, Write

LEMMA ExecKeepsOut ==
    ASSUME SagaInv, AskedInv, OutInv, [ExecNext]_vars, UNCHANGED joinVars
    PROVE  OutInv'
<1>0. UNCHANGED <<handler, notified>>
  BY DEF joinVars
<1>1. ASSUME NEW c \in Calls, Enqueue(c)
      PROVE  OutInv'
  <2>1. /\ pendingQueue' \subseteq pendingQueue \cup {RequestOf[c]}
        /\ \A d \in Deliveries : handler[d].at # "waiting" => d[2] # RequestOf[c]
    BY <1>1, EnqueueIsFirst
  <2>2. \A d \in Deliveries :
            handler[d].at \in {"cleanup", "notify"} => d[2] \notin pendingQueue'
    BY <2>1 DEF OutInv
  <2>3. \A m \in notified : m.status = "CONFIRMED" =>
            /\ m.request \notin pendingQueue'
            /\ \E d \in Deliveries : d[2] = m.request /\ handler[d].at # "waiting"
    BY <2>1 DEF OutInv
  <2> QED
    BY <1>0, <2>2, <2>3 DEF OutInv
<1>2. CASE UNCHANGED pendingQueue
  BY <1>0, <1>2 DEF OutInv
<1> QED
  BY <1>1, <1>2, QueueSteps

(* What a step of a handler does to the queue and tells the clients.       *)
LEMMA HandlerDequeues ==
    ASSUME "redis" \notin Faults, JoinedInv, NEW d \in Deliveries,
           Save(d) \/ Handle(d) \/ LoseHandler(d)
    PROVE  /\ \/ UNCHANGED pendingQueue
              \/ /\ handler[d].at \in {"dequeue", "cleanup"}
                 /\ pendingQueue' = pendingQueue \ {d[2]}
           /\ handler'[d].at # "waiting"
           /\ handler'[d].at = "cleanup" => pendingQueue' = pendingQueue \ {d[2]}
           /\ handler'[d].at = "notify" => pendingQueue' = pendingQueue \ {d[2]}
           /\ \A m \in notified' :
                  \/ m \in notified
                  \/ m.status # "CONFIRMED"
                  \/ m.request = d[2] /\ handler[d].at = "notify"
<1>0. handler \in [Deliveries -> HandlerState]
  BY DEF JoinedInv, JoinTypeOK
<1>1. CASE Save(d)
  BY <1>0, <1>1 DEF Save, redisVars, HandlerGoTo, HandlerState
<1>2. CASE CountConfirmed(d)
  BY <1>0, <1>2 DEF CountConfirmed, HandlerGoTo, HandlerState
<1>3. CASE ReadForAggregation(d)
  BY <1>0, <1>3 DEF ReadForAggregation, storeVars, HandlerGoTo, HandlerState
<1>4. CASE WriteConfirmed(d)
  BY <1>0, <1>4 DEF WriteConfirmed, redisVars, HandlerGoTo, HandlerState
<1>5. CASE CountCompleted(d)
  BY <1>0, <1>5 DEF CountCompleted, HandlerGoTo, HandlerState
<1>6. CASE Dequeue(d)
  BY <1>0, <1>6 DEF Dequeue, RemoveFromPendingQueue, Write, HandlerAt, HandlerGoTo,
     HandlerState
<1>7. CASE CleanUp(d)
  <2>1. pendingQueue' = pendingQueue \ {d[2]} /\ UNCHANGED notified
        /\ handler[d].at = "cleanup" /\ HandlerGoTo(d, "notify")
    BY <1>7 DEF CleanUp, Cleanup, RemoveFromPendingQueue, Write, HandlerAt
  <2> QED
    BY <1>0, <2>1 DEF HandlerGoTo, HandlerState
<1>8. CASE SaveAggregationError(d)
  BY <1>0, <1>8 DEF SaveAggregationError, redisVars, HandlerGoTo, HandlerState
<1>9. CASE SaveAggregationMetadata(d)
  BY <1>0, <1>9 DEF SaveAggregationMetadata, HandlerGoTo, HandlerState
<1>10. CASE NotifyConfirmed(d)
  BY <1>0, <1>10 DEF NotifyConfirmed, storeVars, HandlerAt, HandlerGoTo, HandlerState
<1>11. CASE NotifyFailed(d)
  BY <1>0, <1>11 DEF NotifyFailed, storeVars, HandlerGoTo, HandlerState
<1>12. CASE LoseHandler(d)
  BY <1>0, <1>12 DEF LoseHandler, storeVars, HandlerGoTo, HandlerState
<1> QED
  BY <1>1, <1>2, <1>3, <1>4, <1>5, <1>6, <1>7, <1>8, <1>9, <1>10, <1>11, <1>12 DEF Handle

LEMMA JoinKeepsOut ==
    ASSUME "redis" \notin Faults, JoinedInv, OutInv, [JoinNext]_jvars
    PROVE  OutInv'
<1>1. ASSUME NEW d \in Deliveries, Save(d) \/ Handle(d) \/ LoseHandler(d)
      PROVE  OutInv'
  <2>1. /\ pendingQueue' \subseteq pendingQueue
        /\ \A e \in Deliveries \ {d} : handler'[e] = handler[e]
        /\ handler'[d].at # "waiting"
        /\ handler'[d].at \in {"cleanup", "notify"} => d[2] \notin pendingQueue'
    BY <1>1, HandlerMoves, HandlerDequeues
  <2>2. \A e \in Deliveries :
            handler'[e].at \in {"cleanup", "notify"} => e[2] \notin pendingQueue'
    BY <2>1 DEF OutInv
  <2>3. ASSUME NEW m \in notified', m.status = "CONFIRMED"
        PROVE  /\ m.request \notin pendingQueue'
               /\ \E e \in Deliveries : e[2] = m.request /\ handler'[e].at # "waiting"
    <3>1. CASE m \in notified
      BY <2>1, <2>3, <3>1 DEF OutInv
    <3>2. CASE m.request = d[2] /\ handler[d].at = "notify"
      BY <2>1, <3>2 DEF OutInv
    <3> QED
      BY <1>1, <2>3, <3>1, <3>2, HandlerDequeues
  <2> QED
    BY <2>2, <2>3 DEF OutInv
<1>2. CASE UNCHANGED jvars
  BY <1>2 DEF jvars, joinVars, storeVars, OutInv
<1> QED
  BY <1>1, <1>2 DEF JoinNext

(* A client that was told of its booking has its request out of the        *)
(* pending queue for good: no monitor takes it for a stuck saga.           *)
THEOREM BookedNotQueuedHolds ==
    ASSUME OneRequestPerNode, "redis" \notin Faults
    PROVE  SagaSpec => []BookedNotQueued
<1>1. OutInv => BookedNotQueued
  BY DEF OutInv, BookedNotQueued
<1>2. SagaInit => OutInv
  BY DEF SagaInit, Init, JoinInitVars, OutInv
<1>3. SagaInv /\ AskedInv /\ OutInv /\ [SagaNext]_sagaVars => OutInv'
  BY SagaSteps, ExecKeepsOut, JoinKeepsOut DEF SagaInv
<1> QED
  BY <1>1, <1>2, <1>3, AskedInvariance, PTL DEF SagaSpec
-----------------------------------------------------------------------------
(* While Redis answers and no node dies, a pending saga is queued, or its  *)
(* creator is about to queue it. A handler dequeues only after it has      *)
(* stored the number, and from then on the saga is no longer pending.      *)
Settled(r) == saga[r].status \notin {"ABSENT", "PENDING"}

PendingInv ==
    /\ \A d \in Deliveries : handler[d].at \in Past => Settled(d[2])
    /\ PendingIsQueued

LEMMA ExecKeepsPending ==
    ASSUME "redis" \notin Faults, "crash" \notin Faults, SagaInv, PendingInv,
           [ExecNext]_vars, UNCHANGED joinVars
    PROVE  PendingInv'
<1>0. /\ TypeInv /\ StoreTypeOK /\ BlankInv /\ DocumentStep
      /\ call \in [Calls -> CallState]
      /\ saga \in [Requests -> SagaDocument]
      /\ UNCHANGED handler
  BY ExecOnDocuments DEF SagaInv, ExecInv, TypeInv, ExecTypeOK, StoreTypeOK, JoinedInv,
     joinVars
<1>1. \A r \in Requests : /\ Settled(r) => Settled(r)'
                          /\ saga'[r].status = "PENDING" =>
                                 saga[r].status = "PENDING" \/ ~Found(r)
  <2> TAKE r \in Requests
  <2>1. CASE Found(r) /\ saga'[r] = [saga[r] EXCEPT !.status = "FAILED"]
    BY <1>0, <2>1 DEF SagaDocument, Settled
  <2> QED
    BY <1>0, <2>1 DEF DocumentStep, Settled, Found
<1>2. \A d \in Deliveries : handler'[d].at \in Past => Settled(d[2])'
  BY <1>0, <1>1, DeliveryParts DEF PendingInv, Past
<1>3. ASSUME NEW c \in Calls, CreateDocument(c)
      PROVE  PendingIsQueued'
  <2>1. /\ UNCHANGED pendingQueue
        /\ call[c].at = "create"
        /\ \A e \in Calls \ {c} : call'[e] = call[e]
        /\ \/ UNCHANGED saga
           \/ /\ call'[c].at = "cache"
              /\ \A r \in Requests \ {RequestOf[c]} : saga'[r] = saga[r]
    <3>1. Id(c) = RequestOf[c]
      BY <1>3 DEF CreateDocument, At, Running, SagaInv, ExecInv, FieldInv
    <3> QED
      BY <1>0, <1>3, <3>1 DEF CreateDocument, CreateSaga, redisVars, At, GoTo, CallState
  <2> QED
    BY <2>1 DEF PendingInv, PendingIsQueued
<1>4. ASSUME NEW c \in Calls, CacheActive(c)
      PROVE  PendingIsQueued'
  <2>1. /\ UNCHANGED <<pendingQueue, saga>>
        /\ call'[c].at = "queue"
        /\ \A e \in Calls \ {c} : call'[e] = call[e]
    BY <1>0, <1>4 DEF CacheActive, GoTo, CallState
  <2> QED
    BY <2>1 DEF PendingInv, PendingIsQueued
<1>5. ASSUME NEW c \in Calls, Enqueue(c)
      PROVE  PendingIsQueued'
  <2>1. /\ pendingQueue' = pendingQueue \cup {RequestOf[c]}
        /\ UNCHANGED saga
        /\ \A e \in Calls \ {c} : call'[e] = call[e]
    <3>1. Id(c) = RequestOf[c]
      BY <1>5 DEF Enqueue, At, Running, SagaInv, ExecInv, FieldInv
    <3> QED
      BY <1>0, <1>5, <3>1 DEF Enqueue, AddToPendingQueue, Write, GoTo
  <2> QED
    BY <2>1 DEF PendingInv, PendingIsQueued
<1>6. ASSUME NEW c \in Calls, Step(c), ~CreateDocument(c), ~CacheActive(c), ~Enqueue(c)
      PROVE  PendingIsQueued'
  <2>1. /\ UNCHANGED pendingQueue
        /\ call[c].at \notin {"cache", "queue"}
        /\ \A e \in Calls \ {c} : call'[e] = call[e]
    BY <1>0, <1>6 DEF Step, Start, CheckActive, AcquireLock, CheckRate, OpenWindow, Emit,
       CountStep, SaveError, SaveErrorMetadata, ReleaseLock, ClearActive, storeVars,
       redisVars, GoTo, Finally, At
  <2>2. UNCHANGED saga \/ SaveError(c)
    BY <1>6 DEF Step, Start, CheckActive, AcquireLock, CheckRate, OpenWindow, Emit,
       CountStep, SaveErrorMetadata, ReleaseLock, ClearActive, storeVars
  <2>3. \A r \in Requests : saga'[r].status = "PENDING" => saga[r].status = "PENDING"
    <3>1. CASE UNCHANGED saga
      BY <3>1
    <3>2. CASE SaveError(c)
      BY <1>0, <3>2 DEF SaveError, SetError, SagaDocument
    <3> QED
      BY <2>2, <3>1, <3>2
  <2> QED
    BY <2>1, <2>3 DEF PendingInv, PendingIsQueued
<1>7. ASSUME UNCHANGED <<saga, pendingQueue, call>>
      PROVE  PendingIsQueued'
  BY <1>7 DEF PendingInv, PendingIsQueued
<1>8. ASSUME Environment
      PROVE  PendingIsQueued'
  BY <1>7, <1>8 DEF Environment, ExpireLock, ExpireActive, Crash, ResetRate, storeVars,
     execVars
<1>9. PendingIsQueued'
  BY <1>3, <1>4, <1>5, <1>6, <1>7, <1>8 DEF ExecNext, vars, storeVars, execVars
<1> QED
  BY <1>2, <1>9 DEF PendingInv

(* A handler makes no saga pending, and unsettles none.                    *)
LEMMA HandlerSettles ==
    ASSUME "redis" \notin Faults, JoinedInv, NEW d \in Deliveries,
           Save(d) \/ Handle(d) \/ LoseHandler(d)
    PROVE  /\ \A r \in Requests :
                  /\ Settled(r) => Settled(r)'
                  /\ saga'[r].status = "PENDING" => saga[r].status = "PENDING"
           /\ handler'[d].at \in Past => handler[d].at \in Past \/ Settled(d[2])'
<1>0. /\ handler \in [Deliveries -> HandlerState]
      /\ saga \in [Requests -> SagaDocument]
      /\ d[1] \in Services /\ d[2] \in Requests
  BY DeliveryParts DEF JoinedInv, JoinTypeOK, StoreTypeOK
<1>1. CASE Save(d)
  <2>1. handler'[d].at \in {"count", "failed"}
    <3>1. CASE HandlerGoTo(d, "failed")
      BY <1>0, <3>1 DEF HandlerGoTo, HandlerState
    <3>2. CASE handler' = [handler EXCEPT ![d].at = "count",
                                          ![d].seen = StepsAfterSave(d[1], d[2])]
      BY <1>0, <3>2 DEF HandlerState
    <3> QED
      BY <1>1, <3>1, <3>2 DEF Save
  <2>2. \A r \in Requests : saga'[r].status = saga[r].status
    <3>1. CASE UNCHANGED saga
      BY <3>1
    <3>2. CASE saga' = [saga EXCEPT ![d[2]] = WithReservation(@, d[1])]
      <4>1. /\ saga'[d[2]] = WithReservation(saga[d[2]], d[1])
            /\ \A r \in Requests \ {d[2]} : saga'[r] = saga[r]
        BY <1>0, <3>2
      <4>2. saga'[d[2]].status = saga[d[2]].status
        BY <1>0, <4>1 DEF WithReservation, SagaDocument
      <4> QED
        BY <4>1, <4>2
    <3> QED
      BY <1>1, <3>1, <3>2 DEF Save, SaveConfirmedReservation
  <2> QED
    BY <2>1, <2>2 DEF Settled, Past
<1>2. CASE WriteConfirmed(d)
  <2>1. Found(d[2])
    BY <1>2, DrawnIsFound, StoreStep DEF JoinedInv, NumberInv
  <2>2. CASE UNCHANGED saga /\ handler'[d].at = "error"
    BY <2>2 DEF Settled, Past
  <2>3. CASE saga' = [saga EXCEPT ![d[2]].bookingId = handler[d].booking,
                                  ![d[2]].status = "CONFIRMED",
                                  ![d[2]].steps = AllConfirmed \cup {"COMPLETED"}]
    BY <1>0, <2>3 DEF SagaDocument, Settled
  <2> QED
    BY <1>2, <2>1, <2>2, <2>3, StoreStep
<1>3. CASE SaveAggregationError(d)
  <2>1. handler'[d].at \in {"metadata", "failed"}
    BY <1>0, <1>3 DEF SaveAggregationError, HandlerGoTo, HandlerState
  <2>2. \A r \in Requests : /\ Settled(r) => Settled(r)'
                            /\ saga'[r].status = "PENDING" => saga[r].status = "PENDING"
    BY <1>0, <1>3 DEF SaveAggregationError, SetError, SagaDocument, Settled
  <2> QED
    BY <2>1, <2>2 DEF Past
<1>4. ASSUME ~Save(d), ~WriteConfirmed(d), ~SaveAggregationError(d)
      PROVE  UNCHANGED saga /\ (handler'[d].at \in Past => handler[d].at \in Past)
  <2>1. UNCHANGED saga
    BY <1>4 DEF Handle, CountConfirmed, ReadForAggregation, CountCompleted, Dequeue,
       CleanUp, SaveAggregationMetadata, NotifyConfirmed, NotifyFailed, LoseHandler,
       storeVars
  <2>2. handler'[d].at \in Past => handler[d].at \in Past
    BY <1>0, <1>4 DEF Handle, CountConfirmed, ReadForAggregation, CountCompleted, Dequeue,
       CleanUp, SaveAggregationMetadata, NotifyConfirmed, NotifyFailed, LoseHandler,
       HandlerAt, HandlerGoTo, HandlerState, Past
  <2> QED
    BY <2>1, <2>2
<1> QED
  BY <1>1, <1>2, <1>3, <1>4 DEF Settled

LEMMA JoinKeepsPending ==
    ASSUME "redis" \notin Faults, JoinedInv, PendingInv, [JoinNext]_jvars,
           UNCHANGED execVars
    PROVE  PendingInv'
<1>1. ASSUME NEW d \in Deliveries, Save(d) \/ Handle(d) \/ LoseHandler(d)
      PROVE  PendingInv'
  <2>1. d[2] \in Requests
    BY DeliveryParts
  <2>2. /\ \A e \in Deliveries \ {d} : handler'[e] = handler[e]
        /\ \A r \in Requests :
               /\ Settled(r) => Settled(r)'
               /\ saga'[r].status = "PENDING" => saga[r].status = "PENDING"
        /\ handler'[d].at \in Past => handler[d].at \in Past \/ Settled(d[2])'
    BY <1>1, HandlerMoves, HandlerSettles
  <2>3. ASSUME NEW e \in Deliveries, handler'[e].at \in Past
        PROVE  Settled(e[2])'
    BY <2>1, <2>2, <2>3, DeliveryParts DEF PendingInv
  <2>4. \/ UNCHANGED pendingQueue
        \/ Settled(d[2]) /\ pendingQueue' = pendingQueue \ {d[2]}
    BY <1>1, HandlerDequeues DEF PendingInv, Past
  <2>5. PendingIsQueued'
    BY <2>1, <2>2, <2>4 DEF PendingInv, PendingIsQueued, Settled, execVars
  <2> QED
    BY <2>3, <2>5 DEF PendingInv, Past
<1>2. CASE UNCHANGED jvars
  BY <1>2 DEF jvars, joinVars, storeVars, execVars, PendingInv, PendingIsQueued, Settled,
     Past
<1> QED
  BY <1>1, <1>2 DEF JoinNext

(* A pending saga whose creator is past addToPendingQueue is in the queue, *)
(* where a monitor can find it, also while handlers take sagas out of it.  *)
THEOREM PendingIsQueuedHolds ==
    ASSUME OneRequestPerNode, "redis" \notin Faults, "crash" \notin Faults
    PROVE  SagaSpec => []PendingIsQueued
<1>1. PendingInv => PendingIsQueued
  BY DEF PendingInv
<1>2. SagaInit => PendingInv
  BY DEF SagaInit, Init, JoinInitVars, PendingInv, PendingIsQueued, NoDocument, Past
<1>3. SagaInv /\ PendingInv /\ [SagaNext]_sagaVars => PendingInv'
  BY SagaSteps, ExecKeepsPending, JoinKeepsPending DEF SagaInv
<1> QED
  BY <1>1, <1>2, <1>3, AskedInvariance, PTL DEF SagaSpec
-----------------------------------------------------------------------------
(* While Redis answers and no node dies, every lock and every cached state *)
(* has a call on its way to removing it.                                   *)
Holding(c) ==
    /\ call[c].locked
    /\ call[c].at \in {"rate", "window", "create", "cache", "queue", "emit", "count",
                       "error", "metadata", "release"}

Caching(c) ==
    call[c].at \in {"queue", "emit", "count", "error", "metadata", "release", "clear"}

HeldInv ==
    /\ \A r \in locks : \E c \in Calls : RequestOf[c] = r /\ Holding(c)
    /\ \A r \in activeSagas : \E c \in Calls : RequestOf[c] = r /\ Caching(c)

(* A step of c that leaves keys behind only while c still has to remove    *)
(* them.                                                                   *)
HeldStep(c) ==
    /\ \A e \in Calls \ {c} : call'[e] = call[e]
    /\ \/ locks' \subseteq locks /\ (Holding(c) => Holding(c)')
       \/ locks' \subseteq locks \cup {RequestOf[c]} /\ Holding(c)'
       \/ locks' \subseteq locks \ {RequestOf[c]}
    /\ \/ activeSagas' \subseteq activeSagas /\ (Caching(c) => Caching(c)')
       \/ activeSagas' \subseteq activeSagas \cup {RequestOf[c]} /\ Caching(c)'
       \/ activeSagas' \subseteq activeSagas \ {RequestOf[c]}

LEMMA HeldStepKeeps ==
    ASSUME HeldInv, NEW c \in Calls, HeldStep(c)
    PROVE  HeldInv'
<1>1. \A e \in Calls \ {c} : Holding(e)' = Holding(e) /\ Caching(e)' = Caching(e)
  BY DEF HeldStep, Holding, Caching
<1>2. \A r \in locks' : \E e \in Calls : RequestOf[e] = r /\ Holding(e)'
  BY <1>1 DEF HeldInv, HeldStep
<1>3. \A r \in activeSagas' : \E e \in Calls : RequestOf[e] = r /\ Caching(e)'
  BY <1>1 DEF HeldInv, HeldStep
<1> QED
  BY <1>2, <1>3 DEF HeldInv

LEMMA HeldSteps ==
    ASSUME "redis" \notin Faults, SagaInv, NEW c \in Calls, Step(c)
    PROVE  HeldStep(c)
<1>0. /\ call \in [Calls -> CallState]
      /\ Running(c) => Id(c) = RequestOf[c]
  BY DEF SagaInv, ExecInv, TypeInv, ExecTypeOK, FieldInv
<1> USE <1>0 DEF HeldStep, Holding, Caching, CallState, At, GoTo, Finally
<1>1. CASE Start(c)
  BY <1>1 DEF Start, storeVars
<1>2. CASE CheckActive(c)
  BY <1>2 DEF CheckActive, storeVars
<1>3. CASE AcquireLock(c)
  BY <1>3 DEF AcquireLock, Running
<1>4. CASE CheckRate(c)
  BY <1>4 DEF CheckRate, storeVars
<1>5. CASE OpenWindow(c)
  BY <1>5 DEF OpenWindow, storeVars
<1>6. CASE CreateDocument(c)
  BY <1>6 DEF CreateDocument, redisVars
<1>7. CASE CacheActive(c)
  BY <1>7 DEF CacheActive, SetActiveSagaState, Write, Running
<1>8. CASE Enqueue(c)
  BY <1>8 DEF Enqueue
<1>9. CASE Emit(c)
  BY <1>9 DEF Emit, redisVars
<1>10. CASE CountStep(c)
  BY <1>10 DEF CountStep
<1>11. CASE SaveError(c)
  BY <1>11 DEF SaveError, redisVars
<1>12. CASE SaveErrorMetadata(c)
  BY <1>12 DEF SaveErrorMetadata
<1>13. CASE ReleaseLock(c)
  BY <1>13 DEF ReleaseLock, ReleaseSagaLock, Write, Running
<1>14. CASE ClearActive(c)
  BY <1>14 DEF ClearActive, ClearActiveSagaState, Write, Running
<1> QED
  BY <1>1, <1>2, <1>3, <1>4, <1>5, <1>6, <1>7, <1>8, <1>9, <1>10, <1>11, <1>12, <1>13,
     <1>14 DEF Step

LEMMA HeldInvStep ==
    ASSUME "redis" \notin Faults, "crash" \notin Faults, SagaInv, HeldInv,
           [SagaNext]_sagaVars
    PROVE  HeldInv'
<1>1. ASSUME NEW c \in Calls, Step(c)
      PROVE  HeldInv'
  BY <1>1, HeldSteps, HeldStepKeeps
<1>2. ASSUME UNCHANGED call, locks' \subseteq locks, activeSagas' \subseteq activeSagas
      PROVE  HeldInv'
  <2>1. \A c \in Calls : Holding(c)' = Holding(c) /\ Caching(c)' = Caching(c)
    BY <1>2 DEF Holding, Caching
  <2> QED
    BY <1>2, <2>1 DEF HeldInv
<1>3. CASE Environment
  BY <1>2, <1>3 DEF Environment, ExpireLock, ExpireActive, Crash, ResetRate, storeVars,
     execVars
<1>4. CASE [ExecNext]_vars
  BY <1>1, <1>2, <1>3, <1>4 DEF ExecNext, vars, storeVars, execVars
<1>5. CASE [JoinNext]_jvars /\ UNCHANGED execVars
  BY <1>2, <1>5, JoinOnlyUnlocks DEF execVars
<1> QED
  BY <1>4, <1>5, SagaSteps

(* Once nothing runs, no lock and no cached state is left to refuse the    *)
(* next call for the same request: the finally block of every call runs,   *)
(* whichever way the call ends.                                            *)
THEOREM QuietIsUnlockedHolds ==
    ASSUME OneRequestPerNode, "redis" \notin Faults, "crash" \notin Faults
    PROVE  SagaSpec => []QuietIsUnlocked
<1>1. HeldInv => QuietIsUnlocked
  BY DEF HeldInv, Holding, Caching, QuietIsUnlocked, Quiet, Running
<1>2. SagaInit => HeldInv
  BY DEF SagaInit, Init, HeldInv
<1>3. SagaInv /\ HeldInv /\ [SagaNext]_sagaVars => HeldInv'
  BY HeldInvStep
<1> QED
  BY <1>1, <1>2, <1>3, AskedInvariance, PTL DEF SagaSpec
=============================================================================
