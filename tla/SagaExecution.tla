--------------------------- MODULE SagaExecution ---------------------------
(***************************************************************************)
(* TravelBookingSaga.execute: what every call to book a trip does between  *)
(* its check for duplicates and its answer. One action is the code from    *)
(* one await to the next, with the remote operation it awaits. The saga is *)
(* a singleton in each node (process), and all its calls read the request  *)
(* id from the same field: field[n] is this.requestId.                     *)
(***************************************************************************)
EXTENDS SagaState, Sequences

CONSTANTS
    Calls,          \* calls of execute, each with its own
    RequestOf,      \*   request.requestId (or the random id that stands for it),
    NodeOf,         \*   process that serves it,
    UserOf,         \*   and request.userId
    NoRequest,      \* this.requestId before the first call
    MaxPerMinute    \* bookings allowed to a user in a rate window

Nodes == {NodeOf[c] : c \in Calls}
Users == {UserOf[c] : c \in Calls}

ASSUME CallsAssumption ==
    /\ RequestOf \in [Calls -> Requests]
    /\ DOMAIN NodeOf = Calls
    /\ DOMAIN UserOf = Calls
    /\ NoRequest \notin Requests
    /\ MaxPerMinute \in Nat

VARIABLES
    field,      \* field[n]: requestId of the saga singleton of node n
    call,       \* call[c]: where the call is and what its locals hold
    rate,       \* rate[u]: the rate limit counter of user u
    expiring,   \* users whose counter has a time to live
    made        \* made[r][s]: reservations that makeReservation of s made for r

rateVars == <<rate, expiring>>
execVars == <<field, call, rateVars, made>>
vars == <<storeVars, execVars>>

(* The order in which execute asks the services to reserve. *)
EmitOrder == <<"hotel", "flight", "car">>

Points == {"idle", "active", "lock", "rate", "window", "create", "cache", "queue", "emit",
           "count", "error", "metadata", "release", "clear", "done", "crashed"}

(* reply: the status that the call returns (THROWN: the promise rejects). *)
Replies == {"none", "PENDING", "CONFIRMED", "FAILED", "THROWN"}

CallState == [at : Points, k : 1 .. 3, locked : BOOLEAN, reply : Replies]

ExecTypeOK ==
    /\ StoreTypeOK
    /\ field \in [Nodes -> Requests \cup {NoRequest}]
    /\ call \in [Calls -> CallState]
    /\ rate \in [Users -> Nat]
    /\ expiring \subseteq Users
    /\ made \in [Requests -> [Services -> Nat]]

ExecInit ==
    /\ field = [n \in Nodes |-> NoRequest]
    /\ call = [c \in Calls |-> [at |-> "idle", k |-> 1, locked |-> FALSE,
                                reply |-> "none"]]
    /\ rate = [u \in Users |-> 0]
    /\ expiring = {}
    /\ made = [r \in Requests |-> [s \in Services |-> 0]]

Init ==
    /\ ExecInit
    /\ saga = [r \in Requests |-> NoDocument(r)]
    /\ locks = {}
    /\ activeSagas = {}
    /\ progress = {}
    /\ pendingQueue = {}
    /\ metadata = {}
    /\ requested = [r \in Requests |-> [s \in Services |-> 0]]
-----------------------------------------------------------------------------
(* this.requestId, as the call sees it when it resumes. *)
Id(c) == field[NodeOf[c]]

At(c, point) == call[c].at = point
GoTo(c, point) == call' = [call EXCEPT ![c].at = point]

(* finally: release the lock only if this call acquired one, then always   *)
(* clear the cached state.                                                 *)
Finally(c, reply) ==
    call' = [call EXCEPT ![c].at = IF call[c].locked THEN "release" ELSE "clear",
                         ![c].reply = reply]

(* Steps 1 and 2: set the field, then look for a document with this id. A  *)
(* duplicate is answered with the status of the saga that is there.        *)
Start(c) ==
    /\ At(c, "idle")
    /\ field' = [field EXCEPT ![NodeOf[c]] = RequestOf[c]]
    /\ \/ Found(RequestOf[c]) /\ Finally(c, saga[RequestOf[c]].status)
       \/ ~Found(RequestOf[c]) /\ GoTo(c, "active")
       \/ "mongo" \in Faults /\ GoTo(c, "error")
    /\ UNCHANGED <<storeVars, rateVars, made>>

(* Step 3: is a saga with this id cached as active? Then its status is     *)
(* returned, and only PENDING is ever cached. An error is a miss.          *)
CheckActive(c) ==
    /\ At(c, "active")
    /\ \/ Id(c) \in activeSagas /\ Finally(c, "PENDING")
       \/ (Id(c) \notin activeSagas \/ "redis" \in Faults) /\ GoTo(c, "lock")
    /\ UNCHANGED <<storeVars, field, rateVars, made>>

\* Mutant: a refused call asks for the lock again instead of returning.
AcquireLockRetrying(c) ==
    /\ At(c, "lock")
    /\ \/ /\ Id(c) \notin locks
          /\ locks' = locks \cup {Id(c)}
          /\ call' = [call EXCEPT ![c].at = "rate", ![c].locked = TRUE]
       \/ /\ "redis" \in Faults
          /\ locks' \in {locks, locks \cup {Id(c)}}
          /\ UNCHANGED call
    /\ UNCHANGED <<saga, activeSagas, progress, pendingQueue, metadata, requested,
                   field, rateVars, made>>

(* Step 4: SET NX. An error counts as a refusal, even if the key was set. *)
AcquireLock(c) ==
    /\ At(c, "lock")
    /\ \/ /\ Id(c) \notin locks
          /\ locks' = locks \cup {Id(c)}
          /\ call' = [call EXCEPT ![c].at = "rate", ![c].locked = TRUE]
       \/ /\ Id(c) \in locks
          /\ Finally(c, "FAILED")
          /\ UNCHANGED locks
       \/ /\ "redis" \in Faults
          /\ locks' \in {locks, locks \cup {Id(c)}}
          /\ Finally(c, "FAILED")
    /\ UNCHANGED <<saga, activeSagas, progress, pendingQueue, metadata, requested,
                   field, rateVars, made>>

(* Step 5: INCR counts the call against its user. The call that starts a   *)
(* window sets the counter's expiry next; an error lets the call through.  *)
CheckRate(c) ==
    /\ At(c, "rate")
    /\ \/ /\ rate' = [rate EXCEPT ![UserOf[c]] = @ + 1]
          /\ GoTo(c, IF rate'[UserOf[c]] = 1 THEN "window"
                     ELSE IF rate'[UserOf[c]] <= MaxPerMinute THEN "create" ELSE "error")
       \/ /\ "redis" \in Faults
          /\ rate' \in {rate, [rate EXCEPT ![UserOf[c]] = @ + 1]}
          /\ GoTo(c, "create")
    /\ UNCHANGED <<storeVars, field, expiring, made>>

\* Mutant: the window is opened only by a call that is over the limit.
OpenWindowWhenOver(c) ==
    /\ At(c, "window")
    /\ expiring' = IF rate[UserOf[c]] > MaxPerMinute THEN expiring \cup {UserOf[c]}
                   ELSE expiring
    /\ GoTo(c, IF 1 <= MaxPerMinute THEN "create" ELSE "error")
    /\ UNCHANGED <<storeVars, field, rate, made>>

(* Step 5: EXPIRE opens the window of 60 seconds. The local that is        *)
(* compared with the limit still holds 1.                                  *)
OpenWindow(c) ==
    /\ At(c, "window")
    /\ \/ /\ expiring' = IF rate[UserOf[c]] > 0 THEN expiring \cup {UserOf[c]}
                         ELSE expiring
          /\ GoTo(c, IF 1 <= MaxPerMinute THEN "create" ELSE "error")
       \/ "redis" \in Faults /\ GoTo(c, "create") /\ UNCHANGED expiring
    /\ UNCHANGED <<storeVars, field, rate, made>>

(* Step 6: insert the document. An existing id (unique index) or a failing *)
(* MongoDB throws.                                                         *)
CreateDocument(c) ==
    /\ At(c, "create")
    /\ \/ CreateSaga(Id(c), RequestOf[c]) /\ GoTo(c, "cache")
       \/ (Found(Id(c)) \/ "mongo" \in Faults) /\ GoTo(c, "error") /\ UNCHANGED saga
    /\ UNCHANGED <<redisVars, requested, field, rateVars, made>>

\* Mutant: the queue is skipped.
CacheActiveOnly(c) ==
    /\ At(c, "cache")
    /\ SetActiveSagaState(Id(c))
    /\ GoTo(c, "emit")
    /\ UNCHANGED <<saga, locks, progress, pendingQueue, metadata, requested,
                   field, rateVars, made>>

(* Step 7: cache the in-active state. *)
CacheActive(c) ==
    /\ At(c, "cache")
    /\ SetActiveSagaState(Id(c))
    /\ GoTo(c, "queue")
    /\ UNCHANGED <<saga, locks, progress, pendingQueue, metadata, requested,
                   field, rateVars, made>>

(* Step 8: add the id to the pending queue. *)
Enqueue(c) ==
    /\ At(c, "queue")
    /\ AddToPendingQueue(Id(c))
    /\ GoTo(c, "emit")
    /\ UNCHANGED <<saga, locks, activeSagas, progress, metadata, requested,
                   field, rateVars, made>>

(* reserveHotel, reserveFlight, reserveCar: the service enters a           *)
(* reservation into its own map, under an id that nobody keeps.            *)
MakeReservation(r, s) == made' = [made EXCEPT ![r][s] = @ + 1]

\* Mutant: a rejected publication is taken for a published one.
EmitIgnoringErrors(c) ==
    /\ At(c, "emit")
    /\ \E published \in {TRUE} \cup (IF "broker" \in Faults THEN {FALSE} ELSE {}) :
          requested' = IF published
                       THEN [requested EXCEPT ![Id(c)][EmitOrder[call[c].k]] = @ + 1]
                       ELSE requested
    /\ GoTo(c, "count")
    /\ MakeReservation(Id(c), EmitOrder[call[c].k])
    /\ UNCHANGED <<saga, redisVars, field, rateVars>>

\* Mutant: a rejected publication is tried again.
EmitRetrying(c) ==
    /\ At(c, "emit")
    /\ \E published, rejected \in BOOLEAN :
          /\ published \/ rejected
          /\ rejected => "broker" \in Faults
          /\ requested' = IF published
                          THEN [requested EXCEPT ![Id(c)][EmitOrder[call[c].k]] = @ + 1]
                          ELSE requested
          /\ GoTo(c, IF ~rejected THEN "count"
                     ELSE IF made[Id(c)][EmitOrder[call[c].k]] = 0 THEN "emit" ELSE "error")
    /\ MakeReservation(Id(c), EmitOrder[call[c].k])
    /\ UNCHANGED <<saga, redisVars, field, rateVars>>

(* Steps 9 to 11: have the service make a reservation, and publish the     *)
(* request with its promise as the payload. When the broker rejects the    *)
(* publication, the request may or may not have reached it.                *)
Emit(c) ==
    /\ At(c, "emit")
    /\ \E published, rejected \in BOOLEAN :
          /\ published \/ rejected
          /\ rejected => "broker" \in Faults
          /\ requested' = IF published
                          THEN [requested EXCEPT ![Id(c)][EmitOrder[call[c].k]] = @ + 1]
                          ELSE requested
          /\ GoTo(c, IF rejected THEN "error" ELSE "count")
    /\ MakeReservation(Id(c), EmitOrder[call[c].k])
    /\ UNCHANGED <<saga, redisVars, field, rateVars>>

\* Mutant: the loop over the services runs once too often.
CountStepOnceMore(c) ==
    /\ At(c, "count")
    /\ IncrementStepCounter(Id(c))
    /\ IF call[c].k <= 3
       THEN call' = [call EXCEPT ![c].at = "emit", ![c].k = @ + 1]
       ELSE Finally(c, "PENDING")
    /\ UNCHANGED <<saga, locks, activeSagas, pendingQueue, metadata, requested,
                   field, rateVars, made>>

\* Mutant: the queue entry is refreshed once all requests are out.
CountStepRequeue(c) ==
    /\ At(c, "count")
    /\ IncrementStepCounter(Id(c))
    /\ IF call[c].k < 3
       THEN /\ call' = [call EXCEPT ![c].at = "emit", ![c].k = @ + 1]
            /\ UNCHANGED pendingQueue
       ELSE /\ Finally(c, "PENDING")
            /\ AddToPendingQueue(Id(c))
    /\ UNCHANGED <<saga, locks, activeSagas, metadata, requested,
                   field, rateVars, made>>

(* Steps 9 to 11: count the step; after the third, the call is accepted. *)
CountStep(c) ==
    /\ At(c, "count")
    /\ IncrementStepCounter(Id(c))
    /\ IF call[c].k < 3
       THEN call' = [call EXCEPT ![c].at = "emit", ![c].k = @ + 1]
       ELSE Finally(c, "PENDING")
    /\ UNCHANGED <<saga, locks, activeSagas, pendingQueue, metadata, requested,
                   field, rateVars, made>>

(* Step 12: mark the document failed. If that fails too, catch itself      *)
(* throws, and finally still runs.                                         *)
SaveError(c) ==
    /\ At(c, "error")
    /\ \/ SetError(Id(c)) /\ GoTo(c, "metadata")
       \/ "mongo" \in Faults /\ Finally(c, "THROWN") /\ UNCHANGED saga
    /\ UNCHANGED <<redisVars, requested, field, rateVars, made>>

(* Step 13: keep the error as metadata. *)
SaveErrorMetadata(c) ==
    /\ At(c, "metadata")
    /\ SetSagaMetadata(Id(c))
    /\ Finally(c, "FAILED")
    /\ UNCHANGED <<saga, locks, activeSagas, progress, pendingQueue, requested,
                   field, rateVars, made>>

\* Mutant: the lock is left to its expiry.
ReleaseLockNever(c) ==
    /\ At(c, "release")
    /\ GoTo(c, "clear")
    /\ UNCHANGED <<storeVars, field, rateVars, made>>

(* Step 14: DEL of the lock key, whoever holds it by now. *)
ReleaseLock(c) ==
    /\ At(c, "release")
    /\ ReleaseSagaLock(Id(c))
    /\ GoTo(c, "clear")
    /\ UNCHANGED <<saga, activeSagas, progress, pendingQueue, metadata, requested,
                   field, rateVars, made>>

(* Step 15: clear the cached state and return. *)
ClearActive(c) ==
    /\ At(c, "clear")
    /\ ClearActiveSagaState(Id(c))
    /\ GoTo(c, "done")
    /\ UNCHANGED <<saga, locks, progress, pendingQueue, metadata, requested,
                   field, rateVars, made>>

Step(c) ==
    \/ Start(c) \/ CheckActive(c) \/ AcquireLock(c) \/ CheckRate(c) \/ OpenWindow(c)
    \/ CreateDocument(c) \/ CacheActive(c) \/ Enqueue(c) \/ Emit(c) \/ CountStep(c)
    \/ SaveError(c) \/ SaveErrorMetadata(c) \/ ReleaseLock(c) \/ ClearActive(c)
-----------------------------------------------------------------------------
Running(c) == call[c].at \notin {"idle", "done", "crashed"}

(* A node dies with the calls it runs: an out of memory kill, a deploy.    *)
Crash(n) ==
    /\ "crash" \in Faults
    /\ \E c \in Calls : NodeOf[c] = n /\ Running(c)
    /\ field' = [field EXCEPT ![n] = NoRequest]
    /\ call' = [c \in Calls |-> IF NodeOf[c] = n /\ Running(c)
                                THEN [call[c] EXCEPT !.at = "crashed"]
                                ELSE call[c]]
    /\ UNCHANGED <<storeVars, rateVars, made>>

(* The window ends: Redis drops the counter with its time to live.         *)
ResetRate(u) ==
    /\ u \in expiring
    /\ rate' = [rate EXCEPT ![u] = 0]
    /\ expiring' = expiring \ {u}
    /\ UNCHANGED <<storeVars, field, call, made>>

Environment ==
    \/ \E r \in Requests : (ExpireLock(r) \/ ExpireActive(r)) /\ UNCHANGED execVars
    \/ \E n \in Nodes : Crash(n)
    \/ \E u \in Users : ResetRate(u)

ExecNext == (\E c \in Calls : Step(c)) \/ Environment

ExecSpec == Init /\ [][ExecNext]_vars

(* The event loop resumes every call that runs. *)
ExecFairness == \A c \in Calls : WF_vars(Running(c) /\ Step(c))

ExecFairSpec == ExecSpec /\ ExecFairness
-----------------------------------------------------------------------------
(* Properties. Most of them need the calls of a node to be for one request *)
(* id: they share the singleton's field.                                   *)

OneRequestPerNode ==
    \A c, d \in Calls : NodeOf[c] = NodeOf[d] => RequestOf[c] = RequestOf[d]

(* However many calls, on however many nodes, carry the same request id,   *)
(* execute reserves at each service, and publishes it, at most once.       *)
RequestedOnce ==
    \A r \in Requests, s \in Services : requested[r][s] <= 1 /\ made[r][s] <= 1

(* d got the lock of its request, and its publications need not all be     *)
(* out: it is still at work, died at it, or ended in an error.             *)
CutShort(d) ==
    /\ call[d].locked
    /\ \/ call[d].at \in {"cache", "queue", "emit", "count", "error", "metadata", "crashed"}
       \/ call[d].reply \in {"FAILED", "THROWN"}

(* PENDING means that the saga is stored and that all three services were  *)
(* asked, unless it is the answer to a duplicate: execute repeats the      *)
(* status of the saga it finds, and that saga's own call may be cut short. *)
PendingIsPublished ==
    \A c \in Calls : call[c].reply = "PENDING" =>
        /\ Found(RequestOf[c])
        /\ \/ \A s \in Services : requested[RequestOf[c]][s] > 0
           \/ /\ ~call[c].locked
              /\ \E d \in Calls : RequestOf[d] = RequestOf[c] /\ CutShort(d)

(* The saga stored under a request id is the booking that was asked for    *)
(* under that id (this.requestId: "Scope: ONE per saga execution").        *)
SagaIsItsRequest == \A r \in Requests : saga[r].origin = r

(* A pending saga whose creator is past addToPendingQueue is in the        *)
(* pending queue, where a monitor can find it when it gets stuck.          *)
PendingIsQueued ==
    \A r \in Requests :
        saga[r].status = "PENDING" =>
            \/ r \in pendingQueue
            \/ \E c \in Calls : RequestOf[c] = r /\ call[c].at \in {"cache", "queue"}

(* A booking that was answered PENDING stays alive: a duplicate that loses *)
(* the race for the document must not fail the saga of the call that won.  *)
AcceptedNotFailed ==
    \A c \in Calls :
        call[c].reply = "PENDING" => saga[RequestOf[c]].status # "FAILED"

(* A call that ends in an error after it reserved at a service has undone  *)
(* it: "If any step fails, compensating transactions are executed in       *)
(* reverse order" (booking-command.controller.ts). For a single call.      *)
FailedIsCompensated ==
    \A c \in Calls :
        At(c, "done") /\ call[c].reply \in {"FAILED", "THROWN"} =>
            \A s \in Services : made[RequestOf[c]][s] = 0

(* Every running counter will expire, or a call is about to see to it:     *)
(* nobody is refused for longer than a window.                             *)
CounterHasWindow ==
    \A u \in Users : rate[u] > 0 =>
        u \in expiring \/ \E c \in Calls : UserOf[c] = u /\ call[c].at = "window"

(* Every call that starts is answered, or dies with its node.              *)
CallEnds == \A c \in Calls : Running(c) ~> ~Running(c)
=============================================================================
