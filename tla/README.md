# Booking and billing: TLA+ specifications

The repository is a NestJS service whose own logic is the billing module: a
travel booking saga over flight, hotel and car services, the notification of its
clients, a wallet with transactions, virtual accounts, subscriptions and
invoices. Around it are two broker modules (Kafka and RabbitMQ),
authentication, and wiring. The modules in this directory model the saga with
its notifications, the money flow, and the Kafka delivery strategies, which is
where the concurrency, the failures and the ordering are.

To check: `tlc -config X.cfg M.tla` for the runs in section 3, and `tlapm M.tla`
for the proofs, with each module of section 4 as M.

## 1. Inventory

All paths are under `src/src/modules/`; B stands for `billing/`.

| Component | State | Operations | Hard behaviour | What makes it correct |
|---|---|---|---|---|
| Saga orchestrator, B`sagas/travel-booking.saga.ts` | one field `requestId` in a singleton; locals of each call | `execute`, `aggregateResults`; `execute_old` and `compensate` | several calls interleave at every `await`, in one node and in several; a call fails half-way; a node dies | a request id is booked once; an answer of PENDING has three requests behind it or an earlier call that was cut short; a failure leaves nothing behind |
| Saga state repository, B`sagas/travel-booking-saga-state.*` | one MongoDB document per request id | `create` (unique index), `saveConfirmedReservation`, `updateState`, `setError` | status is overwritten without a check | a confirmed booking is taken back only by a call that fails; a booking has all three reservation ids |
| Saga coordinator, B`sagas/saga-coordinator.service.ts` | Redis: lock, cached state, step counters, pending set, metadata, rate counter | one method per key; `cleanup` deletes five at once | keys expire; errors are logged and swallowed, except one; a lock has no owner | no lock stays behind; the pending set agrees with the documents; every rate counter expires |
| Reservation services, B`services/{flight,hotel,car-rental}.service.ts` | a map of reservations | `makeReservation`, `confirmReservation`, `cancelReservation` | three confirmations are handled at once, in any order, perhaps twice | exactly one handler joins; whichever comes last does |
| Broker controllers, B`controllers/booking-saga-message.controller.ts` | none | one handler per message | the message is acknowledged before its event is handled | a confirmation is not lost |
| Notifications, B`webhooks_sse/`, B`controllers/booking-sse.controller.ts` | webhook registry and open streams, in one process | register, stream, notify | a registration races with a POST; the answer to a POST is lost; the process dies | a client that listens under the request id is told, of what is stored, and of a confirmation once |
| Wallet, B`sagas/transaction.state-machine.ts`, B`commands/handlers/{deposit,withdraw}.handler.ts` | balance of a user; state and status of a transaction | deposit, withdraw, transition | check-then-act on the balance and on the state; Stripe is charged between two database writes | nobody is overdrawn; COMPLETED means that the money moved, and moved means that Stripe was paid |
| Virtual accounts, B`services/virtual-account.service.ts` | balance and status of an account | open, top up, suspend, close, transfer | check-then-act over two reads | money is conserved, nobody is overdrawn |
| Invoices, B`services/invoice.service.ts`, fed by B`controllers/billing-event.controller.ts` | invoice numbers | create | a number is a count that may be out of date | numbers are given once and without a gap |
| Subscriptions, B`commands/handlers/*subscription*`, B`services/stripe.service.ts` | a row, and Stripe's own record | create, cancel | two systems are written in turn; Stripe ends subscriptions itself | a row that says CANCELED costs nothing more |
| Kafka, `kafka/` | records, offsets, attempts | send, process at most once, at least once, exactly once | lost acknowledgements, failing handlers, restarts | nothing is committed unhandled; repetition by crashes only, and none under exactly-once |
| RabbitMQ demo, `rabbitmq/` | the last hundred messages | push, list, clear | none: one step | not modelled |
| Authentication, cache, Prisma, configuration, health, logging, helpers | a client handle at most | request and answer | none of its own | not modelled |

How they interact: an HTTP call reaches `execute` through the command bus.
`execute` writes the document and the Redis keys and publishes three requests.
The services answer with messages, the message controller publishes an event on
the in-process bus and acknowledges, and the event handler calls
`confirmReservation` of its service. That saves the reservation id, and when
all three are there it calls `aggregateResults` and then the notification
service, which pushes to the open streams and posts to the webhook. The calls
and the handlers share MongoDB and Redis and nothing else, apart from the field
`requestId`, which all calls of a node share, and the notification service's
registry, which all handlers of a node share.

The commands of the money flow (deposit, withdraw, cancel) come over HTTP, an
order's invoice from the broker; they share the Prisma tables and Stripe. The
saga and the money flow share nothing: the saga's payment is a placeholder.
Kafka is reached over its own HTTP controller.

`PROJECT.json` lists the hazards, each at its line, with the properties that
cover it.

## 2. Modules

| Module | Models | Composes |
|---|---|---|
| `SagaState` | the MongoDB documents and the Redis keys, one operator per method of the repository and of the coordinator | |
| `SagaExecution` | `execute`, steps 1 to 15, for any number of concurrent calls on any number of nodes | `SagaState` |
| `SagaJoin` | `confirmReservation` of the three services and `aggregateResults`, one process per delivered confirmation | `SagaState` |
| `TravelBookingSaga` | the whole: calls and handlers interleave | both |
| `BookingNotifications` | `TravelBookingNotificationService` with its clients: streams, webhooks, POSTs, the death of the process | `SagaJoin` |
| `BookingPromise` | abstract: confirmations arrive, and then one number is given | |
| `TravelCompensation` | `execute_old` and `compensate` | |
| `CompensationPromise` | abstract: a booking ends once, with all three reservations or with those only that were reported as given up | |
| `BillingState` | the tables, what Stripe knows, and the record of a call | |
| `Wallet` | deposits and withdrawals over the transaction state machine, `getOrCreateBillingUser` | `BillingState` |
| `VirtualAccounts` | `VirtualAccountService` | `BillingState` |
| `Invoices` | an order's invoice, from the message to the insert | `BillingState` |
| `Subscriptions` | cancellation at Stripe and in the row | `BillingState` |
| `BillingCommands` | the whole money flow: calls of all kinds interleave | the four |
| `LedgerPromise` | abstract: a balance is its opening plus entries, each posted once | |
| `KafkaDelivery` | producer and consumer strategies over one partition | |
| `MCSagaExecution`, `MCTravelBookingSaga`, `MCBilling` | small instances, symmetry | |
| `SagaExecutionProofs`, `SagaJoinProofs` | theorems of the calls and of the handlers, section 4 | |
| `TravelBookingSagaProofs` | theorems of the whole saga | the two |
| `NotificationProofs` | theorems of the notifications | `SagaJoinProofs` |
| `CompensationProofs` | theorems of the sequential saga | |
| `BillingProofs`, `RecordProofs` | theorems of the money flow: balances; transactions, plans and invoices | `RecordProofs` uses `BillingProofs` |
| `KafkaProofs` | theorems of the strategies | |

**One action is the code from one `await` to the next**, with the remote
operation that it awaits. JavaScript runs that code without interruption, and
MongoDB, Redis, PostgreSQL and Stripe execute one command atomically, so this is
the grain at which the program really interleaves. The coarser exceptions: a
counter or metadata hash and its time to live (two commands) are one step,
because only the presence of the key is modelled; the five deletions of
`cleanup`, which run in parallel, are one step; the search for a document and
the field assignment before it are one step (nothing is awaited between them).
The rate counter and its expiry are two steps, because which call opens the
window matters.

### The saga

- `field[n]` is `this.requestId` of the singleton in process n. Every step
  reads the request id from there, as the code does, so two calls in one
  process can disturb each other.
- `call[c]` holds the program point and the locals of a call: `locked` is
  `lockAcquired`, `k` the reservation request being published, `reply` what it
  returns. `Finally` is the `finally` block and is part of every return.
- A call may be answered before it has done anything: by the status of the document
  it finds (`Start`), or PENDING when it finds a cached state (`CheckActive`). `reply`
  is what the code returns there too, so PENDING is also the answer to a duplicate.
- `saga[r]` is the document: its status, its bookingId as a number (0: none),
  the services whose reservation id is set, `completedSteps` as a set
  (`$addToSet`), and in `origin` whose booking it stores.
- `requested[r][s]` counts the reservation requests published, and
  `made[r][s]` the calls of `makeReservation`: `execute` passes
  `this.reserveHotel(request)` as the payload, so each service in the same
  process makes a reservation before the broker is asked. (The flight and car
  services enter theirs into the map after a simulated delay; the step counts
  it at once, because nothing reads the map on this path.)
- `handler[d]`: delivery d = <<service, request, n>> of a confirmation, with
  `seen` the `completedSteps` that `findOneAndUpdate` returned to it.
- `notified` is what the notification service was told to send.
- In `TravelCompensation` the reservation ids are left out, because an
  execution reserves at most once at each service.

Faults, chosen per run by the constant `Faults`:

- `redis`: a command fails. A write has then happened or not; the coordinator
  logs the error and goes on; a failed SET NX counts as refused although the
  key may be set; a failed read is a miss; only the bare `DEL` in `cleanup`
  throws.
- `mongo`: an operation fails without effect. (A failure whose effect took
  place is not modelled.)
- `broker`: the publication is rejected; the request may have gone out or not.
- `expiry`: a lock or a cached state expires at any time.
- `crash`: a node dies with its calls, and `lost`: a handler dies or its event is
  lost. Nothing resumes them.

The three suppliers confirm a request they were sent, once or, for services in
`Redelivered`, again up to `MaxDeliveries` times. No Nest module registers the
controllers that would receive the requests, and the published payload is a
promise, which serialises to an empty object; so what suppliers do with it is
an assumption, and no liveness property relies on it. The controller of the
confirmations is not registered either; `SagaJoin` takes its handlers as they
are written. Calls of reservation services may reject in `TravelCompensation`,
as the tests make them do; the simulated services in the source never do.

### Notifications

`BookingNotifications` replaces the last step of a handler of `SagaJoin`
(`NotifyConfirmed`, `NotifyFailed`) by that step together with what the
notification service does before its first `await`: it pushes the news to the
open streams and starts the POST. `stream[s]` is one SSE connection, `registry`
the `webhookRegistry`, `post[d]` the POST that handler d awaits, and `inbox[x]`
what client x has received. A POST that fails may have been received
(`HttpFails`). `ProcessDies` takes handlers, streams and registry at once.
Clients may open, close and register at any time; each URL is registered once,
so that an inbox belongs to one registration.

Streams and URLs are filed under the `:bookingId` of their URL, and the handlers
notify under the request id. The two are not the same: the documents have a client
use the bookingId that the POST returned (`BOOKING_NOTIFICATIONS.md:99-106`), and
`execute` returns null there. So a client of the model comes with any of `Ids`: a
request id, which the answer has too, or `NullId`. Nobody is told under `NullId`; the
liveness properties are about the others, and this gap between code and documents is
a hazard in `PROJECT.json`.

`CallFails` is what a call of `execute` can do to a document beside the handlers:
its catch block fails it at any time, confirmed or not. What is told therefore
agrees with the stored bookingId, which no call of `execute` touches, and not with
the status.

Although a comment says that the stream closes after its event, the code has no
operator that would close it; the model follows the code. Under `mongo` faults several handlers may each fail and
each post `failed`, so only CONFIRMED is promised once.

### The money flow

- `rows` and `balance` are the billing users and the virtual accounts together:
  both are holders of a balance. `account`, `tx`, `invoice` and `plan` are the
  other columns that matter. `intent` and `stripePlan` are at Stripe.
- `call[c]` has the call's kind, its parties (`from` pays, `to` receives), its
  program point, and what it has read for later use (`seen`: a balance or a
  count). A call that threw or was lost stays at its point, so `Moved(c)` tells
  whether its money has moved.
- `WriteState` writes state and status; `AttachIntent` writes the status alone,
  beside the state machine, as the deposit handler does.
- The row of a billing user, a virtual account, an invoice number and an
  idempotency key are unique; the insert of a second one throws.

Faults: `db` (an operation fails without effect, and the handler throws), `stripe`
(the payment or the cancellation is made, and its answer is lost), `crash` (the
call is lost; nothing takes it up). Stripe's refusals are not faults: they may
happen in any run. A payment may stay pending and succeed later (`SettleIntent`),
and Stripe may end a subscription itself (`StripeEnds`); the code's webhooks for
both change nothing in the database, and the actions say so.

`OneSpender` is an assumption on the clients, not on the code: TRUE lets a
client start a withdrawal or a transfer only when its holder has none running.
The code does not ensure it, and `wallet_overdraft` shows what then happens.

The schema is that of B`billing.schema.prisma` (the one in `libs/providers` has
neither `idempotencyKey` nor the transaction types that the handlers write).
A subscription without a Stripe id (`stripePlan` is `none`) is canceled without asking
Stripe. The HTTP controller always cancels at once; the command can also ask for the
period's end, and both are modelled. Nothing in the repository calls
`VirtualAccountService` yet; its methods are modelled with positive amounts.

### Kafka

One topic with one partition. `semantics` is the strategy of both ends.
`sender[m]` is what the client that sends m knows; `log` the partition; `next`,
`tries` and `busy` the running `processMessage`; `committed` the offset at which a
restarted consumer goes on; `handled[o]` how often the handler has succeeded
with record o. kafkajs and the broker are external: kafkajs commits what it has
moved past, delivers a record again whose callback threw, sends again what was
not acknowledged unless retries are 0. It ignores `acks` among the producer's
options, so `at-most-once` waits for an acknowledgement too. The consumer strategies
have no caller; the model runs them as the callback of
`KafkaConsumerService.run`, for which they have the type. `isMessageAlreadyProcessed`
is a placeholder that always answers false, so `exactly-once` handles like
`at-least-once` without its inner retries. At-most-once runs its handler before
anything is committed, whatever its comment says. So a crash repeats a record under every
semantics (`RepeatedOnlyByCrash` says how often), which the definitions of
`DeliverySemantics` rule out for two of them (`NoDuplicates`, run
`kafka_exactly_once`). No setting chooses a strategy, so a producer is at-least-once
in the running program.

## 3. Runs

| Run | Checks | Instance | Shows |
|---|---|---|---|
| `exec_once` | `ExecTypeOK`, `RequestedOnce`, `PendingIsPublished`, `CallEnds` | 2 calls with one id on 2 nodes; Redis, MongoDB, broker, expiry, crash; limit 1 per window | no service is asked twice, PENDING has three requests behind it unless the call that holds the id was cut short, calls end |
| `exec_field` | `SagaIsItsRequest` | 2 ids on one node, no fault | **violated**: one client's booking is stored under another's id |
| `exec_duplicate` | `AcceptedNotFailed` | 2 calls with one id, no fault | **violated**: the second click marks the accepted booking FAILED |
| `exec_compensated` | `FailedIsCompensated` | 1 call, failing broker | **violated**: a call answers FAILED and the reservation it made stays |
| `join_hotel_last` | `AnyServiceJoins` | no fault | **violated**: if the hotel confirms last, the saga stays PENDING |
| `saga_book` | `SagaTypeOK`, `PendingIsQueued`, `QuietIsUnlocked`, `BookedNotQueued`, `CounterHasWindow`, `BookedOnOneRequestEach`, `BookedOnlyWhenJoined`, `AggregatedOnce`, `NotifiedIsStored`, `NoMixedNews`, `ConfirmedUnlessCallFails`, `KeepsPromise` | 2 calls (symmetric) and 3 confirmations of one request; MongoDB, broker, expiry, dying handlers | one handler joins and the whole implements `BookingPromise`; a booking rests on one request to each service and only a failing call takes it back; the pending set agrees with the documents, nothing is left locked |
| `compensation` | `CompTypeOK`, `NothingLeftBehind`, `ReverseOrder`, `KeepsCompensationPromise`, `AllOrNothing` | 2 executions, everything may reject | compensation runs backwards, survives failures, forgets nothing; it implements `CompensationPromise` |
| `booking_notifications` | `NotificationTypeOK`, `HookConfirmedOnce`, `NewsIsStored`, `JoinedIsTold`, `OpenStreamIsTold`, `HookIsCalled` | 1 request with 3 confirmations, 1 stream, 2 URLs, each under the request id or null; failing POSTs, MongoDB and calls, dying process | no URL is told CONFIRMED twice; what is told agrees with the stored number; a handler that joins tells the open stream and calls the registered URL |
| `billing` | `BillingTypeOK`, `NeverOverdrawn`, `CompletedIsMoved`, `AnsweredIsSettled`, `NumbersHaveNoGap`, `CanceledAtStripe`, `KeepsLedger` | 3 calls of any kinds (symmetric), 1 user, 2 accounts; all faults; one spending per holder at a time | the money flow keeps its tables, Stripe and the answers in agreement and implements `LedgerPromise` |
| `wallet_overdraft` | `NeverOverdrawn` | 2 withdrawals at once, no fault | **violated**: both pass the check and both take the money |
| `kafka` | `KafkaTypeOK`, `CommittedIsHandled`, `HandledInOrder`, `RepeatedOnlyByCrash`, `SentIsHandled` | 2 messages, each semantics, lost acknowledgements, failing handlers, 2 crashes | nothing is committed unhandled; repetition by crashes only; what was acknowledged is handled in the end |
| `kafka_exactly_once` | `NoDuplicates` | 2 messages, exactly-once, 1 crash | **violated**: a record is handled twice |

Each violated run is a disagreement between the code and what a comment or a
document of the repository says of it; `PROJECT.json` quotes the lines. They
are independent of one another: `exec_duplicate` comes from checking before
locking and never after, `exec_compensated` from a `compensate` that `execute`
never calls, `exec_field` from the shared field, `join_hotel_last` from misspelt
steps, `wallet_overdraft` from a decrement without a condition, and
`kafka_exactly_once` from a placeholder.

More of what the code does is not as one would wish and has no run of its own:

- A redelivered confirmation is aggregated again and the bookingId that the client was
  told is overwritten: with `Redelivered = {"flight"}`, `NotifiedIsStored` is violated.
- With `redis` among the faults of `saga_book`, the one bare `DEL` of `cleanup` sends
  the handler that has just confirmed a booking into its catch block, which fails it
  and tells the client so: `ConfirmedUnlessCallFails` is violated, and `NewsIsStored`
  in `booking_notifications`.
- A CONFIRMED booking becomes FAILED when a call of `execute` for the same id ends in
  its catch block: a duplicate that waited for the lock, or a first call whose
  publication was rejected although it went out. `ConfirmedUnlessCallFails` says that
  nothing else does it.
- A call that dies between its insert and its publications leaves a PENDING document
  that answers every later call for the id with PENDING, and nobody is asked. This is
  the exception in `PendingIsPublished`.
- The clean-up of the join deletes the lock of an `execute` that is still running,
  and an expired lock's holder deletes the next one's, because a lock has no owner.
- A client that uses the bookingId it was given, null, is never told (`NullId`). A URL
  that is registered while an earlier one is being called is removed uncalled, and one
  that is replaced before is not called either.

Each property of a passing run has a mutant beside the definition that it
changes: a dropped guard, an update that replaces instead of adding, a second
read, a wrong order. TLC finds the property violated when the mutant takes the
place of the definition.

**Bounds.** Two calls with one id are enough for each race in `execute`: one to
hold something and one to meet it; more calls of the same id only repeat the
second, and the theorems cover any number. A third call on the same node is
left out of `exec_once` because nodes matter only through the field, which two
calls with one id set to the same value. One request suffices in
`saga_book`: requests interact only through the counter of booking numbers, and the
theorems of `SagaJoinProofs` and `TravelBookingSagaProofs` cover any number. Redis
answers in `saga_book` and no node dies, because the code recovers from neither; what
holds without that is proved. `MaxPerMinute` is 1 where the limit must be
hit by the second call. Properties over `OneRequestPerNode` instances (all but
`exec_field`) say what holds when the singleton's field is not disturbed; that it
can be is what `exec_field` shows.

One request in `booking_notifications` suffices because streams, URLs and handlers of
different requests share nothing but the process; two URLs are what it takes for a
registration to meet a POST. Three calls in `billing` let two race while a third
pays in or cancels; one amount of 2 against an opening of 3 covers a transfer that
is covered once and not twice; the user has no row at first, so its creation
races. In `kafka` `MaxLog = 2` leaves room for duplicates of either message, and two
crashes repeat a record twice.

**Fairness.** `ExecFairSpec` and `JoinFairSpec` assume weak fairness of each
running call and of each started handler: the event loop resumes every promise
that settles, and drivers settle theirs with an answer or an error. Expiry of a
lock is never assumed: no call waits for one. `NotificationSpec` adds it for the end of a POST, which has a timeout of 5
seconds. Nothing obliges a client to call, to listen or to register, a supplier to
confirm, a message to be redelivered or a node to crash. `TravelCompensation`
assumes it of the awaited calls, which are timers. `KafkaSpec` assumes weak fairness
of the fetch and strong fairness of the handler's success: a handler that is tried
for ever succeeds at last, without which no retry could ever help. The money flow
states no fairness: nothing in it is promised to end, and what was interrupted is
never resumed. Deadlock is not checked, because every instance ends when its
calls and handlers are done.

## 4. Proofs

`SagaExecutionProofs` proves, for any sets of requests, calls, nodes and users,
any rate limit and any combination of faults:

- `ExecTypesOK`: `ExecSpec => []ExecTypeOK`. The type invariant alone is not
  inductive: a step indexes by `field[n]`, which is a request id only because a
  running call has set it and only a crash, which ends all calls of the node,
  clears it. `TypeInv` adds that.
- `RequestedOnceHolds`: `ExecSpec => []RequestedOnce`, and
- `PendingIsPublishedHolds`: `ExecSpec => []PendingIsPublished`, both under
  `OneRequestPerNode`, the hypothesis that `exec_field` shows to be needed.

The inductive invariant `ExecInv` says why: between its insert and its last
publication a call *owns* its request id. An owner comes into being only at
the insert, which needs the document to be absent (the unique index), and from
then on it is present, so there is never a second owner; only an owner
publishes; and an owner at request k has published exactly the requests
before k. The lock does not occur in the argument. So the unique index alone
keeps a service from being asked twice, whatever happens to the locks. Most
steps are handled by one lemma, `LocalStepKeepsInv`: a step that neither inserts
nor publishes keeps the invariant. `AnswerInv` adds who may say PENDING: a call that
published all its requests, or one that did not get as far as the lock and found a
stored or cached saga, whose own call then published or was cut short
(`PublisherInv`). A cached state has a document behind it even when Redis fails,
because it is written after the insert.

`SagaJoinProofs` proves, for any set of requests, any `MaxDeliveries` and any
combination of faults:

- `JoinTypesOK`: `JoinSpec => []JoinTypeOK`.
- `BookedOnlyWhenJoinedHolds`: `JoinSpec => []BookedOnlyWhenJoined`, whatever is
  redelivered. `JoinedInv` adds that a handler which has drawn a number found
  all three ids in the document before, and that ids are never taken away.
- Under `Redelivered = {}`: `AggregatedOnceHolds`, `NotifiedIsStoredHolds` and
  `KeepsPromiseHolds`, the refinement of `BookingPromise`. A redelivered flight
  confirmation violates the first two, so the hypothesis is needed.

`OnceInv` holds the argument of the join. `findOneAndUpdate` returns the
document after its own update, so a handler that is returned all three steps
(`Full`) comes after all other handlers of the request have saved; none saves
twice; hence there is only one. The step counter in Redis and the order of the
handlers after they saved do not matter. `KeptInv` builds on it: a number is drawn
once (`UniqueInv`), a stored number was drawn by a handler of that request
that is past its writing, and what was told is what is stored (`StoredInv`). So the
handler that writes is the request's first, which is what the refinement needs:
`Save` is `Arrive`, `WriteConfirmed` is `Book`, and all other steps stutter.

Under `Redelivered = {}` and `"redis" \notin Faults` also `NoMixedNewsHolds`, from
`ToldInv`. A handler that fails has either never saved, and then nobody is returned
all three steps, or was itself the one that joins, and then nobody else stores a
number (`Prevents`); so a request with a failing handler, or with a failure told,
never has a number. Redis must answer because a failing `DEL` in `cleanup` sends the
handler that has just confirmed the booking into the catch block.

`TravelBookingSagaProofs` proves what holds of calls and handlers together, for any
sets, any `MaxDeliveries` and, where nothing else is said, any combination of faults.

- `SagaTypesOK`, `SagaBookedOnlyWhenJoined`, `SagaRequestedOnce` (with one request
  per node; it has both `RequestedOnce` and `PendingIsPublished`), `SagaAggregatedOnce`
  and `SagaKeepsPromise` (both without redelivery) and `SagaNoMixedNews` (the same,
  Redis answers) carry the results of the parts over. It takes two facts: to the handlers a
  step of a call is an insert of an empty document, a failure of an existing
  one, or nothing (`DocumentStep`), and to the calls a step of a handler
  neither removes a document nor publishes.
- `ConfirmedUnlessCallFailsHolds` (one request per node, no redelivery, Redis answers):
  in `ToldInv` the handlers past a stored number have no way to `SetError`, so the
  only step that takes CONFIRMED away is `SaveError` of a call, and by
  `OneRequestPerNode` it fails its own request.
- `BookedOnOneRequestEachHolds` (one request per node): `AskedInv` says that each
  stored id and each started handler belongs to a service that was asked. With
  `RequestedOnce` it follows that a booking rests on exactly one request to each service. No
  fault is excluded: an expired lock, a dead node, a rejected publication do no harm.
- `BookedNotQueuedHolds` (one request per node, Redis answers): `OutInv`. The
  entry in the pending set is made by the call before it asks the first service, and
  no handler starts before its service was asked, so nothing enters the set after
  the clean-up took the request out. Without Redis the clean-up may fail in silence.
- `PendingIsQueuedHolds` (the same, and no node dies): `PendingInv` adds that a
  handler past its writing has left a document which is not PENDING. A node that dies
  between the insert and the queue leaves a PENDING document that no monitor finds.
- `QuietIsUnlockedHolds` (the same): each lock and each cached state has a running call
  that will still remove it (`HeldInv`); a dead call leaves them to their expiry.
- `CounterHasWindowHolds` (Redis answers, no node dies), which is inductive as it
  stands: a call that raised the counter from zero is at `OpenWindow` until it has
  set the expiry.

The three hypotheses on faults are what the code needs: a Redis error is logged and
swallowed, and nothing resumes a dead call.

`NotificationProofs` covers any number of requests, streams and URLs. The registry,
the streams and the death of the process are steps that the join knows nothing of:
`StepOfJoin` maps every other step to one of `JoinNext` or, for a call that fails, to
`DocumentStep`, and `DeathIsPlain` shows what a death leaves as it was, so that `JoinTypeOK`, `KeptInv` and `ToldInv` of the join hold
here as well.

- `NotificationTypesOK`, under all faults.
- `HookConfirmedOnceHolds`, without redelivery. `HookInv` has to say on which request a
  URL was registered, which the registry forgets; it is existential in that
  function, `own`. `SourceInv` says that whatever is on its way to a channel or
  has arrived there was sent for the channel's request, and `ConfirmedInv` that
  CONFIRMED comes only from a handler that drew a number and is done, and that
  once it has arrived, that handler awaits no POST any more. The join gives
  a number to one handler per request, so a second CONFIRMED has no sender. That the answer
  may be lost does not matter, because `PostFails` never sends again.
- `NewsIsStoredHolds`, without redelivery and while Redis answers: `SourceInv` with
  `ToldInv` of the join, which speaks of the stored number and so survives a document's
  failing. TLC found no violation of either invariant on the instances of the
  run before it was proved.

`CompensationProofs` is for any set of executions, each kind of call rejecting or not:
`CompTypesOK`, `NothingIsLeftBehind`, `CompensationIsReversed` and
`CompensationPromiseIsKept`, the refinement of `CompensationPromise`. `Fits` ties
the program point of an execution to what it holds: while it reserves it holds the first
services of `ReserveOrder` and has lost none; while it compensates, what is still planned
and what is a dead letter are together what is held, and the plan is that of the first n
reservations (`PlanLemma`), so that the head of the plan is always the latest.

The money flow is proved for any users, accounts, calls, amounts and opening
balances, any combination of faults, and calls of any kinds at once:

- In `BillingProofs`, `BillingTypesOK`: type correctness. `CallsFit` strengthens it: a
  call is only at points of its kind's handler, and has the parties of its kind. It
  is what tells the later proofs which of a call's two parties a step is about.
- `LedgerIsKept`: `BillingSpec => KeepsLedger`, the refinement of
  `LedgerPromise`. Each step of a handler either `Keeps` balances and the set of
  calls that have moved, or `Moves`: it takes its call from before to after the
  move and changes balances by exactly that call's entry (`KeepsOrMoves`). The
  argument needs no condition on who runs beside whom, because the code
  increments in place: no balance that was read is ever written back.
- `OneSpenderSuffices`: `NeverOverdrawn` under `OneSpender`, the
  hypothesis that `wallet_overdraft` shows to be needed. `Covered`: what a
  spending call has checked holds of the balance still, because only the
  holder's spending calls make a balance fall (`WhoFalls`) and it is `Alone`.
- In `RecordProofs`, `CompletedMeansMoved` and `AnswersAreSettled` from
  `TransactionFits`, which says what a transaction and its payment look like at
  each point of its call (`StateFits`, `PaymentFits`, `AnswerFits`): nobody but its
  call writes a transaction. `CanceledIsCanceled` from `SaveFits`: a
  cancellation at once that is about to write the row has canceled at Stripe or found
  no Stripe id,
  and Stripe never revives a subscription, so later cancellations in any order do
  no harm.
- `InvoicesAreNumbered`. A count is never above the present one
  (`CountFits`), so the number to be inserted is at most one above the last; a
  number in use is refused by the unique index; so what is inserted is the next
  one. `InsertsOnce` keeps a call from replacing its own number.

`KafkaProofs` proves, for any finite set of messages, any bounds and faults:
`KafkaTypesOK`, `NothingCommittedUnhandled`, `RecordsHandledInOrder`,
`RepetitionNeedsCrash`. `PositionInv` places `committed`, `next` and the end of the
log, and `HandledInv` says that everything before `next` was handled, at
most once more than there were crashes, and everything from `next` on only as
often as there were crashes. `LogInv` bounds the log by the messages that were
acknowledged, which is why the records fit `Offsets`.

TLC only: liveness (`CallEnds`, `JoinedIsTold`, `OpenStreamIsTold`, `HookIsCalled`,
`AllOrNothing`, `SentIsHandled`), which is beyond this prover because it rests on
fairness. Every safety property of a passing run is a theorem. The run
that checks a property satisfies the hypotheses of its theorem, and TLC evaluates
the named assumptions on the constants there.

## 5. Not modelled

- Generated code: the Prisma client under `libs/providers` is about 26,700 of the
  repository's 37,000 lines. It keeps no state of the program's own and is modelled
  by the atomicity and the unique columns of the operations that are called.
- The queries for monitoring and debugging, statistics, `findBy...`, listings,
  and repository methods without a caller (`addCompletedStep`,
  `setReservationId`, `updateStatus`), `deleteByUserId`, which tests use.
- The request side of the broker controllers (see section 2).
- Creation of a subscription: it stores Stripe's status, in lower case, in a column
  whose enum has no such value, so the insert after Stripe's call always fails.
- The single-row updates of an invoice (paid, void, status, PDF link), which have no
  caller and no condition. The error and cancel transitions of a transaction, which
  no handler asks for; they are in the table of transitions.
- Kafka: batches, pausing, connecting and disconnecting (the module connects in
  `onModuleInit`, before any request), and `handleMessage`: `subscribe` registers a
  handler only for a topic that is a string, which its type excludes.
- The RabbitMQ demo service: an array that one step extends and trims.
- Authentication, cache, Prisma wiring, configuration, health, logging and
  helpers: no state of their own that several steps or actors share.
- Validation of requests, which precedes any state change.
- Several nodes in `BookingNotifications`: nothing shares the registry, so a webhook
  that is registered on one node is never called by another.

## 6. Plan

1. (done) The saga: `SagaState`, `SagaExecution`, `SagaJoin`, `TravelBookingSaga`,
   `BookingPromise`, `TravelCompensation`, with their theorems.
2. (done) The money flow: `BillingState`, `Wallet`, `VirtualAccounts`, `Invoices`,
   `Subscriptions`, `BillingCommands`, `LedgerPromise`, all their safety properties
   proved.
3. (done) `BookingNotifications` and `KafkaDelivery`; the safety of the latter proved.
4. (done) `CompensationPromise`, and the proofs of the whole saga, of the notifications
   and of the compensation: every safety property that a run checks is proved.
5. Next: what remains true of a booking when a confirmation is delivered twice, with
   its own invariant, and models of several nodes in `BookingNotifications` and of
   the creation of a subscription.
