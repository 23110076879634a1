------------------------ MODULE BookingNotifications ------------------------
(***************************************************************************)
(* TravelBookingNotificationService with the handlers that call it: clients *)
(* open event streams and register webhooks under an id of their choice,   *)
(* and the handler that ends a saga (SagaJoin) tells the streams that are  *)
(* open under its request id and then posts to the URL registered there.   *)
(* Streams and webhooks live in the memory of one process.                 *)
(***************************************************************************)
EXTENDS SagaJoin, Sequences

CONSTANTS
    Streams,    \* event streams that clients may open
    Urls,       \* webhook URLs that clients may register, each once
    NoUrl,      \* no URL
    NullId,     \* an id of no request: the bookingId that execute returned
    HttpFails   \* TRUE: a POST may fail, before or after it was received

ASSUME NotificationAssumption ==
    /\ NoUrl \notin Urls
    /\ NullId \notin Requests
    /\ Streams \cap Urls = {}
    /\ HttpFails \in BOOLEAN

VARIABLES
    stream,     \* stream[s]: its :bookingId and whether it is open
    registry,   \* webhookRegistry: registry[i] is the URL under :bookingId i
    given,      \* URLs that have been registered
    post,       \* post[d]: the POST that handler d awaits
    inbox       \* inbox[x]: what stream or URL x has received

channelVars == <<stream, registry, given, post, inbox>>
nvars == <<jvars, channelVars>>

(* What a client may put in for :bookingId. The service is told of request *)
(* ids only, but the documents have the client use the bookingId that the  *)
(* POST returned, and at that time there is none.                          *)
Ids == Requests \cup {NullId}

News == {"CONFIRMED", "failed"}

NoPost == [url |-> NoUrl, news |-> "failed"]

NotificationTypeOK ==
    /\ JoinTypeOK
    /\ stream \in [Streams -> [id : Ids, at : {"new", "open", "closed"}]]
    /\ registry \in [Ids -> Urls \cup {NoUrl}]
    /\ given \subseteq Urls
    /\ post \in [Deliveries -> [url : Urls \cup {NoUrl}, news : News]]
    /\ inbox \in [Streams \cup Urls -> Seq(News)]

NotificationInit ==
    /\ JoinInit
    /\ stream = [s \in Streams |-> [id |-> NullId, at |-> "new"]]
    /\ registry = [i \in Ids |-> NoUrl]
    /\ given = {}
    /\ post = [d \in Deliveries |-> NoPost]
    /\ inbox = [x \in Streams \cup Urls |-> <<>>]
-----------------------------------------------------------------------------
(* Clients.                                                                *)

(* streamBookingStatus subscribes; nothing of the past is replayed.        *)
OpenStream(s, i) ==
    /\ stream[s].at = "new"
    /\ stream' = [stream EXCEPT ![s] = [id |-> i, at |-> "open"]]
    /\ UNCHANGED <<jvars, registry, given, post, inbox>>

(* The timeout of the stream, or its client goes away. An event does not   *)
(* close it.                                                               *)
CloseStream(s) ==
    /\ stream[s].at = "open"
    /\ stream' = [stream EXCEPT ![s].at = "closed"]
    /\ UNCHANGED <<jvars, registry, given, post, inbox>>

(* registerWebhook replaces the URL that was there.                        *)
RegisterWebhook(i, u) ==
    /\ u \notin given
    /\ given' = given \cup {u}
    /\ registry' = [registry EXCEPT ![i] = u]
    /\ UNCHANGED <<jvars, stream, post, inbox>>
-----------------------------------------------------------------------------
(* The service.                                                            *)

Open(i) == {s \in Streams : stream[s] = [id |-> i, at |-> "open"]}

\* Mutant: the webhook goes first, and a stream is told only if there is none.
TellStreamsWithoutWebhook(r, n) ==
    inbox' = [x \in Streams \cup Urls |->
                  IF x \in Open(r) /\ registry[r] = NoUrl THEN Append(inbox[x], n)
                  ELSE inbox[x]]

(* bookingEvents$.next: every stream open under the request id is told.    *)
TellStreams(r, n) ==
    inbox' = [x \in Streams \cup Urls |->
                  IF x \in Open(r) THEN Append(inbox[x], n) ELSE inbox[x]]

\* Mutant: only a confirmation is posted.
StartPostIfConfirmed(d, n) ==
    /\ post' = IF n = "CONFIRMED"
               THEN [post EXCEPT ![d] = [url |-> registry[d[2]], news |-> n]] ELSE post
    /\ UNCHANGED registry

(* sendWebhook looks the URL up and starts the POST.                       *)
StartPost(d, n) ==
    /\ post' = [post EXCEPT ![d] = [url |-> registry[d[2]], news |-> n]]
    /\ UNCHANGED registry

(* notifyBookingConfirmed and notifyBookingFailed, up to the POST.         *)
Notify(d, n) ==
    /\ TellStreams(d[2], n)
    /\ StartPost(d, n)
    /\ UNCHANGED <<stream, given>>

Receive(d) == inbox' = [inbox EXCEPT ![post[d].url] = Append(@, post[d].news)]

(* The POST succeeds, and whatever URL is registered by now is deleted.    *)
PostSucceeds(d) ==
    /\ post[d].url # NoUrl
    /\ Receive(d)
    /\ registry' = [registry EXCEPT ![d[2]] = NoUrl]
    /\ post' = [post EXCEPT ![d] = NoPost]
    /\ UNCHANGED <<jvars, stream, given>>

\* Mutant: a POST that fails is sent again.
PostFailsAndRetries(d) ==
    /\ HttpFails
    /\ post[d].url # NoUrl
    /\ \/ Len(inbox[post[d].url]) < 2 /\ Receive(d)
       \/ UNCHANGED inbox
    /\ UNCHANGED <<jvars, stream, given, registry, post>>

(* The POST fails: it may have been received, its answer being lost or     *)
(* later than 5 seconds. The error is logged; the URL stays registered.    *)
PostFails(d) ==
    /\ HttpFails
    /\ post[d].url # NoUrl
    /\ Receive(d) \/ UNCHANGED inbox
    /\ post' = [post EXCEPT ![d] = NoPost]
    /\ UNCHANGED <<jvars, stream, given, registry>>

(* A handler that has to notify does both channels, the others none.       *)
HandleAndNotify(d) ==
    \/ NotifyConfirmed(d) /\ Notify(d, "CONFIRMED")
    \/ NotifyFailed(d) /\ Notify(d, "failed")
    \/ /\ ~HandlerAt(d, "notify")
       /\ ~HandlerAt(d, "failed")
       /\ Handle(d)
       /\ UNCHANGED channelVars

(* The process dies with its handlers, its streams and its registry.       *)
ProcessDies ==
    /\ "crash" \in Faults
    /\ handler' = [d \in Deliveries |-> IF Handling(d) THEN [handler[d] EXCEPT !.at = "lost"]
                                        ELSE handler[d]]
    /\ registry' = [i \in Ids |-> NoUrl]
    /\ stream' = [s \in Streams |-> IF stream[s].at = "open"
                                    THEN [stream[s] EXCEPT !.at = "closed"] ELSE stream[s]]
    /\ post' = [d \in Deliveries |-> NoPost]
    /\ UNCHANGED <<storeVars, bookings, notified, given, inbox>>

(* Meanwhile a call of execute for r ends in its catch block: setError     *)
(* fails the saga, whatever the handlers have made of it.                  *)
CallFails(r) ==
    /\ SetError(r)
    /\ UNCHANGED <<redisVars, requested, joinVars, channelVars>>

NotificationNext ==
    \/ \E s \in Streams, i \in Ids : OpenStream(s, i)
    \/ \E s \in Streams : CloseStream(s)
    \/ \E i \in Ids, u \in Urls : RegisterWebhook(i, u)
    \/ \E r \in Requests : CallFails(r)
    \/ \E d \in Deliveries : \/ Save(d) /\ UNCHANGED channelVars
                             \/ HandleAndNotify(d)
                             \/ PostSucceeds(d)
                             \/ PostFails(d)
    \/ ProcessDies

(* The event loop resumes a handler and ends every POST, at the latest     *)
(* after its timeout. No client has to come, stay or go.                   *)
NotificationSpec ==
    /\ NotificationInit
    /\ [][NotificationNext]_nvars
    /\ \A d \in Deliveries : /\ WF_nvars(HandleAndNotify(d))
                             /\ WF_nvars(PostSucceeds(d) \/ PostFails(d))
-----------------------------------------------------------------------------
(* Properties.                                                             *)

(* "One-shot delivery" of the confirmation: no URL is told CONFIRMED twice, *)
(* even if the answer to the first POST is lost.                           *)
HookConfirmedOnce ==
    \A u \in Urls : Cardinality({i \in DOMAIN inbox[u] : inbox[u][i] = "CONFIRMED"}) <= 1

(* Whoever is told CONFIRMED has a booking number stored, whoever is told  *)
(* of a failure has none, and no URL is told both. It is the number and    *)
(* not the status that agrees: a call of execute that ends in its catch    *)
(* block fails the saga before or after the news.                          *)
NewsIsStored ==
    /\ \A s \in Streams : \A i \in DOMAIN inbox[s] :
           inbox[s][i] = "CONFIRMED" <=> saga[stream[s].id].bookingId # 0
    /\ \A d \in Deliveries : post[d].url # NoUrl =>
           (post[d].news = "CONFIRMED" <=> saga[d[2]].bookingId # 0)
    /\ \A u \in Urls : \A i, j \in DOMAIN inbox[u] : inbox[u][i] = inbox[u][j]

(* The handlers that may join: a hotel handler waits for steps that nobody *)
(* records. d has joined once its save returned all three confirmations.   *)
Joiners == {d \in Deliveries : d[1] # "hotel"}

Joined(d) == AllConfirmed \subseteq handler[d].seen

(* A client is told how its booking ended once a flight or car handler has *)
(* seen all three confirmations, unless the process dies first.            *)
JoinedIsTold ==
    \A d \in Joiners :
        Joined(d) ~> HandlerAt(d, "lost") \/ \E m \in notified : m.request = d[2]

(* A stream that is open under the request id when such a handler sees     *)
(* them, and stays open, is told. One that is open under the bookingId the *)
(* client was given, NullId, is not.                                       *)
OpenStreamIsTold ==
    \A s \in Streams, d \in Joiners :
        s \in Open(d[2]) /\ Joined(d) /\ Handling(d)
            ~> inbox[s] # <<>> \/ stream[s].at = "closed"

(* If a URL is registered under the request id when such a handler sees    *)
(* them, the handler makes a POST, however it ends: to that URL or to one  *)
(* that replaced it, unless the registry loses the entry first.            *)
HookIsCalled ==
    \A d \in Joiners :
        registry[d[2]] # NoUrl /\ Joined(d) /\ Handling(d)
            ~> post[d].url # NoUrl \/ registry[d[2]] = NoUrl
=============================================================================
