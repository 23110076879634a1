------------------------- MODULE NotificationProofs -------------------------
(***************************************************************************)
(* Theorems about BookingNotifications, for any number of requests,        *)
(* streams and URLs.                                                       *)
(***************************************************************************)
EXTENDS BookingNotifications, SagaJoinProofs, SequenceTheorems, FiniteSetTheorems

(* What a channel holds after one more piece of news.                      *)
LEMMA OneMore ==
    ASSUME NEW q \in Seq(News), NEW n \in News
    PROVE  /\ Append(q, n) \in Seq(News)
           /\ Append(q, n) # <<>>
           /\ Append(q, n) # q
           /\ \A i \in DOMAIN Append(q, n) :
                  \/ i \in DOMAIN q /\ Append(q, n)[i] = q[i]
                  \/ i = Len(q) + 1 /\ Append(q, n)[i] = n
<1>1. /\ Append(q, n) \in Seq(News)
      /\ Append(q, n) # <<>>
      /\ Len(Append(q, n)) = Len(q) + 1
      /\ \A i \in 1 .. Len(q) : Append(q, n)[i] = q[i]
      /\ Append(q, n)[Len(q) + 1] = n
  BY AppendProperties
<1>2. /\ DOMAIN Append(q, n) = 1 .. Len(q) + 1
      /\ DOMAIN q = 1 .. Len(q)
      /\ Len(q) \in Nat
  BY <1>1
<1>3. ASSUME Append(q, n) = q PROVE FALSE
  <2>1. Len(Append(q, n)) = Len(q)
    BY ONLY <1>3
  <2> QED
    BY ONLY <1>1, <1>2, <2>1
<1>4. \A i \in DOMAIN Append(q, n) :
          \/ i \in DOMAIN q /\ Append(q, n)[i] = q[i]
          \/ i = Len(q) + 1 /\ Append(q, n)[i] = n
  BY <1>1, <1>2
<1> QED
  BY <1>1, <1>3, <1>4, Zenon

(* Request ids are among the ids of the channels.                          *)
LEMMA DeliveryIds == \A d \in Deliveries : d[2] \in Requests /\ d[2] \in Ids
BY DeliveryParts DEF Ids

(* Every step but the death of the process is, for the saga, a step of one *)
(* handler or nothing, or a call of execute fails a document.              *)
LEMMA StepOfJoin ==
    ASSUME StoreTypeOK, [NotificationNext]_nvars, ~ProcessDies
    PROVE  \/ [JoinNext]_jvars
           \/ /\ DocumentStep
              /\ saga' \in [Requests -> SagaDocument]
              /\ UNCHANGED <<redisVars, requested, joinVars>>
<1>1. ASSUME NEW r \in Requests, CallFails(r)
      PROVE  /\ DocumentStep
             /\ saga' \in [Requests -> SagaDocument]
             /\ UNCHANGED <<redisVars, requested, joinVars>>
  <2>1. SetError(r) /\ UNCHANGED <<redisVars, requested, joinVars>>
    BY <1>1 DEF CallFails
  <2>2. saga \in [Requests -> SagaDocument]
    BY DEF StoreTypeOK
  <2>3. [saga[r] EXCEPT !.status = "FAILED"] \in SagaDocument
    BY <2>2 DEF SagaDocument, Statuses
  <2>4. saga' \in [Requests -> SagaDocument]
    BY <2>1, <2>2, <2>3 DEF SetError
  <2> QED
    BY <2>1, <2>2, <2>4 DEF SetError, DocumentStep
<1> QED
  BY <1>1 DEF NotificationNext, nvars, OpenStream, CloseStream, RegisterWebhook,
     HandleAndNotify, PostSucceeds, PostFails, Handle, JoinNext

LEMMA DeathIsPlain ==
    ASSUME handler \in [Deliveries -> HandlerState], ProcessDies
    PROVE  /\ UNCHANGED <<saga, bookings, notified, storeVars>>
           /\ handler' \in [Deliveries -> HandlerState]
           /\ \A d \in Deliveries :
                  /\ handler'[d].seen = handler[d].seen
                  /\ handler'[d].booking = handler[d].booking
                  /\ handler'[d].at \in {handler[d].at, "lost"}
                  /\ handler[d].at \in {"waiting", "done"} => handler'[d].at = handler[d].at
BY DEF ProcessDies, storeVars, Handling, HandlerState, HandlerPoints

LEMMA DeathKeepsTypes ==
    ASSUME JoinTypeOK, ProcessDies
    PROVE  JoinTypeOK'
BY DeathIsPlain DEF JoinTypeOK, StoreTypeOK, storeVars

LEMMA SagaTyped ==
    ASSUME JoinTypeOK, [NotificationNext]_nvars
    PROVE  JoinTypeOK'
<1>1. CASE ProcessDies
  BY <1>1, DeathKeepsTypes
<1>2. CASE ~ProcessDies
  <2>1. CASE [JoinNext]_jvars
    BY <2>1, JoinTypeStep
  <2>2. CASE /\ saga' \in [Requests -> SagaDocument]
             /\ UNCHANGED <<redisVars, requested, joinVars>>
    BY <2>2 DEF JoinTypeOK, StoreTypeOK, redisVars, joinVars
  <2> QED
    BY <1>2, <2>1, <2>2, StepOfJoin DEF JoinTypeOK
<1> QED
  BY <1>1, <1>2

(* What the service does to the channels when handler d has news n.        *)
LEMMA NotifyOnChannels ==
    ASSUME NotificationTypeOK, NEW d \in Deliveries, NEW n \in News, Notify(d, n)
    PROVE  /\ inbox' \in [Streams \cup Urls -> Seq(News)]
           /\ \A s \in Streams : \/ inbox'[s] = inbox[s]
                                 \/ /\ inbox'[s] = Append(inbox[s], n)
                                    /\ stream[s].id = d[2] /\ stream[s].at = "open"
           /\ \A u \in Urls : inbox'[u] = inbox[u]
           /\ post' \in [Deliveries -> [url : Urls \cup {NoUrl}, news : News]]
           /\ post'[d].url = registry[d[2]] /\ post'[d].news = n
           /\ \A e \in Deliveries \ {d} : post'[e] = post[e]
           /\ UNCHANGED <<stream, registry, given>>
<1>0. /\ inbox \in [Streams \cup Urls -> Seq(News)]
      /\ post \in [Deliveries -> [url : Urls \cup {NoUrl}, news : News]]
      /\ registry[d[2]] \in Urls \cup {NoUrl}
  BY DeliveryIds DEF NotificationTypeOK
<1>1. /\ inbox' = [x \in Streams \cup Urls |->
                      IF x \in Open(d[2]) THEN Append(inbox[x], n) ELSE inbox[x]]
      /\ post' = [post EXCEPT ![d] = [url |-> registry[d[2]], news |-> n]]
      /\ UNCHANGED <<stream, registry, given>>
  BY DEF Notify, TellStreams, StartPost
<1>2. \A s \in Open(d[2]) : s \in Streams /\ stream[s].id = d[2] /\ stream[s].at = "open"
  BY DEF Open
<1>3. \A u \in Urls : u \notin Open(d[2])
  BY <1>2, NotificationAssumption
<1>4. \A x \in Streams \cup Urls : Append(inbox[x], n) \in Seq(News)
  BY <1>0, OneMore
<1> QED
  BY <1>0, <1>1, <1>2, <1>3, <1>4

(* What the end of a POST does to them.                                    *)
LEMMA PostOnChannels ==
    ASSUME NotificationTypeOK, NEW d \in Deliveries, PostSucceeds(d) \/ PostFails(d)
    PROVE  /\ post[d].url \in Urls
           /\ inbox' \in [Streams \cup Urls -> Seq(News)]
           /\ \A x \in (Streams \cup Urls) \ {post[d].url} : inbox'[x] = inbox[x]
           /\ inbox'[post[d].url] \in {inbox[post[d].url],
                                       Append(inbox[post[d].url], post[d].news)}
           /\ PostSucceeds(d) =>
                  inbox'[post[d].url] = Append(inbox[post[d].url], post[d].news)
           /\ post' = [post EXCEPT ![d] = NoPost]
           /\ registry' \in {registry, [registry EXCEPT ![d[2]] = NoUrl]}
           /\ UNCHANGED <<jvars, stream, given>>
<1>0. /\ inbox \in [Streams \cup Urls -> Seq(News)]
      /\ post[d] \in [url : Urls \cup {NoUrl}, news : News]
      /\ post[d].url \in Urls /\ post[d].news \in News
  BY DEF NotificationTypeOK, PostSucceeds, PostFails
<1>1. Append(inbox[post[d].url], post[d].news) \in Seq(News)
  BY <1>0, OneMore
<1>2. Receive(d) => inbox' = [inbox EXCEPT ![post[d].url] =
                                  Append(inbox[post[d].url], post[d].news)]
  BY DEF Receive
<1>3. /\ Receive(d) \/ UNCHANGED inbox
      /\ PostSucceeds(d) => Receive(d)
      /\ post' = [post EXCEPT ![d] = NoPost]
      /\ registry' \in {registry, [registry EXCEPT ![d[2]] = NoUrl]}
      /\ UNCHANGED <<jvars, stream, given>>
  BY DEF PostSucceeds, PostFails
<1> QED
  BY <1>0, <1>1, <1>2, <1>3

LEMMA NotificationTypeInit == NotificationInit => NotificationTypeOK
<1> SUFFICES ASSUME NotificationInit PROVE NotificationTypeOK
  OBVIOUS
<1>1. JoinTypeOK
  BY JoinTypeInit DEF NotificationInit
<1>2. <<>> \in Seq(News)
  OBVIOUS
<1>3. stream \in [Streams -> [id : Ids, at : {"new", "open", "closed"}]]
  BY DEF NotificationInit, Ids
<1> QED
  BY <1>1, <1>2, <1>3 DEF NotificationInit, NotificationTypeOK, NoPost, News

LEMMA NotificationTypeStep ==
    NotificationTypeOK /\ [NotificationNext]_nvars => NotificationTypeOK'
<1> SUFFICES ASSUME NotificationTypeOK, [NotificationNext]_nvars
             PROVE  NotificationTypeOK'
  OBVIOUS
<1>0. JoinTypeOK'
  BY SagaTyped DEF NotificationTypeOK
<1>1. ASSUME NEW s \in Streams, NEW i \in Ids, OpenStream(s, i)
      PROVE  NotificationTypeOK'
  BY <1>0, <1>1 DEF OpenStream, NotificationTypeOK
<1>2. ASSUME NEW s \in Streams, CloseStream(s)
      PROVE  NotificationTypeOK'
  BY <1>0, <1>2 DEF CloseStream, NotificationTypeOK
<1>3. ASSUME NEW i \in Ids, NEW u \in Urls, RegisterWebhook(i, u)
      PROVE  NotificationTypeOK'
  BY <1>0, <1>3 DEF RegisterWebhook, NotificationTypeOK
<1>4. ASSUME NEW d \in Deliveries, NEW n \in News, Notify(d, n)
      PROVE  NotificationTypeOK'
  BY <1>0, <1>4, NotifyOnChannels DEF NotificationTypeOK
<1>5. ASSUME NEW d \in Deliveries, PostSucceeds(d) \/ PostFails(d)
      PROVE  NotificationTypeOK'
  <2>1. post' \in [Deliveries -> [url : Urls \cup {NoUrl}, news : News]]
    BY <1>5, PostOnChannels DEF NotificationTypeOK, NoPost, News
  <2>2. registry' \in [Ids -> Urls \cup {NoUrl}]
    BY <1>5, PostOnChannels DEF NotificationTypeOK
  <2> QED
    BY <1>0, <1>5, <2>1, <2>2, PostOnChannels DEF NotificationTypeOK
<1>6. CASE ProcessDies
  BY <1>0, <1>6 DEF ProcessDies, NotificationTypeOK, NoPost, News
<1>7. CASE UNCHANGED channelVars
  BY <1>0, <1>7 DEF channelVars, NotificationTypeOK
<1> QED
  BY <1>1, <1>2, <1>3, <1>4, <1>5, <1>6, <1>7 DEF NotificationNext, HandleAndNotify,
     CallFails, News, nvars

(* Streams, webhooks, POSTs and received news keep their types.            *)
THEOREM NotificationTypesOK == NotificationSpec => []NotificationTypeOK
BY NotificationTypeInit, NotificationTypeStep, PTL DEF NotificationSpec

-----------------------------------------------------------------------------
(* The death of the process takes handlers away and changes no document,   *)
(* so what the join guarantees outlives it.                                *)
LEMMA DeathKeepsKept ==
    ASSUME KeptInv, ProcessDies
    PROVE  KeptInv'
<1>0. JoinTypeOK /\ handler \in [Deliveries -> HandlerState]
  BY DEF KeptInv, JoinedInv, JoinTypeOK
<1>1. /\ UNCHANGED <<saga, bookings, notified>>
      /\ \A d \in Deliveries :
             /\ handler'[d].seen = handler[d].seen
             /\ handler'[d].booking = handler[d].booking
             /\ handler'[d].at \in {handler[d].at, "lost"}
  BY <1>0, DeathIsPlain
<1>2. \A d \in Deliveries :
          Drawn(d)' = Drawn(d) /\ Saved(d)' = Saved(d) /\ Full(d)' = Full(d)
  BY <1>1 DEF Drawn, Saved, Full
<1>3. JoinedInv'
  <2>1. JoinTypeOK'
    BY <1>0, DeathKeepsTypes
  <2>2. NumberInv'
    BY <1>1, <1>2 DEF KeptInv, JoinedInv, NumberInv
  <2>3. BlankInv' /\ BookedOnlyWhenJoined'
    BY <1>1 DEF KeptInv, JoinedInv, BlankInv, BookedOnlyWhenJoined, Found
  <2> QED
    BY <2>1, <2>2, <2>3 DEF JoinedInv
<1>4. OnceInv'
  BY <1>1, <1>2 DEF KeptInv, OnceInv
<1>5. UniqueInv'
  BY <1>1, <1>2 DEF KeptInv, UniqueInv
<1>6. StoredInv'
  <2>1. \A d \in Deliveries : /\ handler'[d].at \in Past => handler[d].at \in Past
                              /\ handler[d].at # "write" => handler'[d].at # "write"
    BY <1>1 DEF Past
  <2> QED
    BY <1>1, <2>1 DEF KeptInv, StoredInv, Past
<1> QED
  BY <1>3, <1>4, <1>5, <1>6 DEF KeptInv

LEMMA DeathKeepsTold ==
    ASSUME ToldInv, ProcessDies
    PROVE  ToldInv'
<1>0. handler \in [Deliveries -> HandlerState]
  BY DEF ToldInv, KeptInv, JoinedInv, JoinTypeOK
<1>1. /\ UNCHANGED <<saga, notified>>
      /\ \A d \in Deliveries :
             /\ handler'[d].seen = handler[d].seen
             /\ handler'[d].at \in {handler[d].at, "lost"}
             /\ handler[d].at = "done" => handler'[d].at = "done"
  BY <1>0, DeathIsPlain
<1>2. \A d \in Deliveries : /\ Prevents(d)' = Prevents(d)
                            /\ handler'[d].at \in Past => handler[d].at \in Past
                            /\ handler'[d].at \in Failing => handler[d].at \in Failing
  BY <1>1 DEF Prevents, Full, Saved, Past, Failing
<1>3. NewsInv'
  BY <1>1, <1>2 DEF ToldInv, NewsInv, Past, Failing
<1> QED
  BY <1>3, DeathKeepsKept DEF ToldInv

LEMMA KeptByAll ==
    ASSUME Redelivered = {}, KeptInv, [NotificationNext]_nvars
    PROVE  KeptInv'
<1>1. JoinTypeOK /\ StoreTypeOK /\ StoreTypeOK'
  BY SagaTyped DEF KeptInv, JoinedInv, JoinTypeOK
<1> QED
  BY <1>1, StepOfJoin, KeptStepAll, DeathKeepsKept, DocumentKeepsKept

LEMMA ToldByAll ==
    ASSUME Redelivered = {}, "redis" \notin Faults, ToldInv, [NotificationNext]_nvars
    PROVE  ToldInv'
<1>1. JoinTypeOK /\ StoreTypeOK /\ StoreTypeOK'
  BY SagaTyped DEF ToldInv, KeptInv, JoinedInv, JoinTypeOK
<1> QED
  BY <1>1, StepOfJoin, ToldStep, DeathKeepsTold, DocumentKeepsTold

(* A handler that is done stays done, and nothing that was told is taken   *)
(* back.                                                                   *)
LEMMA DoneStays ==
    ASSUME JoinTypeOK, [NotificationNext]_nvars
    PROVE  /\ \A d \in Deliveries : handler[d].at = "done" =>
                  handler'[d].at = "done" /\ handler'[d].booking = handler[d].booking
           /\ notified \subseteq notified'
<1>0. handler \in [Deliveries -> HandlerState]
  BY DEF JoinTypeOK
<1>1. CASE ProcessDies
  BY <1>0, <1>1, DeathIsPlain
<1>2. ASSUME NEW d \in Deliveries, Save(d) \/ Handle(d) \/ LoseHandler(d)
      PROVE  /\ handler[d].at # "done"
             /\ \A e \in Deliveries \ {d} : handler'[e] = handler[e]
             /\ notified \subseteq notified'
  BY <1>0, <1>2 DEF Save, Handle, LoseHandler, Handling, CountConfirmed,
     ReadForAggregation, WriteConfirmed, CountCompleted, Dequeue, CleanUp,
     SaveAggregationError, SaveAggregationMetadata, NotifyConfirmed, NotifyFailed,
     HandlerAt, HandlerGoTo
<1>3. CASE UNCHANGED joinVars
  BY <1>3 DEF joinVars
<1> QED
  BY <1>1, <1>2, <1>3, StepOfJoin DEF JoinNext, jvars, JoinTypeOK
-----------------------------------------------------------------------------
(* Every news on a channel is one that the service was told to send for    *)
(* the request of the channel. own[u] is the request that URL u was        *)
(* registered for: the registry forgets it, so the invariant remembers it. *)
Sent(r, n) == \E m \in notified : m.request = r /\ m.status = n
SentAfter(r, n) == \E m \in notified' : m.request = r /\ m.status = n

SourceInv(own) ==
    /\ \A q \in Ids : registry[q] # NoUrl =>
           registry[q] \in given /\ own[registry[q]] = q
    /\ \A d \in Deliveries : post[d].url # NoUrl =>
           post[d].url \in given /\ own[post[d].url] = d[2] /\ Sent(d[2], post[d].news)
    /\ \A u \in Urls : \A i \in DOMAIN inbox[u] : u \in given /\ Sent(own[u], inbox[u][i])
    /\ \A s \in Streams : \A i \in DOMAIN inbox[s] :
           stream[s].at # "new" /\ Sent(stream[s].id, inbox[s][i])

(* A URL receives CONFIRMED only from the one handler that drew a number   *)
(* for its request, and that handler posts once.                           *)
ConfirmedInv(own) ==
    /\ \A d \in Deliveries : post[d].url # NoUrl /\ post[d].news = "CONFIRMED" =>
           Drawn(d) /\ handler[d].at = "done"
    /\ \A u \in Urls : \A i, j \in DOMAIN inbox[u] :
           inbox[u][i] = "CONFIRMED" /\ inbox[u][j] = "CONFIRMED" => i = j
    /\ \A u \in Urls : \A i \in DOMAIN inbox[u] : inbox[u][i] = "CONFIRMED" =>
           \E d \in Deliveries : /\ d[2] = own[u] /\ Drawn(d)
                                 /\ handler[d].at = "done" /\ post[d].url = NoUrl

Owners == [Urls -> Ids \cup {NoUrl}]

HookInv == \E own \in Owners : SourceInv(own) /\ ConfirmedInv(own)

ChannelInv == NotificationTypeOK /\ KeptInv /\ HookInv

LEMMA HookInit == NotificationInit => HookInv
<1> SUFFICES ASSUME NotificationInit PROVE HookInv
  OBVIOUS
<1>1. /\ \A q \in Ids : registry[q] = NoUrl
      /\ \A d \in Deliveries : post[d].url = NoUrl
      /\ \A x \in Streams \cup Urls : DOMAIN inbox[x] = {}
  BY DEF NotificationInit, NoPost
<1>2. [u \in Urls |-> NoUrl] \in Owners
  BY DEF Owners
<1>3. SourceInv([u \in Urls |-> NoUrl]) /\ ConfirmedInv([u \in Urls |-> NoUrl])
  BY <1>1 DEF SourceInv, ConfirmedInv
<1> QED
  BY <1>2, <1>3 DEF HookInv

(* Telling the streams and starting a POST.                                *)
LEMMA NotifyKeepsHook ==
    ASSUME ChannelInv, [NotificationNext]_nvars, NEW d \in Deliveries, NEW n \in News,
           Notify(d, n), handler[d].at # "done", SentAfter(d[2], n),
           n = "CONFIRMED" => Drawn(d)' /\ handler'[d].at = "done"
    PROVE  HookInv'
<1>1. PICK own \in Owners : SourceInv(own) /\ ConfirmedInv(own)
  BY DEF ChannelInv, HookInv
<1>2. NotificationTypeOK /\ JoinTypeOK
  BY DEF ChannelInv, NotificationTypeOK
<1>3. /\ \A e \in Deliveries : handler[e].at = "done" =>
             handler'[e].at = "done" /\ (Drawn(e) => Drawn(e)')
      /\ \A r, p : Sent(r, p) => SentAfter(r, p)
  BY <1>2, DoneStays DEF Drawn, Sent, SentAfter
<1>4. /\ \A s \in Streams : \/ inbox'[s] = inbox[s]
                            \/ /\ inbox'[s] = Append(inbox[s], n)
                               /\ stream[s].id = d[2] /\ stream[s].at = "open"
      /\ \A u \in Urls : inbox'[u] = inbox[u]
      /\ post'[d].url = registry[d[2]] /\ post'[d].news = n
      /\ \A e \in Deliveries \ {d} : post'[e] = post[e]
      /\ UNCHANGED <<stream, registry, given>>
  BY <1>2, NotifyOnChannels
<1>5. d[2] \in Ids
  BY DeliveryIds
<1>6. SourceInv(own)'
  <2>1. \A q \in Ids : registry'[q] # NoUrl =>
            registry'[q] \in given' /\ own[registry'[q]] = q
    BY <1>1, <1>4 DEF SourceInv
  <2>2. \A e \in Deliveries : post'[e].url # NoUrl =>
            post'[e].url \in given' /\ own[post'[e].url] = e[2] /\ SentAfter(e[2], post'[e].news)
    BY <1>1, <1>3, <1>4, <1>5 DEF SourceInv
  <2>3. \A u \in Urls : \A i \in DOMAIN inbox'[u] :
            u \in given' /\ SentAfter(own[u], inbox'[u][i])
    BY <1>1, <1>3, <1>4 DEF SourceInv
  <2>4. ASSUME NEW s \in Streams, NEW i \in DOMAIN inbox'[s]
        PROVE  stream'[s].at # "new" /\ SentAfter(stream'[s].id, inbox'[s][i])
    <3>1. CASE inbox'[s] = inbox[s]
      BY <1>1, <1>3, <1>4, <2>4, <3>1 DEF SourceInv
    <3>2. CASE /\ inbox'[s] = Append(inbox[s], n)
               /\ stream[s].id = d[2] /\ stream[s].at = "open"
      <4>1. inbox[s] \in Seq(News)
        BY <1>2 DEF NotificationTypeOK
      <4>2. \/ i \in DOMAIN inbox[s] /\ inbox'[s][i] = inbox[s][i]
            \/ inbox'[s][i] = n
        BY <2>4, <3>2, <4>1, OneMore
      <4> QED
        BY <1>1, <1>3, <1>4, <3>2, <4>2 DEF SourceInv
    <3> QED
      BY <1>4, <3>1, <3>2
  <2> QED
    BY <2>1, <2>2, <2>3, <2>4 DEF SourceInv, Sent, SentAfter
<1>7. ConfirmedInv(own)'
  <2>1. \A e \in Deliveries : post'[e].url # NoUrl /\ post'[e].news = "CONFIRMED" =>
            Drawn(e)' /\ handler'[e].at = "done"
    BY <1>1, <1>3, <1>4 DEF ConfirmedInv
  <2>2. \A u \in Urls : \A i, j \in DOMAIN inbox'[u] :
            inbox'[u][i] = "CONFIRMED" /\ inbox'[u][j] = "CONFIRMED" => i = j
    BY <1>1, <1>4 DEF ConfirmedInv
  <2>3. \A u \in Urls : \A i \in DOMAIN inbox'[u] : inbox'[u][i] = "CONFIRMED" =>
            \E e \in Deliveries : /\ e[2] = own[u] /\ Drawn(e)'
                                  /\ handler'[e].at = "done" /\ post'[e].url = NoUrl
    BY <1>1, <1>3, <1>4 DEF ConfirmedInv
  <2> QED
    BY <2>1, <2>2, <2>3 DEF ConfirmedInv
<1> QED
  BY <1>1, <1>6, <1>7 DEF HookInv, Owners

(* The end of a POST. If it brings CONFIRMED, the URL had none: the one    *)
(* handler that could have sent it was still waiting for this POST.        *)
LEMMA PostKeepsHook ==
    ASSUME ChannelInv, NEW d \in Deliveries, PostSucceeds(d) \/ PostFails(d)
    PROVE  HookInv'
<1> DEFINE u == post[d].url
           n == post[d].news
<1>1. PICK own \in Owners : SourceInv(own) /\ ConfirmedInv(own)
  BY DEF ChannelInv, HookInv
<1>2. NotificationTypeOK /\ KeptInv
  BY DEF ChannelInv
<1>3. /\ u \in Urls /\ u # NoUrl /\ n \in News
      /\ inbox \in [Streams \cup Urls -> Seq(News)]
      /\ post \in [Deliveries -> [url : Urls \cup {NoUrl}, news : News]]
      /\ registry \in [Ids -> Urls \cup {NoUrl}]
      /\ \A s \in Streams : s # u
  BY <1>2, PostOnChannels, NotificationAssumption DEF NotificationTypeOK
<1>4. /\ \A x \in (Streams \cup Urls) \ {u} : inbox'[x] = inbox[x]
      /\ inbox'[u] \in {inbox[u], Append(inbox[u], n)}
      /\ post' = [post EXCEPT ![d] = NoPost]
      /\ registry' \in {registry, [registry EXCEPT ![d[2]] = NoUrl]}
      /\ UNCHANGED <<jvars, stream, given>>
  BY <1>2, PostOnChannels
<1>5. /\ UNCHANGED <<handler, notified>>
      /\ \A e \in Deliveries : Drawn(e)' = Drawn(e)
      /\ \A r, p : SentAfter(r, p) = Sent(r, p)
  BY <1>4 DEF jvars, joinVars, Drawn, Sent, SentAfter
<1>6. /\ post'[d].url = NoUrl
      /\ \A e \in Deliveries \ {d} : post'[e] = post[e]
      /\ \A q \in Ids : registry'[q] \in {registry[q], NoUrl}
  BY <1>3, <1>4 DEF NoPost
<1>7. u \in given /\ own[u] = d[2] /\ Sent(d[2], n)
  BY <1>1, <1>3 DEF SourceInv
<1>8. \A i \in DOMAIN inbox'[u] :
          \/ i \in DOMAIN inbox[u] /\ inbox'[u][i] = inbox[u][i]
          \/ inbox'[u] # inbox[u] /\ i = Len(inbox[u]) + 1 /\ inbox'[u][i] = n
  <2>1. inbox[u] \in Seq(News)
    BY <1>3
  <2>2. CASE inbox'[u] = inbox[u]
    BY <2>2
  <2>3. CASE inbox'[u] # inbox[u]
    <3>1. inbox'[u] = Append(inbox[u], n)
      BY <1>4, <2>3
    <3> HIDE DEF u, n
    <3> QED
      BY <1>3, <2>1, <2>3, <3>1, OneMore
  <2> QED
    BY <2>2, <2>3
<1> HIDE DEF u, n
<1>9. SourceInv(own)'
  <2>1. \A q \in Ids : registry'[q] # NoUrl =>
            registry'[q] \in given' /\ own[registry'[q]] = q
    BY <1>1, <1>4, <1>6 DEF SourceInv
  <2>2. \A e \in Deliveries : post'[e].url # NoUrl =>
            post'[e].url \in given' /\ own[post'[e].url] = e[2] /\ SentAfter(e[2], post'[e].news)
    BY <1>1, <1>4, <1>5, <1>6 DEF SourceInv
  <2>3. \A v \in Urls : \A i \in DOMAIN inbox'[v] :
            v \in given' /\ SentAfter(own[v], inbox'[v][i])
    BY <1>1, <1>3, <1>4, <1>5, <1>7, <1>8 DEF SourceInv
  <2>4. \A s \in Streams : \A i \in DOMAIN inbox'[s] :
            stream'[s].at # "new" /\ SentAfter(stream'[s].id, inbox'[s][i])
    BY <1>1, <1>3, <1>4, <1>5 DEF SourceInv
  <2> QED
    BY <2>1, <2>2, <2>3, <2>4 DEF SourceInv, Sent, SentAfter
<1>10. n = "CONFIRMED" =>
           /\ Drawn(d) /\ handler[d].at = "done"
           /\ \A i \in DOMAIN inbox[u] : inbox[u][i] # "CONFIRMED"
  <2> SUFFICES ASSUME n = "CONFIRMED"
               PROVE  /\ Drawn(d) /\ handler[d].at = "done"
                      /\ \A i \in DOMAIN inbox[u] : inbox[u][i] # "CONFIRMED"
    OBVIOUS
  <2>1. Drawn(d) /\ handler[d].at = "done"
    BY <1>1, <1>3 DEF ConfirmedInv, u, n
  <2>2. \A e \in Deliveries : e[2] = d[2] /\ Drawn(e) => e = d
    BY <1>2, <2>1 DEF KeptInv, OnceInv
  <2>3. ASSUME NEW i \in DOMAIN inbox[u], inbox[u][i] = "CONFIRMED"
        PROVE  FALSE
    <3>1. PICK e \in Deliveries : e[2] = own[u] /\ Drawn(e) /\ post[e].url = NoUrl
      BY <1>1, <1>3, <2>3 DEF ConfirmedInv
    <3> QED
      BY <1>3, <1>7, <2>2, <3>1 DEF u
  <2> QED
    BY <2>1, <2>3
<1>11. ConfirmedInv(own)'
  <2>1. \A e \in Deliveries : post'[e].url # NoUrl /\ post'[e].news = "CONFIRMED" =>
            Drawn(e)' /\ handler'[e].at = "done"
    BY <1>1, <1>5, <1>6 DEF ConfirmedInv
  <2>2. ASSUME NEW v \in Urls, NEW i \in DOMAIN inbox'[v], NEW j \in DOMAIN inbox'[v],
               inbox'[v][i] = "CONFIRMED", inbox'[v][j] = "CONFIRMED"
        PROVE  i = j
    <3>1. CASE v # u
      BY <1>1, <1>4, <2>2, <3>1 DEF ConfirmedInv
    <3>2. CASE v = u
      BY <1>1, <1>3, <1>8, <1>10, <2>2, <3>2 DEF ConfirmedInv
    <3> QED
      BY <3>1, <3>2
  <2>3. ASSUME NEW v \in Urls, NEW i \in DOMAIN inbox'[v], inbox'[v][i] = "CONFIRMED"
        PROVE  \E e \in Deliveries : /\ e[2] = own[v] /\ Drawn(e)'
                                     /\ handler'[e].at = "done" /\ post'[e].url = NoUrl
    <3>1. CASE i \in DOMAIN inbox[v] /\ inbox[v][i] = "CONFIRMED"
      <4>1. PICK e \in Deliveries : /\ e[2] = own[v] /\ Drawn(e)
                                    /\ handler[e].at = "done" /\ post[e].url = NoUrl
        BY <1>1, <3>1 DEF ConfirmedInv
      <4> QED
        BY <1>5, <1>6, <4>1
    <3>2. CASE v = u /\ n = "CONFIRMED"
      BY <1>5, <1>6, <1>7, <1>10, <3>2
    <3> QED
      BY <1>3, <1>4, <1>8, <2>3, <3>1, <3>2
  <2> QED
    BY <2>1, <2>2, <2>3 DEF ConfirmedInv
<1> QED
  BY <1>1, <1>9, <1>11 DEF HookInv, Owners

(* A new URL has received nothing, and no POST is on its way to it.        *)
LEMMA RegisterKeepsHook ==
    ASSUME ChannelInv, NEW r \in Ids, NEW u \in Urls, RegisterWebhook(r, u)
    PROVE  HookInv'
<1>1. PICK own \in Owners : SourceInv(own) /\ ConfirmedInv(own)
  BY DEF ChannelInv, HookInv
<1> DEFINE now == [own EXCEPT ![u] = r]
<1>2. /\ u \notin given
      /\ given' = given \cup {u}
      /\ registry' = [registry EXCEPT ![r] = u]
      /\ UNCHANGED <<jvars, stream, post, inbox>>
      /\ registry \in [Ids -> Urls \cup {NoUrl}]
  BY DEF RegisterWebhook, ChannelInv, NotificationTypeOK
<1>3. /\ UNCHANGED handler
      /\ \A e \in Deliveries : Drawn(e)' = Drawn(e)
      /\ \A q, p : SentAfter(q, p) = Sent(q, p)
  BY <1>2 DEF jvars, joinVars, Drawn, Sent, SentAfter
<1>4. now \in Owners /\ now[u] = r /\ \A v \in Urls \ {u} : now[v] = own[v]
  BY <1>1 DEF Owners
<1> HIDE DEF now
<1>5. given \subseteq Urls
  BY DEF ChannelInv, NotificationTypeOK
<1>6. SourceInv(now)'
  <2>1. \A q \in Ids : registry'[q] # NoUrl =>
            registry'[q] \in given' /\ now[registry'[q]] = q
    BY <1>1, <1>2, <1>4, <1>5 DEF SourceInv
  <2>2. \A e \in Deliveries : post'[e].url # NoUrl =>
            post'[e].url \in given' /\ now[post'[e].url] = e[2] /\ SentAfter(e[2], post'[e].news)
    BY <1>1, <1>2, <1>3, <1>4, <1>5 DEF SourceInv
  <2>3. \A v \in Urls : \A i \in DOMAIN inbox'[v] :
            v \in given' /\ SentAfter(now[v], inbox'[v][i])
    BY <1>1, <1>2, <1>3, <1>4 DEF SourceInv
  <2>4. \A s \in Streams : \A i \in DOMAIN inbox'[s] :
            stream'[s].at # "new" /\ SentAfter(stream'[s].id, inbox'[s][i])
    BY <1>1, <1>2, <1>3 DEF SourceInv
  <2> QED
    BY <2>1, <2>2, <2>3, <2>4 DEF SourceInv, Sent, SentAfter
<1>7. ConfirmedInv(now)'
  <2>1. \A e \in Deliveries : post'[e].url # NoUrl /\ post'[e].news = "CONFIRMED" =>
            Drawn(e)' /\ handler'[e].at = "done"
    BY <1>1, <1>2, <1>3 DEF ConfirmedInv
  <2>2. \A v \in Urls : \A i, j \in DOMAIN inbox'[v] :
            inbox'[v][i] = "CONFIRMED" /\ inbox'[v][j] = "CONFIRMED" => i = j
    BY <1>1, <1>2 DEF ConfirmedInv
  <2>3. ASSUME NEW v \in Urls, NEW i \in DOMAIN inbox'[v], inbox'[v][i] = "CONFIRMED"
        PROVE  \E e \in Deliveries : /\ e[2] = now[v] /\ Drawn(e)'
                                     /\ handler'[e].at = "done" /\ post'[e].url = NoUrl
    <3>1. v # u
      BY <1>1, <1>2, <2>3 DEF SourceInv
    <3> QED
      BY <1>1, <1>2, <1>3, <1>4, <2>3, <3>1 DEF ConfirmedInv
  <2> QED
    BY <2>1, <2>2, <2>3 DEF ConfirmedInv
<1> QED
  BY <1>4, <1>6, <1>7 DEF HookInv, Owners

(* Every other step leaves the inboxes alone, adds no URL and no POST, and *)
(* moves no stream to another request but a new one.                       *)
Quiet ==
    /\ inbox' = inbox
    /\ given' = given
    /\ \A q \in Ids : registry'[q] \in {registry[q], NoUrl}
    /\ \A d \in Deliveries : post'[d] = post[d] \/ post'[d].url = NoUrl
    /\ \A s \in Streams : stream[s].at # "new" =>
           stream'[s].at # "new" /\ stream'[s].id = stream[s].id

LEMMA QuietKeepsHook ==
    ASSUME ChannelInv, [NotificationNext]_nvars, Quiet
    PROVE  HookInv'
<1> USE DEF Quiet
<1>1. PICK own \in Owners : SourceInv(own) /\ ConfirmedInv(own)
  BY DEF ChannelInv, HookInv
<1>2. JoinTypeOK
  BY DEF ChannelInv, NotificationTypeOK
<1>3. /\ \A e \in Deliveries : handler[e].at = "done" =>
             handler'[e].at = "done" /\ (Drawn(e) => Drawn(e)')
      /\ \A r, p : Sent(r, p) => SentAfter(r, p)
  BY <1>2, DoneStays DEF Drawn, Sent, SentAfter
<1>4. SourceInv(own)'
  <2>1. \A q \in Ids : registry'[q] # NoUrl =>
            registry'[q] \in given' /\ own[registry'[q]] = q
    BY <1>1 DEF SourceInv
  <2>2. \A e \in Deliveries : post'[e].url # NoUrl =>
            post'[e].url \in given' /\ own[post'[e].url] = e[2] /\ SentAfter(e[2], post'[e].news)
    BY <1>1, <1>3 DEF SourceInv
  <2>3. \A u \in Urls : \A i \in DOMAIN inbox'[u] :
            u \in given' /\ SentAfter(own[u], inbox'[u][i])
    BY <1>1, <1>3 DEF SourceInv
  <2>4. \A s \in Streams : \A i \in DOMAIN inbox'[s] :
            stream'[s].at # "new" /\ SentAfter(stream'[s].id, inbox'[s][i])
    BY <1>1, <1>3 DEF SourceInv
  <2> QED
    BY <2>1, <2>2, <2>3, <2>4 DEF SourceInv, Sent, SentAfter
<1>5. ConfirmedInv(own)'
  <2>1. \A e \in Deliveries : post'[e].url # NoUrl /\ post'[e].news = "CONFIRMED" =>
            Drawn(e)' /\ handler'[e].at = "done"
    BY <1>1, <1>3 DEF ConfirmedInv
  <2>2. \A u \in Urls : \A i, j \in DOMAIN inbox'[u] :
            inbox'[u][i] = "CONFIRMED" /\ inbox'[u][j] = "CONFIRMED" => i = j
    BY <1>1 DEF ConfirmedInv
  <2>3. ASSUME NEW u \in Urls, NEW i \in DOMAIN inbox'[u], inbox'[u][i] = "CONFIRMED"
        PROVE  \E e \in Deliveries : /\ e[2] = own[u] /\ Drawn(e)'
                                     /\ handler'[e].at = "done" /\ post'[e].url = NoUrl
    <3>1. PICK e \in Deliveries : /\ e[2] = own[u] /\ Drawn(e)
                                  /\ handler[e].at = "done" /\ post[e].url = NoUrl
      BY <1>1, <2>3 DEF ConfirmedInv
    <3> QED
      BY <1>3, <3>1
  <2> QED
    BY <2>1, <2>2, <2>3 DEF ConfirmedInv
<1> QED
  BY <1>1, <1>4, <1>5 DEF HookInv, Owners

LEMMA ChannelStep ==
    ASSUME Redelivered = {}, ChannelInv, [NotificationNext]_nvars
    PROVE  ChannelInv'
<1>0. /\ NotificationTypeOK' /\ KeptInv'
      /\ handler \in [Deliveries -> HandlerState]
      /\ \A d \in Deliveries : d[2] \in Requests
  BY NotificationTypeStep, KeptByAll, DeliveryParts DEF ChannelInv, NotificationTypeOK,
     JoinTypeOK
<1>1. ASSUME NEW s \in Streams, NEW i \in Ids, OpenStream(s, i)
      PROVE  HookInv'
  <2>1. Quiet
    BY <1>1 DEF Quiet, OpenStream, ChannelInv, NotificationTypeOK
  <2> QED
    BY <2>1, QuietKeepsHook
<1>2. ASSUME NEW s \in Streams, CloseStream(s)
      PROVE  HookInv'
  <2>1. Quiet
    BY <1>2 DEF Quiet, CloseStream, ChannelInv, NotificationTypeOK
  <2> QED
    BY <2>1, QuietKeepsHook
<1>3. ASSUME NEW i \in Ids, NEW u \in Urls, RegisterWebhook(i, u)
      PROVE  HookInv'
  BY <1>3, RegisterKeepsHook
<1>4. ASSUME NEW d \in Deliveries, NotifyConfirmed(d), Notify(d, "CONFIRMED")
      PROVE  HookInv'
  <2>1. handler[d].at = "notify" /\ handler'[d].at = "done" /\ SentAfter(d[2], "CONFIRMED")
    <3>1. handler[d].at = "notify" /\ handler' = [handler EXCEPT ![d].at = "done"]
      BY <1>4 DEF NotifyConfirmed, HandlerAt, HandlerGoTo
    <3>2. [request |-> d[2], status |-> "CONFIRMED", booking |-> handler[d].booking]
              \in notified'
      BY <1>4 DEF NotifyConfirmed
    <3>3. SentAfter(d[2], "CONFIRMED")
      BY <3>2 DEF SentAfter
    <3> QED
      BY <1>0, <3>1, <3>3 DEF HandlerState
  <2>2. Drawn(d)'
    <3>1. Drawn(d)
      BY <2>1 DEF ChannelInv, KeptInv, JoinedInv, NumberInv
    <3> QED
      BY <1>0, <1>4, <3>1 DEF NotifyConfirmed, HandlerGoTo, HandlerState, Drawn
  <2> QED
    BY <1>4, <2>1, <2>2, NotifyKeepsHook DEF News
<1>5. ASSUME NEW d \in Deliveries, NotifyFailed(d), Notify(d, "failed")
      PROVE  HookInv'
  <2>1. handler[d].at = "failed" /\ SentAfter(d[2], "failed")
    <3>1. [request |-> d[2], status |-> "failed", booking |-> 0] \in notified'
      BY <1>5 DEF NotifyFailed
    <3>2. SentAfter(d[2], "failed")
      BY <3>1 DEF SentAfter
    <3> QED
      BY <1>5, <3>2 DEF NotifyFailed, HandlerAt
  <2>2. "failed" \in News /\ "failed" # "CONFIRMED"
    BY DEF News
  <2> QED
    BY <1>5, <2>1, <2>2, NotifyKeepsHook
<1>6. ASSUME NEW d \in Deliveries, PostSucceeds(d) \/ PostFails(d)
      PROVE  HookInv'
  BY <1>6, PostKeepsHook
<1>7. ASSUME ProcessDies
      PROVE  HookInv'
  <2>1. /\ inbox' = inbox /\ given' = given
        /\ \A q \in Ids : registry'[q] = NoUrl
        /\ \A d \in Deliveries : post'[d].url = NoUrl
    BY <1>7 DEF ProcessDies, NoPost
  <2>2. ASSUME NEW s \in Streams, stream[s].at # "new"
        PROVE  stream'[s].at # "new" /\ stream'[s].id = stream[s].id
    <3>1. stream[s] \in [id : Ids, at : {"new", "open", "closed"}]
      BY DEF ChannelInv, NotificationTypeOK
    <3>2. stream'[s] = IF stream[s].at = "open" THEN [stream[s] EXCEPT !.at = "closed"]
                       ELSE stream[s]
      BY <1>7 DEF ProcessDies
    <3> QED
      BY <2>2, <3>1, <3>2
  <2>3. Quiet
    BY <2>1, <2>2 DEF Quiet
  <2> QED
    BY <2>3, QuietKeepsHook
<1>8. ASSUME UNCHANGED channelVars
      PROVE  HookInv'
  <2>1. Quiet
    BY <1>8 DEF Quiet, channelVars
  <2> QED
    BY <2>1, QuietKeepsHook
<1>9. HookInv'
  <2>1. ASSUME NEW d \in Deliveries, HandleAndNotify(d)
        PROVE  HookInv'
    BY <1>4, <1>5, <1>8, <2>1 DEF HandleAndNotify
  <2>2. CASE UNCHANGED nvars
    BY <1>8, <2>2 DEF nvars
  <2> QED
    BY <1>1, <1>2, <1>3, <1>6, <1>7, <1>8, <2>1, <2>2 DEF NotificationNext, CallFails
<1> QED
  BY <1>0, <1>9 DEF ChannelInv

LEMMA ChannelInit == NotificationInit => ChannelInv
BY NotificationTypeInit, HookInit, KeptInit DEF NotificationInit, ChannelInv

(* Without redelivery no URL is told CONFIRMED twice, whatever answers of  *)
(* POSTs are lost, whichever URLs replace each other, whatever fails, and  *)
(* whenever the process dies.                                              *)
THEOREM HookConfirmedOnceHolds ==
    ASSUME Redelivered = {}
    PROVE  NotificationSpec => []HookConfirmedOnce
<1>1. ChannelInv => HookConfirmedOnce
  <2> SUFFICES ASSUME ChannelInv, NEW u \in Urls
               PROVE  Cardinality({i \in DOMAIN inbox[u] : inbox[u][i] = "CONFIRMED"}) <= 1
    BY DEF HookConfirmedOnce
  <2> DEFINE told == {i \in DOMAIN inbox[u] : inbox[u][i] = "CONFIRMED"}
  <2>1. \A i, j \in told : i = j
    BY DEF ChannelInv, HookInv, ConfirmedInv
  <2>2. told = {} \/ \E i : told = {i}
    BY <2>1
  <2>3. Cardinality(told) = 0 \/ Cardinality(told) = 1
    BY <2>2, FS_EmptySet, FS_Singleton
  <2> QED
    BY <2>3
<1>2. ChannelInv /\ [NotificationNext]_nvars => ChannelInv'
  BY ChannelStep
<1> QED
  BY <1>1, <1>2, ChannelInit, PTL DEF NotificationSpec

(* If Redis answers as well, the news on every channel agree with the      *)
(* booking number that is stored, also when calls of execute fail the saga *)
(* in between: a stream or URL that was told CONFIRMED has a number, one   *)
(* that was told of a failure has none, and none is told both.             *)
THEOREM NewsIsStoredHolds ==
    ASSUME Redelivered = {}, "redis" \notin Faults
    PROVE  NotificationSpec => []NewsIsStored
<1>1. ASSUME ChannelInv, ToldInv
      PROVE  NewsIsStored
  <2>0. PICK own \in Owners : SourceInv(own)
    BY <1>1 DEF ChannelInv, HookInv
  <2>1. \A r, n : Sent(r, n) =>
            n \in News /\ (n = "CONFIRMED" <=> saga[r].bookingId # 0)
    BY <1>1 DEF Sent, ToldInv, NewsInv, KeptInv, JoinedInv, JoinTypeOK, Notification, News
  <2>2. \A s \in Streams : \A i \in DOMAIN inbox[s] :
            inbox[s][i] = "CONFIRMED" <=> saga[stream[s].id].bookingId # 0
    BY <2>0, <2>1 DEF SourceInv
  <2>3. \A d \in Deliveries : post[d].url # NoUrl =>
            (post[d].news = "CONFIRMED" <=> saga[d[2]].bookingId # 0)
    BY <2>0, <2>1 DEF SourceInv
  <2>4. \A u \in Urls : \A i, j \in DOMAIN inbox[u] : inbox[u][i] = inbox[u][j]
    BY <2>0, <2>1 DEF SourceInv, News
  <2> QED
    BY <2>2, <2>3, <2>4 DEF NewsIsStored
<1>2. ChannelInv /\ ToldInv /\ [NotificationNext]_nvars => (ChannelInv /\ ToldInv)'
  BY ChannelStep, ToldByAll
<1>3. NotificationInit => ToldInv
  BY ToldInit DEF NotificationInit
<1> QED
  BY <1>1, <1>2, <1>3, ChannelInit, PTL DEF NotificationSpec
=============================================================================
