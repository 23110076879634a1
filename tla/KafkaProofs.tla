----------------------------- MODULE KafkaProofs -----------------------------
(***************************************************************************)
(* The delivery semantics of KafkaDelivery, for any messages, bounds and   *)
(* faults: the consumer's position has only handled records behind it.     *)
(***************************************************************************)
EXTENDS KafkaDelivery, FiniteSetTheorems, TLAPS

Sent == {m \in Messages : sender[m] = "sent"}

(* Every record beyond MaxLog is the last one of a message that was        *)
(* acknowledged.                                                           *)
LogInv ==
    /\ semantics \in Semantics
    /\ sender \in [Messages -> {"idle", "sending", "sent", "failed"}]
    /\ log \in Seq(Messages)
    /\ Len(log) <= MaxLog + Cardinality(Sent)

PositionInv ==
    /\ next \in 1 .. (Len(log) + 1)
    /\ tries \in 0 .. 2
    /\ busy \in BOOLEAN /\ (busy => next <= Len(log))
    /\ committed \in 1 .. next
    /\ handled \in [Offsets -> Nat]
    /\ crashes \in 0 .. MaxCrashes

HandledInv ==
    /\ semantics # "at-most-once" => \A o \in 1 .. (next - 1) : handled[o] > 0
    /\ HandledInOrder
    /\ \A o \in Offsets : handled[o] <= (IF o < next THEN crashes + 1 ELSE crashes)

KafkaInv == LogInv /\ PositionInv /\ HandledInv

LEMMA SentIsFinite ==
    /\ Cardinality(Messages) \in Nat
    /\ \A S \in SUBSET Messages :
           IsFiniteSet(S) /\ Cardinality(S) \in Nat /\ Cardinality(S) <= Cardinality(Messages)
BY KafkaAssumption, FS_Subset, FS_CardinalityType

LEMMA LogIsBounded ==
    ASSUME LogInv
    PROVE  Len(log) \in Nat /\ 1 .. Len(log) \subseteq Offsets
                /\ Len(log) <= MaxLog + Cardinality(Messages)
<1>1. /\ Cardinality(Sent) \in Nat /\ Cardinality(Messages) \in Nat
      /\ Cardinality(Sent) <= Cardinality(Messages)
  BY SentIsFinite DEF Sent
<1>2. Len(log) \in Nat
  BY DEF LogInv
<1> QED
  BY <1>1, <1>2, KafkaAssumption DEF LogInv, Offsets

LEMMA KafkaInitInv == KafkaInit => KafkaInv
<1> SUFFICES ASSUME KafkaInit PROVE KafkaInv
  OBVIOUS
<1>1. Cardinality(Sent) \in Nat
  BY SentIsFinite DEF Sent
<1>2. LogInv
  BY <1>1, KafkaAssumption DEF KafkaInit, LogInv
<1>3. PositionInv
  <2>1. Len(log) = 0 /\ MaxCrashes \in Nat
    BY KafkaAssumption DEF KafkaInit
  <2>2. /\ next = 1 /\ tries = 0 /\ busy = FALSE /\ committed = 1 /\ crashes = 0
        /\ handled \in [Offsets -> Nat]
    BY DEF KafkaInit
  <2>3. busy \in BOOLEAN /\ (busy => next <= Len(log))
    BY <2>2
  <2>4. next \in 1 .. (Len(log) + 1) /\ tries \in 0 .. 2 /\ committed \in 1 .. next
    BY <2>1, <2>2
  <2>5. crashes \in 0 .. MaxCrashes
    BY <2>1, <2>2
  <2> QED
    BY <2>2, <2>3, <2>4, <2>5 DEF PositionInv
<1>4. HandledInv
  BY DEF KafkaInit, HandledInv, HandledInOrder
<1> QED
  BY <1>2, <1>3, <1>4 DEF KafkaInv
-----------------------------------------------------------------------------
(* The producer only adds to the log.                                      *)
LEMMA AppendsOne ==
    ASSUME log \in Seq(Messages), NEW m \in Messages, AppendRecord(m)
    PROVE  log' \in Seq(Messages) /\ (Len(log') = Len(log) \/ Len(log') = Len(log) + 1)
BY DEF AppendRecord

LEMMA ProducerKeepsLog ==
    ASSUME LogInv, NEW m \in Messages, Send(m) \/ Acknowledge(m) \/ LoseAck(m)
    PROVE  LogInv' /\ Len(log') >= Len(log) /\ UNCHANGED <<semantics, consumerVars>>
<1> USE DEF LogInv
<1>0. /\ IsFiniteSet(Sent) /\ Cardinality(Sent) \in Nat /\ MaxLog \in Nat
      /\ Len(log) \in Nat
  BY SentIsFinite, KafkaAssumption DEF Sent
<1>1. CASE Send(m)
  <2>1. Sent' = Sent
    BY <1>1 DEF Send, Sent
  <2> QED
    BY <1>0, <1>1, <2>1 DEF Send
<1>2. CASE Acknowledge(m)
  <2>1. Sent' = Sent \cup {m} /\ m \notin Sent
    BY <1>2 DEF Acknowledge, Sent
  <2>2. Cardinality(Sent') = Cardinality(Sent) + 1
    BY <1>0, <2>1, FS_AddElement
  <2>3. log' \in Seq(Messages) /\ (Len(log') = Len(log) \/ Len(log') = Len(log) + 1)
    BY <1>2, AppendsOne DEF Acknowledge
  <2> QED
    BY <1>0, <1>2, <2>2, <2>3 DEF Acknowledge
<1>3. CASE LoseAck(m)
  <2>1. Sent' = Sent
    BY <1>3 DEF LoseAck, Sent
  <2>2. /\ log' \in Seq(Messages)
        /\ Len(log') = Len(log) \/ (Len(log) < MaxLog /\ Len(log') = Len(log) + 1)
    BY <1>3, AppendsOne DEF LoseAck
  <2> QED
    BY <1>0, <1>3, <2>1, <2>2 DEF LoseAck
<1> QED
  BY <1>1, <1>2, <1>3

LEMMA ProducerKeeps ==
    ASSUME KafkaInv, NEW m \in Messages, Send(m) \/ Acknowledge(m) \/ LoseAck(m)
    PROVE  KafkaInv'
<1>1. LogInv' /\ Len(log') >= Len(log) /\ UNCHANGED <<semantics, consumerVars>>
  BY ProducerKeepsLog DEF KafkaInv
<1>2. Len(log) \in Nat /\ Len(log') \in Nat
  BY <1>1 DEF KafkaInv, LogInv
<1> QED
  BY <1>1, <1>2 DEF KafkaInv, PositionInv, HandledInv, HandledInOrder, consumerVars
-----------------------------------------------------------------------------
(* The consumer handles the record at its position and moves on.           *)
LEMMA ConsumerKeeps ==
    ASSUME KafkaInv, Deliver \/ HandlerSucceeds \/ HandlerFails \/ Commit \/ Crash
    PROVE  KafkaInv'
<1>0. /\ Len(log) \in Nat /\ 1 .. Len(log) \subseteq Offsets /\ MaxCrashes \in Nat
      /\ \A o \in Offsets : o \in Nat /\ o > 0 /\ handled[o] \in Nat
      /\ Offsets \subseteq Nat
  BY LogIsBounded, SentIsFinite, KafkaAssumption DEF KafkaInv, PositionInv, Offsets
<1>1. LogInv' /\ log' = log /\ semantics' = semantics
  BY DEF KafkaInv, LogInv, Deliver, HandlerSucceeds, HandlerFails, Commit, Crash, producerVars,
         Sent
<1> USE DEF KafkaInv
<1>2. CASE Deliver
  BY <1>0, <1>1, <1>2 DEF Deliver, PositionInv, HandledInv, HandledInOrder
<1>3. CASE HandlerSucceeds
  <2>1. next \in Offsets /\ next <= Len(log) /\ next \in Nat /\ crashes \in Nat
    BY <1>0, <1>3 DEF HandlerSucceeds, PositionInv
  <2>2. /\ handled' \in [Offsets -> Nat]
        /\ \A o \in Offsets : handled'[o] = IF o = next THEN handled[o] + 1 ELSE handled[o]
        /\ next' = next + 1 /\ busy' = FALSE
        /\ UNCHANGED <<tries, committed, crashes>>
    BY <1>0, <1>3, <2>1 DEF HandlerSucceeds, PositionInv
  <2>3. PositionInv'
    <3>1. committed \in 1 .. next /\ committed \in Nat /\ 1 <= committed /\ committed <= next
      BY <2>1 DEF PositionInv
    <3>2. next' \in 1 .. (Len(log') + 1) /\ committed' \in 1 .. next'
      BY <1>0, <1>1, <2>1, <2>2, <3>1
    <3> QED
      BY <2>2, <3>2 DEF PositionInv
  <2>4. semantics # "at-most-once" => \A o \in 1 .. (next' - 1) : handled'[o] > 0
    BY <1>0, <2>1, <2>2 DEF HandledInv
  <2>5. HandledInOrder'
    BY <1>0, <1>1, <2>1, <2>2 DEF HandledInv, HandledInOrder
  <2>6. \A o \in Offsets : handled'[o] <= (IF o < next' THEN crashes + 1 ELSE crashes)
    BY <1>0, <2>1, <2>2 DEF HandledInv
  <2> QED
    BY <1>1, <2>2, <2>3, <2>4, <2>5, <2>6 DEF HandledInv
<1>4. CASE HandlerFails
  <2>1. busy /\ next <= Len(log) /\ next \in Nat /\ crashes \in Nat
    BY <1>0, <1>4 DEF HandlerFails, PositionInv
  <2>2. /\ UNCHANGED <<committed, handled, crashes>>
        /\ next' = next \/ (next' = next + 1 /\ semantics = "at-most-once")
        /\ tries' \in 0 .. 2
        /\ busy' \in BOOLEAN /\ (busy' => next' = next)
    <3>1. CASE tries + 1 < MaxRetries /\ tries' = tries + 1 /\ UNCHANGED <<busy, next>>
      BY <1>4, <2>1, <3>1 DEF HandlerFails, PositionInv, MaxRetries
    <3>2. CASE /\ busy' = FALSE /\ UNCHANGED tries
               /\ next' = IF semantics = "at-most-once" THEN next + 1 ELSE next
      BY <1>4, <3>2 DEF HandlerFails, PositionInv
    <3> QED
      BY <1>4, <3>1, <3>2 DEF HandlerFails
  <2>3. PositionInv'
    <3>1. committed \in 1 .. next /\ committed \in Nat /\ 1 <= committed /\ committed <= next
      BY <2>1 DEF PositionInv
    <3>2. next' \in 1 .. (Len(log') + 1) /\ committed' \in 1 .. next'
      BY <1>0, <1>1, <2>1, <2>2, <3>1
    <3>3. busy' => next' <= Len(log')
      BY <1>1, <2>1, <2>2
    <3> QED
      BY <2>2, <3>2, <3>3 DEF PositionInv
  <2>4. \A o \in Offsets : handled[o] <= (IF o < next' THEN crashes + 1 ELSE crashes)
    BY <1>0, <2>1, <2>2 DEF HandledInv
  <2>5. semantics # "at-most-once" => \A o \in 1 .. (next' - 1) : handled[o] > 0
    BY <2>2 DEF HandledInv
  <2> QED
    BY <1>1, <2>2, <2>3, <2>4, <2>5 DEF HandledInv, HandledInOrder
<1>5. CASE Commit
  BY <1>0, <1>1, <1>5 DEF Commit, PositionInv, HandledInv, HandledInOrder
<1>6. CASE Crash
  <2>1. /\ committed \in Nat /\ next \in Nat /\ crashes \in Nat /\ committed <= next
        /\ committed >= 1 /\ next <= Len(log) + 1
    BY <1>0 DEF PositionInv
  <2>2. /\ next' = committed /\ busy' = FALSE /\ crashes' = crashes + 1
        /\ crashes' \in 0 .. MaxCrashes
        /\ UNCHANGED <<tries, committed, handled>>
    BY <1>0, <1>6, <2>1 DEF Crash
  <2>3. PositionInv'
    <3>1. next' \in 1 .. (Len(log') + 1) /\ committed' \in 1 .. next'
      BY <1>0, <1>1, <2>1, <2>2
    <3> QED
      BY <2>2, <3>1 DEF PositionInv
  <2>4. \A o \in Offsets : handled[o] <= crashes + 1
    BY <1>0, <2>1 DEF HandledInv
  <2>5. semantics # "at-most-once" => \A o \in 1 .. (committed - 1) : handled[o] > 0
    BY <2>1 DEF HandledInv
  <2>6. \A o \in Offsets : handled'[o] <= (IF o < next' THEN crashes' + 1 ELSE crashes')
    BY <1>0, <2>2, <2>1, <2>4
  <2>7. HandledInOrder'
    BY <1>1, <2>2 DEF HandledInv, HandledInOrder
  <2> QED
    BY <1>1, <2>2, <2>3, <2>5, <2>6, <2>7 DEF HandledInv
<1> QED
  BY <1>2, <1>3, <1>4, <1>5, <1>6

LEMMA KafkaStep == KafkaInv /\ [KafkaNext]_kvars => KafkaInv'
<1>1. ASSUME KafkaInv, UNCHANGED kvars PROVE KafkaInv'
  BY <1>1 DEF KafkaInv, LogInv, PositionInv, HandledInv, HandledInOrder, Sent, kvars,
              producerVars, consumerVars
<1> QED
  BY <1>1, ProducerKeeps, ConsumerKeeps DEF KafkaNext

LEMMA KafkaInvariance == KafkaSpec => []KafkaInv
BY KafkaInitInv, KafkaStep, PTL DEF KafkaSpec

(* Type correctness; the log stays within its bound because a message that *)
(* was acknowledged is not sent again.                                     *)
THEOREM KafkaTypesOK == KafkaSpec => []KafkaTypeOK
<1>1. ASSUME KafkaInv PROVE KafkaTypeOK
  <2>1. Len(log) \in 0 .. (MaxLog + Cardinality(Messages))
    BY <1>1, LogIsBounded, SentIsFinite, KafkaAssumption DEF KafkaInv
  <2> QED
    BY <1>1, <2>1 DEF KafkaInv, LogInv, PositionInv, KafkaTypeOK
<1> QED
  BY <1>1, KafkaInvariance, PTL

(* Under at-least-once and exactly-once no offset is committed before the  *)
(* handler has succeeded with all that is behind it, whatever is lost,     *)
(* retried, delivered again or restarted.                                  *)
THEOREM NothingCommittedUnhandled == KafkaSpec => []CommittedIsHandled
<1>1. ASSUME KafkaInv PROVE CommittedIsHandled
  <2>1. committed \in Nat /\ next \in Nat /\ committed <= next
    BY <1>1 DEF KafkaInv, PositionInv, LogInv
  <2> QED
    BY <1>1, <2>1 DEF KafkaInv, HandledInv, CommittedIsHandled
<1> QED
  BY <1>1, KafkaInvariance, PTL

(* Under the same two, no record is handled before one that is in front of *)
(* it, although a failing record is delivered again.                       *)
THEOREM RecordsHandledInOrder == KafkaSpec => []HandledInOrder
<1>1. KafkaInv => HandledInOrder
  BY DEF KafkaInv, HandledInv
<1> QED
  BY <1>1, KafkaInvariance, PTL

(* Without a crash a record is handled once, under any semantics: neither  *)
(* the loop of attempts nor a redelivery follows a success.                *)
THEOREM RepetitionNeedsCrash == KafkaSpec => []RepeatedOnlyByCrash
<1>1. ASSUME KafkaInv PROVE RepeatedOnlyByCrash
  <2>1. \A o \in Offsets : handled[o] \in Nat /\ crashes \in Nat
    BY <1>1, KafkaAssumption DEF KafkaInv, PositionInv
  <2> QED
    BY <1>1, <2>1 DEF KafkaInv, HandledInv, RepeatedOnlyByCrash
<1> QED
  BY <1>1, KafkaInvariance, PTL
=============================================================================
