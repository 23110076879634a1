---------------------------- MODULE KafkaDelivery ----------------------------
(***************************************************************************)
(* A topic with one partition between the producer strategies, behind      *)
(* KafkaProducerService.send, and the consumer strategies, as the          *)
(* eachMessage callback of KafkaConsumerService.run. kafkajs and the       *)
(* broker are external: acknowledgements, offsets and redelivery are as    *)
(* the strategies rely on them.                                            *)
(***************************************************************************)
EXTENDS Naturals, SequencesExt

CONSTANTS
    Messages,       \* messages that clients send, each once
    Semantics,      \* delivery semantics that this instance covers
    KafkaFaults,    \* which of "ack", "handler", "crash" may happen
    MaxLog,         \* bound: records that lost acknowledgements may leave
    MaxCrashes      \* bound: crashes of the consumer

DeliverySemantics == {"at-most-once", "at-least-once", "exactly-once"}

ASSUME KafkaAssumption ==
    /\ IsFiniteSet(Messages)
    /\ Semantics \subseteq DeliverySemantics
    /\ KafkaFaults \subseteq {"ack", "handler", "crash"}
    /\ MaxLog \in Nat /\ MaxCrashes \in Nat

VARIABLES
    semantics,  \* the strategy of both ends, chosen when they start
    sender,     \* sender[m]: what the client that sends m knows
    log,        \* the records of the partition
    next,       \* offset that the consumer takes next, from 1
    tries,      \* attempts of the running processMessage that failed
    busy,       \* processMessage runs for the record at next
    committed,  \* offset from which a restarted consumer goes on
    handled,    \* handled[o]: times that the handler succeeded with record o
    crashes

producerVars == <<sender, log>>
consumerVars == <<next, tries, busy, committed, handled, crashes>>
kvars == <<semantics, producerVars, consumerVars>>

(* No lost acknowledgement adds a record beyond MaxLog, so every message   *)
(* adds at most one more.                                                  *)
Offsets == 1 .. (MaxLog + Cardinality(Messages))

KafkaTypeOK ==
    /\ semantics \in Semantics
    /\ sender \in [Messages -> {"idle", "sending", "sent", "failed"}]
    /\ log \in Seq(Messages) /\ Len(log) \in 0 .. (MaxLog + Cardinality(Messages))
    /\ next \in 1 .. (Len(log) + 1)
    /\ tries \in 0 .. 2
    /\ busy \in BOOLEAN
    /\ committed \in 1 .. next
    /\ handled \in [Offsets -> Nat]
    /\ crashes \in 0 .. MaxCrashes

KafkaInit ==
    /\ semantics \in Semantics
    /\ sender = [m \in Messages |-> "idle"]
    /\ log = <<>>
    /\ next = 1 /\ tries = 0 /\ busy = FALSE /\ committed = 1
    /\ handled = [o \in Offsets |-> 0]
    /\ crashes = 0
-----------------------------------------------------------------------------
(* The producer.                                                           *)

Send(m) ==
    /\ sender[m] = "idle"
    /\ sender' = [sender EXCEPT ![m] = "sending"]
    /\ UNCHANGED <<semantics, log, consumerVars>>

(* Only an idempotent producer has a retried record dropped by the broker. *)
AppendRecord(m) ==
    log' = IF semantics = "exactly-once" /\ m \in ToSet(log) THEN log ELSE Append(log, m)

\* Mutant: the answer does not wait for the broker, as if acks were 0.
AcknowledgeUnsent(m) ==
    /\ sender[m] = "sending"
    /\ AppendRecord(m) \/ UNCHANGED log
    /\ sender' = [sender EXCEPT ![m] = "sent"]
    /\ UNCHANGED <<semantics, consumerVars>>

Acknowledge(m) ==
    /\ sender[m] = "sending"
    /\ AppendRecord(m)
    /\ sender' = [sender EXCEPT ![m] = "sent"]
    /\ UNCHANGED <<semantics, consumerVars>>

(* A request or its acknowledgement is lost. kafkajs sends again unless    *)
(* the strategy has turned retries off, and gives up at some point.        *)
LoseAck(m) ==
    /\ "ack" \in KafkaFaults
    /\ sender[m] = "sending"
    /\ \/ Len(log) < MaxLog /\ AppendRecord(m)
       \/ UNCHANGED log
    /\ \/ semantics # "at-most-once" /\ UNCHANGED sender
       \/ sender' = [sender EXCEPT ![m] = "failed"]
    /\ UNCHANGED <<semantics, consumerVars>>
-----------------------------------------------------------------------------
(* The consumer. Records are taken one at a time, in order.                *)

\* Mutant: the retries are counted without the first attempt.
MaxRetriesAfterTheFirst == 4

(* Attempts in all, the first one included.                                *)
MaxRetries == 3

Deliver ==
    /\ ~busy
    /\ next <= Len(log)
    /\ busy' = TRUE
    /\ tries' = 0
    /\ UNCHANGED <<semantics, producerVars, next, committed, handled, crashes>>

\* Mutant: the loop of attempts goes on after a success.
HandlerSucceedsAndLoops ==
    /\ busy
    /\ handled' = [handled EXCEPT ![next] = @ + 1]
    /\ IF semantics = "at-least-once" /\ tries + 1 < MaxRetries
       THEN tries' = tries + 1 /\ UNCHANGED <<next, busy>>
       ELSE next' = next + 1 /\ busy' = FALSE /\ UNCHANGED tries
    /\ UNCHANGED <<semantics, producerVars, committed, crashes>>

(* processMessage returns, and kafkajs moves on.                           *)
HandlerSucceeds ==
    /\ busy
    /\ handled' = [handled EXCEPT ![next] = @ + 1]
    /\ next' = next + 1
    /\ busy' = FALSE
    /\ UNCHANGED <<semantics, producerVars, tries, committed, crashes>>

\* Mutant: the last attempt's error is logged and not thrown.
HandlerFailsSwallowing ==
    /\ "handler" \in KafkaFaults
    /\ busy
    /\ \/ /\ semantics = "at-least-once" /\ tries + 1 < MaxRetries
          /\ tries' = tries + 1
          /\ UNCHANGED <<busy, next>>
       \/ /\ semantics # "at-least-once" \/ tries + 1 = MaxRetries
          /\ busy' = FALSE
          /\ next' = IF semantics = "exactly-once" THEN next ELSE next + 1
          /\ UNCHANGED tries
    /\ UNCHANGED <<semantics, producerVars, committed, handled, crashes>>

(* At least once tries again, at most MaxRetries times in all, and throws  *)
(* the last error; exactly once throws the first; kafkajs then delivers    *)
(* the record again. At most once swallows the error.                      *)
HandlerFails ==
    /\ "handler" \in KafkaFaults
    /\ busy
    /\ \/ /\ semantics = "at-least-once" /\ tries + 1 < MaxRetries
          /\ tries' = tries + 1
          /\ UNCHANGED <<busy, next>>
       \/ /\ semantics # "at-least-once" \/ tries + 1 = MaxRetries
          /\ busy' = FALSE
          /\ next' = IF semantics = "at-most-once" THEN next + 1 ELSE next
          /\ UNCHANGED tries
    /\ UNCHANGED <<semantics, producerVars, committed, handled, crashes>>

(* kafkajs commits what it has moved past; no strategy commits earlier.    *)
Commit ==
    /\ committed < next
    /\ committed' = next
    /\ UNCHANGED <<semantics, producerVars, next, tries, busy, handled, crashes>>

(* The consumer dies or loses the partition, and starts at its commit.     *)
Crash ==
    /\ "crash" \in KafkaFaults
    /\ crashes < MaxCrashes
    /\ crashes' = crashes + 1
    /\ next' = committed
    /\ busy' = FALSE
    /\ UNCHANGED <<semantics, producerVars, tries, committed, handled>>

KafkaNext ==
    \/ \E m \in Messages : Send(m) \/ Acknowledge(m) \/ LoseAck(m)
    \/ Deliver \/ HandlerSucceeds \/ HandlerFails \/ Commit \/ Crash

(* kafkajs fetches what there is; a handler that is tried for ever         *)
(* succeeds at last. Nobody has to send.                                   *)
KafkaSpec == /\ KafkaInit
             /\ [][KafkaNext]_kvars
             /\ WF_kvars(Deliver)
             /\ SF_kvars(HandlerSucceeds)
-----------------------------------------------------------------------------
(* Properties.                                                             *)

(* Unless messages may be lost, an offset is committed only after the      *)
(* handler has succeeded with every record before it.                      *)
CommittedIsHandled ==
    semantics # "at-most-once" => \A o \in 1 .. (committed - 1) : handled[o] > 0

(* The handler succeeds with the records in the order of the log, except   *)
(* for repetitions, although failing ones are delivered again.             *)
HandledInOrder ==
    semantics # "at-most-once" =>
        \A o, p \in Offsets : p < o /\ handled[o] > 0 => handled[p] > 0

(* No strategy repeats a record of itself: it is handled again only after  *)
(* a crash, and once at most after each. Crashes repeat records under all  *)
(* three semantics, also under those that rule it out (NoDuplicates).      *)
RepeatedOnlyByCrash == \A o \in Offsets : handled[o] <= crashes + 1

(* "The message is delivered exactly once, with no duplicates or losses";  *)
(* "at most once" rules duplicates out too (DeliverySemantics). The code   *)
(* does not: it handles first and commits later under every semantics, and *)
(* exactly once asks isMessageAlreadyProcessed, which always says no.      *)
NoDuplicates == semantics # "at-least-once" => \A o \in Offsets : handled[o] <= 1

(* Unless messages may be lost, what was answered with success is handled. *)
SentIsHandled ==
    \A m \in Messages :
        semantics # "at-most-once" /\ sender[m] = "sent"
            ~> \E o \in DOMAIN log : log[o] = m /\ handled[o] > 0
=============================================================================
