------------------------- MODULE TravelBookingSaga -------------------------
(***************************************************************************)
(* The whole saga: calls of execute (SagaExecution) and the handlers of    *)
(* the services' confirmations (SagaJoin) interleave over one MongoDB and  *)
(* one Redis (SagaState).                                                  *)
(***************************************************************************)
EXTENDS SagaExecution, SagaJoin

sagaVars == <<storeVars, execVars, joinVars>>

SagaInit == Init /\ JoinInitVars

SagaNext ==
    \/ ExecNext /\ UNCHANGED joinVars
    \/ JoinNext /\ UNCHANGED execVars

SagaSpec == SagaInit /\ [][SagaNext]_sagaVars
-----------------------------------------------------------------------------
SagaTypeOK == ExecTypeOK /\ JoinTypeOK

Quiet ==
    /\ \A c \in Calls : ~Running(c)
    /\ \A d \in Deliveries : ~Handling(d)

(* When nothing runs for a request any more, no lock and no cached state   *)
(* is left to refuse the next call for it.                                 *)
QuietIsUnlocked == Quiet => locks = {} /\ activeSagas = {}

(* A request whose client was told of its booking is out of the pending    *)
(* queue: no monitor takes it for a stuck saga. The entry is made before   *)
(* the first service is asked, so it cannot come after its removal.        *)
BookedNotQueued ==
    \A m \in notified : m.status = "CONFIRMED" => m.request \notin pendingQueue

(* A confirmed booking is taken back by nobody but a call of execute for   *)
(* the same request, in its catch block (which a duplicate gets to when it *)
(* loses the race for the document, and the first call when a publication  *)
(* is rejected); no handler of a confirmation does it while Redis answers. *)
ConfirmedUnlessCallFails ==
    [][\A r \in Requests :
          saga[r].status = "CONFIRMED" /\ saga'[r].status # "CONFIRMED" =>
              \E c \in Calls : RequestOf[c] = r /\ At(c, "error") /\ ~At(c, "error")']_sagaVars

(* Services are asked once and book once: a booking rests on exactly one   *)
(* reservation at each service, however often the client called.           *)
BookedOnOneRequestEach ==
    \A r \in Requests : saga[r].bookingId # 0 =>
        \A s \in Services : requested[r][s] = 1 /\ made[r][s] = 1
=============================================================================
