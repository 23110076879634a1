-------------------------- MODULE MCSagaExecution --------------------------
(* Small instances of SagaExecution.                                       *)
EXTENDS SagaExecution

CONSTANTS r1, r2, c1, c2, c3, n1, n2, u1

(* Every call is by the same client for the same request id ...            *)
SameRequest == [c \in Calls |-> r1]
SameUser == [c \in Calls |-> u1]

(* ... c1 and c2 arrive at one node and c3, if it is there, at another.    *)
TwoNodes == [c \in Calls |-> IF c = c3 THEN n2 ELSE n1]
OneNode == [c \in Calls |-> n1]

(* c1 and c2 are for one request id and c3 for another.                    *)
ThirdDiffers == [c \in Calls |-> IF c = c3 THEN r2 ELSE r1]
=============================================================================
