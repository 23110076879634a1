------------------------ MODULE MCTravelBookingSaga ------------------------
(* Small instances of TravelBookingSaga: calls of one client for r1, each  *)
(* on a node of its own. The calls are treated alike, which a run with     *)
(* safety properties only may use as a symmetry.                           *)
EXTENDS TravelBookingSaga, TLC

CONSTANTS r1, c1, c2, u1

SameRequest == [c \in Calls |-> r1]
NodePerCall == [c \in Calls |-> c]
SameUser == [c \in Calls |-> u1]

Symmetry == Permutations(Calls)
=============================================================================
