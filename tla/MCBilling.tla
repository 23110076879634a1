------------------------------ MODULE MCBilling ------------------------------
(* Small instances of BillingCommands.                                     *)
EXTENDS BillingCommands, TLC

CONSTANTS u1, a1, a2, nobody, c1, c2, c3

Symmetry == Permutations(Calls)

(* The user has no row yet; one of the accounts is open. With amounts of 2 *)
(* it pays for one transfer, and what is left is too little for another.   *)
OneAccountOpen == [h \in Holders |-> IF h = a1 THEN 3 ELSE 0]

(* Every holder can pay once.                                              *)
AllHaveThree == [h \in Holders |-> 3]
=============================================================================
