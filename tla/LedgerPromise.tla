---------------------------- MODULE LedgerPromise ----------------------------
(***************************************************************************)
(* What the billing module promises of its balances, without its calls,    *)
(* transactions or payments: a ledger. A call posts at most one entry, an  *)
(* entry gives some amount to each holder, and a balance changes by what   *)
(* is posted and by nothing else, so it is at all times the opening        *)
(* balance plus the entries.                                               *)
(***************************************************************************)
EXTENDS Integers

CONSTANTS Holders, Calls, Opening

VARIABLES
    entry,      \* entry[c][h]: what call c has posted to holder h
    balance     \* balance[h]

NoEntry == [h \in Holders |-> 0]

Init ==
    /\ entry = [c \in Calls |-> NoEntry]
    /\ balance = Opening

(* An entry is a credit or a debit of one holder, or takes from one holder *)
(* what it gives to another.                                               *)
IsEntry(e) ==
    /\ e \in [Holders -> Int]
    /\ \E g, h \in Holders : \A k \in Holders \ {g, h} : e[k] = 0
    /\ \A g, h \in Holders :
           g # h /\ e[g] # 0 /\ e[h] # 0 => e[g] + e[h] = 0

Post(c) ==
    /\ entry[c] = NoEntry
    /\ IsEntry(entry'[c])
    /\ entry' = [entry EXCEPT ![c] = entry'[c]]
    /\ balance' = [h \in Holders |-> balance[h] + entry'[c][h]]

Next == \E c \in Calls : Post(c)

Spec == Init /\ [][Next]_<<entry, balance>>
=============================================================================
