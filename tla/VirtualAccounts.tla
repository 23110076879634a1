--------------------------- MODULE VirtualAccounts ---------------------------
(***************************************************************************)
(* VirtualAccountService: accounts are opened, topped up, suspended,       *)
(* closed, and money is transferred between them. No operation looks at    *)
(* the status of an account.                                               *)
(***************************************************************************)
EXTENDS BillingState

(* createVirtualAccount: the owner needs a billing user; the number is     *)
(* drawn at random, so the insert fails if the number exists.              *)
FindOwner(c) ==
    /\ At(c, "owner")
    /\ IF UserOf(c) \in rows THEN GoTo(c, "write") ELSE Throw(c)
    /\ UNCHANGED tables

InsertAccount(c) ==
    /\ At(c, "write")
    /\ call[c].kind = "open"
    /\ \/ /\ call[c].to \notin rows
          /\ rows' = rows \cup {call[c].to}
          /\ account' = [account EXCEPT ![call[c].to] = "ACTIVE"]
          /\ Return(c)
       \/ call[c].to \in rows /\ Throw(c) /\ UNCHANGED <<rows, account>>
    /\ UNCHANGED <<balance, walletVars, invoice, planVars>>

(* updateVirtualAccountBalance increments the stored balance.              *)
TopUp(c) ==
    /\ At(c, "move")
    /\ call[c].kind = "topUp"
    /\ \/ /\ call[c].to \in rows
          /\ balance' = [balance EXCEPT ![call[c].to] = @ + call[c].amount]
          /\ call' = [call EXCEPT ![c].at = "moved", ![c].end = "returned"]
       \/ call[c].to \notin rows /\ Throw(c) /\ UNCHANGED balance
    /\ UNCHANGED <<rows, account, walletVars, invoice, planVars>>

(* closeVirtualAccount refuses an account that has money when it is read;  *)
(* the status is written later, without another look.                      *)
ReadForClose(c) ==
    /\ At(c, "load")
    /\ call[c].kind = "close"
    /\ IF call[c].from \in rows /\ balance[call[c].from] <= 0
       THEN GoTo(c, "write") ELSE Throw(c)
    /\ UNCHANGED tables

(* suspendVirtualAccount and the end of closeVirtualAccount.               *)
WriteStatus(c) ==
    /\ At(c, "write")
    /\ call[c].kind \in {"suspend", "close"}
    /\ \/ /\ call[c].from \in rows
          /\ account' = [account EXCEPT ![call[c].from] =
                             IF call[c].kind = "close" THEN "CLOSED" ELSE "SUSPENDED"]
          /\ Return(c)
       \/ call[c].from \notin rows /\ Throw(c) /\ UNCHANGED account
    /\ UNCHANGED <<rows, balance, walletVars, invoice, planVars>>
-----------------------------------------------------------------------------
(* transferBetweenAccounts reads the paying account, then the receiving    *)
(* one, and checks what it read.                                           *)
ReadSource(c) ==
    /\ At(c, "source")
    /\ IF call[c].from \in rows THEN GoToSeeing(c, "target", balance[call[c].from])
       ELSE Throw(c)
    /\ UNCHANGED tables

\* Mutant: the balance of the receiver is checked instead of the payer's.
ReadTargetAndCheckIt(c) ==
    /\ At(c, "target")
    /\ IF call[c].to \in rows /\ balance[call[c].to] >= call[c].amount
       THEN GoTo(c, "move") ELSE Throw(c)
    /\ UNCHANGED tables

ReadTarget(c) ==
    /\ At(c, "target")
    /\ IF call[c].to \in rows /\ call[c].seen >= call[c].amount
       THEN GoTo(c, "move") ELSE Throw(c)
    /\ UNCHANGED tables

(* One database transaction takes the amount from one and gives it to the  *)
(* other; the two may be the same account.                                 *)
Transfer(c) ==
    /\ At(c, "move")
    /\ call[c].kind = "transfer"
    /\ balance' = [[balance EXCEPT ![call[c].from] = @ - call[c].amount]
                       EXCEPT ![call[c].to] = @ + call[c].amount]
    /\ call' = [call EXCEPT ![c].at = "moved", ![c].end = "returned"]
    /\ UNCHANGED <<rows, account, walletVars, invoice, planVars>>

AccountStep(c) ==
    \/ FindOwner(c) \/ InsertAccount(c) \/ TopUp(c) \/ ReadForClose(c)
    \/ WriteStatus(c) \/ ReadSource(c) \/ ReadTarget(c) \/ Transfer(c)
=============================================================================
