------------------------------- MODULE Wallet -------------------------------
(***************************************************************************)
(* Deposits and withdrawals (DepositHandler, WithdrawHandler) over the     *)
(* transaction state machine, and getOrCreateBillingUser, with which most  *)
(* commands and queries of the module begin.                               *)
(***************************************************************************)
EXTENDS BillingState

(* What follows getOrCreateBillingUser, which returned a row with balance  *)
(* b. A withdrawal is checked against that value.                          *)
UserFound(c, b) ==
    \/ call[c].kind = "query" /\ Return(c)
    \/ call[c].kind = "deposit" /\ GoToSeeing(c, "create", b)
    \/ call[c].kind = "withdraw" /\ b < call[c].amount /\ Throw(c)
    \/ call[c].kind = "withdraw" /\ b >= call[c].amount /\ GoToSeeing(c, "create", b)
    \/ call[c].kind = "order" /\ GoTo(c, "count")

FindUser(c) ==
    /\ At(c, "user")
    /\ IF UserOf(c) \in rows THEN UserFound(c, balance[UserOf(c)])
       ELSE GoTo(c, "newUser")
    /\ UNCHANGED tables

(* The insert fails if another call has created the row meanwhile.         *)
CreateUser(c) ==
    /\ At(c, "newUser")
    /\ \/ /\ UserOf(c) \notin rows
          /\ rows' = rows \cup {UserOf(c)}
          /\ UserFound(c, 0)
       \/ UserOf(c) \in rows /\ Throw(c) /\ UNCHANGED rows
    /\ UNCHANGED <<balance, account, walletVars, invoice, planVars>>
-----------------------------------------------------------------------------
(* The idempotency key is made of the kind, the user and the millisecond,  *)
(* so another transaction of the user can have the same.                   *)
CreateTransaction(c) ==
    /\ At(c, "create")
    /\ call[c].kind \in {"deposit", "withdraw"}
    /\ \/ /\ tx' = [tx EXCEPT ![c] = [state |-> "CREATED", status |-> "PENDING"]]
          /\ GoTo(c, "checkProcessing")
       \/ /\ \E d \in Calls : /\ tx[d] # NoTransaction
                              /\ call[d].kind = call[c].kind
                              /\ UserOf(d) = UserOf(c)
          /\ Throw(c)
          /\ UNCHANGED tx
    /\ UNCHANGED <<rows, balance, account, intent, invoice, planVars>>

Transitions == {<<"CREATED", "PROCESSING">>, <<"PROCESSING", "COMPLETED">>,
                <<"PROCESSING", "ERROR">>, <<"CREATED", "CANCELED">>,
                <<"PROCESSING", "CANCELED">>, <<"ERROR", "PROCESSING">>,
                <<"ERROR", "CANCELED">>}

IsValidTransition(from, to) == from = to \/ <<from, to>> \in Transitions

(* transition reads the transaction and refuses what is not in its table.  *)
CheckTransition(c, from, state, to) ==
    /\ At(c, from)
    /\ IF IsValidTransition(tx[c].state, state) THEN GoTo(c, to) ELSE Throw(c)
    /\ UNCHANGED tables

CheckProcessing(c) == CheckTransition(c, "checkProcessing", "PROCESSING", "setProcessing")
CheckCompleted(c) == CheckTransition(c, "checkCompleted", "COMPLETED", "setCompleted")

\* Mutant: the status is left as it was.
WriteStateOnly(c, state) == tx' = [tx EXCEPT ![c].state = state]

(* transition writes state and status, without a look at the present one.  *)
WriteState(c, state) ==
    tx' = [tx EXCEPT ![c] = [state |-> state, status |-> StatusOf[state]]]

SetProcessing(c) ==
    /\ At(c, "setProcessing")
    /\ WriteState(c, "PROCESSING")
    /\ GoTo(c, IF call[c].kind = "deposit" THEN "charge" ELSE "move")
    /\ UNCHANGED <<rows, balance, account, intent, invoice, planVars>>

SetCompleted(c) ==
    /\ At(c, "setCompleted")
    /\ WriteState(c, "COMPLETED")
    /\ GoTo(c, "answer")
    /\ UNCHANGED <<rows, balance, account, intent, invoice, planVars>>
-----------------------------------------------------------------------------
(* Stripe confirms the payment at once, leaves it pending (no payment      *)
(* method, or one that asks the customer to act), or declines it. Under    *)
(* the fault "stripe" the answer is lost although the payment was made.    *)
Charge(c) ==
    /\ At(c, "charge")
    /\ \/ /\ intent' \in {[intent EXCEPT ![c] = i] : i \in {"succeeded", "pending"}}
          /\ call' = [call EXCEPT ![c].at = "attach", ![c].paid = (intent'[c] = "succeeded")]
       \/ Throw(c) /\ UNCHANGED intent
       \/ /\ "stripe" \in Faults
          /\ intent' \in {[intent EXCEPT ![c] = i] : i \in {"succeeded", "pending"}}
          /\ Throw(c)
    /\ UNCHANGED <<rows, balance, account, tx, invoice, planVars>>

(* A pending payment succeeds later; the webhook only sends a receipt.     *)
SettleIntent(c) ==
    /\ intent[c] = "pending"
    /\ intent' = [intent EXCEPT ![c] = "succeeded"]
    /\ UNCHANGED <<rows, balance, account, tx, invoice, planVars, call>>

\* Mutant: every deposit is credited, whatever Stripe answered.
AttachIntentUnpaid(c) ==
    /\ At(c, "attach")
    /\ tx' = [tx EXCEPT ![c].status = "PROCESSING"]
    /\ GoTo(c, "move")
    /\ UNCHANGED <<rows, balance, account, intent, invoice, planVars>>

(* Only a payment that succeeded at once is credited.                      *)
AttachIntent(c) ==
    /\ At(c, "attach")
    /\ tx' = [tx EXCEPT ![c].status = "PROCESSING"]
    /\ GoTo(c, IF call[c].paid THEN "move" ELSE "pending")
    /\ UNCHANGED <<rows, balance, account, intent, invoice, planVars>>

\* Mutant: the new balance is computed from the one that was read.
UpdateBalanceFromRead(c) ==
    /\ At(c, "move")
    /\ call[c].kind \in {"deposit", "withdraw"}
    /\ balance' = [balance EXCEPT ![UserOf(c)] =
                       call[c].seen + (IF call[c].kind = "deposit" THEN call[c].amount
                                       ELSE -call[c].amount)]
    /\ GoTo(c, "checkCompleted")
    /\ UNCHANGED <<rows, account, walletVars, invoice, planVars>>

(* updateBalance increments the stored value, whatever it is by now.       *)
UpdateBalance(c) ==
    /\ At(c, "move")
    /\ call[c].kind \in {"deposit", "withdraw"}
    /\ balance' = [balance EXCEPT ![UserOf(c)] =
                       @ + (IF call[c].kind = "deposit" THEN call[c].amount
                            ELSE -call[c].amount)]
    /\ GoTo(c, "checkCompleted")
    /\ UNCHANGED <<rows, account, walletVars, invoice, planVars>>

(* The handler answers with the transaction as it is stored.               *)
Answer(c) ==
    /\ At(c, "answer") \/ At(c, "pending")
    /\ Return(c)
    /\ UNCHANGED tables

WalletStep(c) ==
    \/ FindUser(c) \/ CreateUser(c) \/ CreateTransaction(c) \/ CheckProcessing(c)
    \/ SetProcessing(c) \/ Charge(c) \/ AttachIntent(c) \/ UpdateBalance(c)
    \/ CheckCompleted(c) \/ SetCompleted(c) \/ Answer(c)
=============================================================================
