--------------------------- MODULE BillingCommands ---------------------------
(***************************************************************************)
(* The billing module as its clients use it: calls of every kind, any      *)
(* number of them at once, over one database and one Stripe.               *)
(***************************************************************************)
EXTENDS Wallet, VirtualAccounts, Invoices, Subscriptions

Idle == [kind |-> "query", from |-> Nobody, to |-> Nobody,
         amount |-> CHOOSE m \in Amounts : TRUE, atOnce |-> FALSE, at |-> "idle",
         seen |-> 0, paid |-> FALSE, end |-> "running"]

BillingInit ==
    /\ rows = Known
    /\ balance = Opening
    /\ account = [a \in Accounts |-> IF a \in Known THEN "ACTIVE" ELSE "NONE"]
    /\ tx = [c \in Calls |-> NoTransaction]
    /\ intent = [c \in Calls |-> "none"]
    /\ invoice = [c \in Calls |-> 0]
    /\ plan = [u \in Users |-> "ACTIVE"]
    /\ stripePlan \in [Users -> {"none", "active"}]
    /\ call = [c \in Calls |-> Idle]
-----------------------------------------------------------------------------
(* The call of one kind: from whom, to whom, and the first await.          *)
Begin(c, kind, from, to, point) ==
    \E m \in Amounts, now \in BOOLEAN :
        /\ kind \in {"deposit", "withdraw", "topUp", "transfer"} \/ m = Idle.amount
        /\ kind = "cancel" \/ ~now
        /\ call' = [call EXCEPT ![c] = [Idle EXCEPT !.kind = kind, !.from = from,
                                                    !.to = to, !.amount = m,
                                                    !.atOnce = now, !.at = point]]

Spending(h) == \E d \in Calls : Spends(d) /\ Running(d) /\ call[d].from = h

(* A client makes call c. Its handler runs to the first await.             *)
StartCall(c) ==
    /\ At(c, "idle")
    /\ \/ \E kind \in Offered \cap {"deposit", "query", "order"}, u \in Users :
              Begin(c, kind, Nobody, u, "user")
       \/ \E kind \in Offered \cap {"withdraw"}, u \in Users :
              (OneSpender => ~Spending(u)) /\ Begin(c, kind, u, Nobody, "user")
       \/ \E kind \in Offered \cap {"open"}, u \in Users, a \in Accounts :
              Begin(c, kind, u, a, "owner")
       \/ \E kind \in Offered \cap {"topUp"}, a \in Accounts :
              Begin(c, kind, Nobody, a, "move")
       \/ \E kind \in Offered \cap {"suspend"}, a \in Accounts :
              Begin(c, kind, a, Nobody, "write")
       \/ \E kind \in Offered \cap {"close"}, a \in Accounts :
              Begin(c, kind, a, Nobody, "load")
       \/ \E kind \in Offered \cap {"transfer"}, a, b \in Accounts :
              (OneSpender => ~Spending(a)) /\ Begin(c, kind, a, b, "source")
       \/ \E kind \in Offered \cap {"cancel"}, u \in Users :
              Begin(c, kind, u, Nobody, "load")
    /\ UNCHANGED tables

(* A database operation fails; every handler throws the error on.          *)
FailDatabase(c) ==
    /\ "db" \in Faults
    /\ Running(c)
    /\ call[c].at \notin {"charge", "stripe"}
    /\ Throw(c)
    /\ UNCHANGED tables

(* The process dies; nothing takes its calls up again.                     *)
LoseCall(c) ==
    /\ "crash" \in Faults
    /\ Running(c)
    /\ call' = [call EXCEPT ![c].end = "lost"]
    /\ UNCHANGED tables

CallStep(c) == WalletStep(c) \/ AccountStep(c) \/ InvoiceStep(c) \/ PlanStep(c)

BillingNext ==
    \/ \E c \in Calls : \/ StartCall(c) \/ CallStep(c) \/ SettleIntent(c)
                        \/ FailDatabase(c) \/ LoseCall(c)
    \/ \E u \in Users : StripeEnds(u)

BillingSpec == BillingInit /\ [][BillingNext]_bvars
-----------------------------------------------------------------------------
(* Properties.                                                             *)

(* Nobody is overdrawn, as long as a holder spends one call at a time: the *)
(* balance that is checked in front of several awaits has not fallen when  *)
(* the money is taken ("Balance checks before withdrawals").               *)
NeverOverdrawn == \A h \in Holders : balance[h] >= 0

(* A transaction that says COMPLETED has moved its money, and a deposit's  *)
(* money has been paid at Stripe before it is credited.                    *)
CompletedIsMoved ==
    \A c \in Calls :
        /\ tx[c].state = "COMPLETED" => Moved(c) /\ tx[c].status = "COMPLETED"
        /\ Moved(c) /\ call[c].kind = "deposit" => intent[c] = "succeeded"

(* What a deposit or a withdrawal answers without an error is the end of   *)
(* it: it is COMPLETED, or it is a deposit that Stripe had not been paid   *)
(* for when it was asked.                                                  *)
AnsweredIsSettled ==
    \A c \in Calls :
        call[c].end = "returned" /\ call[c].kind \in {"deposit", "withdraw"} =>
            \/ Moved(c) /\ tx[c] = [state |-> "COMPLETED", status |-> "COMPLETED"]
            \/ /\ ~Moved(c) /\ call[c].kind = "deposit" /\ ~call[c].paid
               /\ tx[c] = [state |-> "PROCESSING", status |-> "PROCESSING"]

(* The invoices of a month are numbered 1, 2, 3 ... without a gap and      *)
(* without a number given twice, although each is a count that may be out  *)
(* of date when it is used.                                                *)
NumbersHaveNoGap ==
    /\ {invoice[c] : c \in Numbered} = 1 .. Cardinality(Numbered)
    /\ \A c, d \in Numbered : invoice[c] = invoice[d] => c = d

(* A subscription whose row says CANCELED costs the user nothing more: it  *)
(* is canceled at Stripe, or has none there.                               *)
CanceledAtStripe ==
    \A u \in Users : plan[u] = "CANCELED" => Ended(u)

(* The balances keep the promise of LedgerPromise: each call posts at most *)
(* once, what it was asked to, and nothing else changes a balance.         *)
Posting(c) ==
    [h \in Holders |-> IF ~Moved(c) THEN 0
                       ELSE (IF h = call[c].to THEN call[c].amount ELSE 0)
                            - (IF h = call[c].from THEN call[c].amount ELSE 0)]

Ledger == INSTANCE LedgerPromise WITH entry <- [c \in Calls |-> Posting(c)]

KeepsLedger == Ledger!Spec
=============================================================================
