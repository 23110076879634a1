---------------------------- MODULE BillingState ----------------------------
(***************************************************************************)
(* What the billing module keeps outside of its process: the tables that   *)
(* Prisma reaches (billing users, transactions, virtual accounts, invoices *)
(* and subscriptions) and what Stripe knows, with the calls that work on   *)
(* them. A call is one execution of a command, a query or a service        *)
(* method; the code between two of its awaits is one action.               *)
(***************************************************************************)
EXTENDS Integers, FiniteSets

CONSTANTS
    Users,      \* user ids
    Accounts,   \* numbers of virtual accounts
    Nobody,     \* no holder
    Calls,      \* calls that may be made
    Offered,    \* kinds of the calls that clients make in this instance
    Amounts,    \* amounts that a call may be about
    Known,      \* holders that have a row at the beginning
    Opening,    \* Opening[h]: balance of holder h at the beginning
    Faults,     \* which of BillingFaults may happen in this instance
    OneSpender  \* TRUE: a holder's next spending waits for the one before

Holders == Users \cup Accounts

BillingFaults == {"db", "stripe", "crash"}

Kinds == {"deposit", "withdraw", "query", "order", "open", "topUp", "suspend",
          "close", "transfer", "cancel"}

ASSUME BillingAssumption ==
    /\ Users \cap Accounts = {}
    /\ Nobody \notin Holders
    /\ Offered \subseteq Kinds
    /\ IsFiniteSet(Calls)
    /\ Amounts \subseteq Nat \ {0} /\ Amounts # {}
    /\ Known \subseteq Holders
    /\ Opening \in [Holders -> Nat]
    /\ \A h \in Holders \ Known : Opening[h] = 0
    /\ Faults \subseteq BillingFaults
    /\ OneSpender \in BOOLEAN

VARIABLES
    rows,       \* holders with a row (billing user or virtual account)
    balance,    \* balance[h]: the balance of that row
    account,    \* account[a]: the status of virtual account a
    tx,         \* tx[c]: the transaction that call c created
    intent,     \* intent[c]: the payment that Stripe made for call c
    invoice,    \* invoice[c]: the invoice number that call c stored, or 0
    plan,       \* plan[u]: the status of the subscription row of u
    stripePlan, \* stripePlan[u]: the same subscription at Stripe, if it has one
    call        \* call[c]: program point and locals of call c

walletVars == <<tx, intent>>
planVars == <<plan, stripePlan>>
tables == <<rows, balance, account, tx, intent, invoice, plan, stripePlan>>
bvars == <<tables, call>>
-----------------------------------------------------------------------------
TransactionStates == {"CREATED", "PROCESSING", "COMPLETED", "ERROR", "CANCELED"}

StatusOf == [CREATED |-> "PENDING", PROCESSING |-> "PROCESSING",
             COMPLETED |-> "COMPLETED", ERROR |-> "FAILED", CANCELED |-> "CANCELED"]

TransactionStatuses == {"PENDING", "PROCESSING", "COMPLETED", "FAILED", "CANCELED"}

Transaction == [state  : TransactionStates \cup {"NONE"},
                status : TransactionStatuses \cup {"NONE"}]

NoTransaction == [state |-> "NONE", status |-> "NONE"]

(* Where a call is, by whether its money has moved: a call that threw or   *)
(* was lost stays at the point where that happened.                        *)
BeforeMove == {"idle", "user", "newUser", "create", "checkProcessing",
               "setProcessing", "charge", "attach", "pending", "source",
               "target", "move", "owner", "write", "count", "insert", "load",
               "stripe", "save"}
AfterMove == {"checkCompleted", "setCompleted", "answer", "moved"}

(* from pays, to receives; atOnce tells the two ways to cancel apart; seen *)
(* is a balance or a count that was read for later use; paid is the status *)
(* "succeeded" of the payment intent that the call was given.              *)
CallRecord == [kind   : Kinds,
               from   : Holders \cup {Nobody},
               to     : Holders \cup {Nobody},
               amount : Amounts,
               atOnce : BOOLEAN,
               at     : BeforeMove \cup AfterMove,
               seen   : Int,
               paid   : BOOLEAN,
               end    : {"running", "returned", "threw", "lost"}]

BillingTypeOK ==
    /\ rows \subseteq Holders
    /\ balance \in [Holders -> Int]
    /\ account \in [Accounts -> {"NONE", "ACTIVE", "SUSPENDED", "CLOSED"}]
    /\ tx \in [Calls -> Transaction]
    /\ intent \in [Calls -> {"none", "pending", "succeeded"}]
    /\ invoice \in [Calls -> Nat]
    /\ plan \in [Users -> {"ACTIVE", "CANCELED"}]
    /\ stripePlan \in [Users -> {"none", "active", "ending", "canceled"}]
    /\ call \in [Calls -> CallRecord]
-----------------------------------------------------------------------------
Running(c) == call[c].end = "running" /\ call[c].at # "idle"
At(c, point) == call[c].at = point /\ call[c].end = "running"

GoTo(c, point) == call' = [call EXCEPT ![c].at = point]
GoToSeeing(c, point, n) == call' = [call EXCEPT ![c].at = point, ![c].seen = n]
Return(c) == call' = [call EXCEPT ![c].end = "returned"]
Throw(c) == call' = [call EXCEPT ![c].end = "threw"]

(* Kinds of calls that take money from their holder after a check.         *)
Spends(c) == call[c].kind \in {"withdraw", "transfer"}

UserOf(c) == IF call[c].kind \in {"withdraw", "cancel", "open"} THEN call[c].from
             ELSE call[c].to

Moved(c) == call[c].at \in AfterMove
=============================================================================
