---------------------------- MODULE BillingProofs ----------------------------
(***************************************************************************)
(* Theorems about BillingCommands, for any users, accounts, calls, amounts *)
(* and opening balances, any combination of faults, and calls of any kinds *)
(* at once.                                                                *)
(***************************************************************************)
EXTENDS BillingCommands, FiniteSetTheorems, TLAPS

Points == BeforeMove \cup AfterMove

(* A call is only at points of its kind's handler, and has the parties     *)
(* that its kind has.                                                      *)
PointFits(at, kind) ==
    /\ at \in {"user", "newUser"} => kind \in {"deposit", "withdraw", "query", "order"}
    /\ at \in {"create", "checkProcessing", "setProcessing", "checkCompleted",
               "setCompleted", "answer"} => kind \in {"deposit", "withdraw"}
    /\ at \in {"charge", "attach", "pending"} => kind = "deposit"
    /\ at = "move" => kind \in {"deposit", "withdraw", "topUp", "transfer"}
    /\ at = "moved" => kind \in {"topUp", "transfer"}
    /\ at \in {"source", "target"} => kind = "transfer"
    /\ at \in {"count", "insert"} => kind = "order"
    /\ at \in {"stripe", "save"} => kind = "cancel"
    /\ at = "owner" => kind = "open"
    /\ at = "write" => kind \in {"open", "suspend", "close"}
    /\ at = "load" => kind \in {"close", "cancel"}

PartiesFit(kind, from, to) ==
    /\ kind \in {"deposit", "query", "order"} => from = Nobody /\ to \in Users
    /\ kind \in {"withdraw", "cancel"} => from \in Users /\ to = Nobody
    /\ kind = "open" => from \in Users /\ to \in Accounts
    /\ kind = "topUp" => from = Nobody /\ to \in Accounts
    /\ kind \in {"suspend", "close"} => from \in Accounts /\ to = Nobody
    /\ kind = "transfer" => from \in Accounts /\ to \in Accounts

CallsFit ==
    \A c \in Calls : call[c].at # "idle" =>
        /\ PointFits(call[c].at, call[c].kind)
        /\ PartiesFit(call[c].kind, call[c].from, call[c].to)
        /\ call[c].at = "insert" => call[c].seen \in Nat

TypeInv == BillingTypeOK /\ CallsFit

LEMMA AmountsArePositive == \A m \in Amounts : m \in Int /\ m > 0
BY BillingAssumption

LEMMA IdleIsCall == Idle \in CallRecord
<1>1. (CHOOSE m \in Amounts : TRUE) \in Amounts
  BY BillingAssumption
<1> QED
  BY <1>1 DEF Idle, CallRecord, Kinds, BeforeMove

LEMMA TypeInit == BillingInit => TypeInv
<1> SUFFICES ASSUME BillingInit PROVE TypeInv
  OBVIOUS
<1>1. Idle.at = "idle"
  BY DEF Idle
<1>2. BillingTypeOK
  BY BillingAssumption, IdleIsCall DEF BillingInit, BillingTypeOK, Holders, Transaction,
     NoTransaction
<1>3. \A c \in Calls : call[c] = Idle
  BY DEF BillingInit
<1> QED
  BY <1>1, <1>2, <1>3 DEF TypeInv, CallsFit
-----------------------------------------------------------------------------
(* A step of call c leaves the other calls alone, keeps what c was asked   *)
(* to do, and takes it to point p.                                         *)
Changed(c, p, seen, paid, end) ==
    /\ call' \in [Calls -> CallRecord]
    /\ \A d \in Calls : d # c => call'[d] = call[d]
    /\ call'[c].kind = call[c].kind
    /\ call'[c].from = call[c].from
    /\ call'[c].to = call[c].to
    /\ call'[c].amount = call[c].amount
    /\ call'[c].atOnce = call[c].atOnce
    /\ call'[c].at = p
    /\ call'[c].seen = seen
    /\ call'[c].paid = paid
    /\ call'[c].end = end

LEMMA CallChanges ==
    ASSUME call \in [Calls -> CallRecord], NEW c \in Calls
    PROVE  /\ \A p \in Points : GoTo(c, p) =>
                  Changed(c, p, call[c].seen, call[c].paid, call[c].end)
           /\ \A p \in Points, n \in Int : GoToSeeing(c, p, n) =>
                  Changed(c, p, n, call[c].paid, call[c].end)
           /\ Return(c) =>
                  Changed(c, call[c].at, call[c].seen, call[c].paid, "returned")
           /\ Throw(c) =>
                  Changed(c, call[c].at, call[c].seen, call[c].paid, "threw")
           /\ call' = [call EXCEPT ![c].end = "lost"] =>
                  Changed(c, call[c].at, call[c].seen, call[c].paid, "lost")
           /\ call' = [call EXCEPT ![c].at = "moved", ![c].end = "returned"] =>
                  Changed(c, "moved", call[c].seen, call[c].paid, "returned")
           /\ \A b \in BOOLEAN : call' = [call EXCEPT ![c].at = "attach", ![c].paid = b] =>
                  Changed(c, "attach", call[c].seen, b, call[c].end)
<1>0. call[c] \in CallRecord
  OBVIOUS
<1>1. ASSUME NEW p \in Points, GoTo(c, p)
      PROVE  Changed(c, p, call[c].seen, call[c].paid, call[c].end)
  <2>1. [call[c] EXCEPT !.at = p] \in CallRecord
    BY <1>0 DEF CallRecord, Points
  <2> QED
    BY <1>0, <1>1, <2>1 DEF GoTo, Changed, CallRecord
<1>2. ASSUME NEW p \in Points, NEW n \in Int, GoToSeeing(c, p, n)
      PROVE  Changed(c, p, n, call[c].paid, call[c].end)
  <2>1. [call[c] EXCEPT !.at = p, !.seen = n] \in CallRecord
    BY <1>0 DEF CallRecord, Points
  <2> QED
    BY <1>0, <1>2, <2>1 DEF GoToSeeing, Changed, CallRecord
<1>3. ASSUME NEW e \in {"returned", "threw", "lost"}, call' = [call EXCEPT ![c].end = e]
      PROVE  Changed(c, call[c].at, call[c].seen, call[c].paid, e)
  <2>1. [call[c] EXCEPT !.end = e] \in CallRecord
    BY <1>0 DEF CallRecord
  <2> QED
    BY <1>0, <1>3, <2>1 DEF Changed, CallRecord
<1>4. ASSUME call' = [call EXCEPT ![c].at = "moved", ![c].end = "returned"]
      PROVE  Changed(c, "moved", call[c].seen, call[c].paid, "returned")
  <2>1. [call[c] EXCEPT !.at = "moved", !.end = "returned"] \in CallRecord
    BY <1>0 DEF CallRecord, AfterMove
  <2> QED
    BY <1>0, <1>4, <2>1 DEF Changed, CallRecord
<1>5. ASSUME NEW b \in BOOLEAN, call' = [call EXCEPT ![c].at = "attach", ![c].paid = b]
      PROVE  Changed(c, "attach", call[c].seen, b, call[c].end)
  <2>1. [call[c] EXCEPT !.at = "attach", !.paid = b] \in CallRecord
    BY <1>0 DEF CallRecord, BeforeMove
  <2> QED
    BY <1>0, <1>5, <2>1 DEF Changed, CallRecord
<1> QED
  BY <1>1, <1>2, <1>3, <1>4, <1>5 DEF Return, Throw

(* Every step of a handler takes its call to a point of its kind.          *)
Proceeds(c) ==
    /\ call' \in [Calls -> CallRecord]
    /\ \A d \in Calls : d # c => call'[d] = call[d]
    /\ call'[c].kind = call[c].kind
    /\ call'[c].from = call[c].from
    /\ call'[c].to = call[c].to
    /\ call'[c].amount = call[c].amount
    /\ call'[c].atOnce = call[c].atOnce
    /\ call[c].at # "idle"
    /\ PointFits(call'[c].at, call[c].kind)
    /\ call'[c].at = "insert" => call'[c].seen \in Nat

LEMMA CallProceeds ==
    ASSUME TypeInv, NEW c \in Calls, CallStep(c) \/ FailDatabase(c) \/ LoseCall(c)
    PROVE  Proceeds(c)
<1> DEFINE CanGo(p) == PointFits(p, call[c].kind) /\ call[c].at # "idle"
<1>a. call \in [Calls -> CallRecord] /\ call[c] \in CallRecord
  BY DEF TypeInv, BillingTypeOK
<1>b. /\ call[c].at # "idle" => PointFits(call[c].at, call[c].kind)
      /\ call[c].seen \in Int
      /\ call[c].at \in Points
      /\ call[c].at = "insert" => call[c].seen \in Nat
  BY <1>a DEF TypeInv, CallsFit, CallRecord, Points
<1>c. rows \subseteq Holders /\ \A h \in Holders : balance[h] \in Int
  BY DEF TypeInv, BillingTypeOK
<1>d. Cardinality(Numbered) \in Nat
  <2>1. IsFiniteSet(Numbered)
    BY BillingAssumption, FS_Subset DEF Numbered
  <2> QED
    BY <2>1, FS_CardinalityType
<1>e. ASSUME NEW p \in Points \ {"insert"}, GoTo(c, p), CanGo(p) PROVE Proceeds(c)
  BY <1>a, <1>e, CallChanges, ZenonT(60) DEF Changed, Proceeds
<1>f. ASSUME NEW p \in Points, NEW n \in Int, GoToSeeing(c, p, n), CanGo(p),
             p = "insert" => n \in Nat
      PROVE  Proceeds(c)
  <2>1. Changed(c, p, n, call[c].paid, call[c].end)
    BY <1>a, <1>f, CallChanges
  <2> QED
    BY <1>f, <2>1 DEF Changed, Proceeds
<1>g. ASSUME Return(c) \/ Throw(c) \/ call' = [call EXCEPT ![c].end = "lost"],
             call[c].at # "idle"
      PROVE  Proceeds(c)
  BY <1>a, <1>b, <1>g, CallChanges DEF Changed, Proceeds
<1>h. ASSUME call' = [call EXCEPT ![c].at = "moved", ![c].end = "returned"], CanGo("moved")
      PROVE  Proceeds(c)
  BY <1>a, <1>h, CallChanges DEF Changed, Proceeds
<1>i. ASSUME NEW b \in BOOLEAN, CanGo("attach"),
             call' = [call EXCEPT ![c].at = "attach", ![c].paid = b]
      PROVE  Proceeds(c)
  BY <1>a, <1>i, CallChanges DEF Changed, Proceeds
<1> USE <1>b, <1>e, <1>f, <1>g DEF At, Running, PointFits, Points, BeforeMove, AfterMove
<1>1. ASSUME FindUser(c) PROVE Proceeds(c)
  BY <1>c, <1>1 DEF FindUser, UserFound
<1>2. ASSUME CreateUser(c) PROVE Proceeds(c)
  BY <1>2 DEF CreateUser, UserFound
<1>3. ASSUME CreateTransaction(c) PROVE Proceeds(c)
  BY <1>3 DEF CreateTransaction
<1>4. ASSUME CheckProcessing(c) PROVE Proceeds(c)
  BY <1>4 DEF CheckProcessing, CheckTransition
<1>5. ASSUME SetProcessing(c) PROVE Proceeds(c)
  BY <1>5 DEF SetProcessing
<1>6. ASSUME Charge(c) PROVE Proceeds(c)
  BY <1>i, <1>6 DEF Charge
<1>7. ASSUME AttachIntent(c) PROVE Proceeds(c)
  BY <1>7 DEF AttachIntent
<1>8. ASSUME UpdateBalance(c) PROVE Proceeds(c)
  BY <1>8 DEF UpdateBalance
<1>9. ASSUME CheckCompleted(c) PROVE Proceeds(c)
  BY <1>9 DEF CheckCompleted, CheckTransition
<1>10. ASSUME SetCompleted(c) PROVE Proceeds(c)
  BY <1>10 DEF SetCompleted
<1>11. ASSUME Answer(c) PROVE Proceeds(c)
  BY <1>11 DEF Answer
<1>12. ASSUME FindOwner(c) PROVE Proceeds(c)
  BY <1>12 DEF FindOwner
<1>13. ASSUME InsertAccount(c) PROVE Proceeds(c)
  BY <1>13 DEF InsertAccount
<1>14. ASSUME TopUp(c) PROVE Proceeds(c)
  BY <1>h, <1>14 DEF TopUp
<1>15. ASSUME ReadForClose(c) PROVE Proceeds(c)
  BY <1>15 DEF ReadForClose
<1>16. ASSUME WriteStatus(c) PROVE Proceeds(c)
  BY <1>16 DEF WriteStatus
<1>17. ASSUME ReadSource(c) PROVE Proceeds(c)
  BY <1>c, <1>17 DEF ReadSource
<1>18. ASSUME ReadTarget(c) PROVE Proceeds(c)
  BY <1>18 DEF ReadTarget
<1>19. ASSUME Transfer(c) PROVE Proceeds(c)
  BY <1>h, <1>19 DEF Transfer
<1>20. ASSUME CountInvoices(c) PROVE Proceeds(c)
  BY <1>d, <1>20 DEF CountInvoices
<1>21. ASSUME InsertInvoice(c) PROVE Proceeds(c)
  BY <1>21 DEF InsertInvoice
<1>22. ASSUME LoadPlan(c) PROVE Proceeds(c)
  BY <1>22 DEF LoadPlan
<1>23. ASSUME CancelAtStripe(c) PROVE Proceeds(c)
  BY <1>23 DEF CancelAtStripe
<1>24. ASSUME SavePlan(c) PROVE Proceeds(c)
  BY <1>24 DEF SavePlan
<1>25. ASSUME FailDatabase(c) PROVE Proceeds(c)
  BY <1>25 DEF FailDatabase
<1>26. ASSUME LoseCall(c) PROVE Proceeds(c)
  BY <1>26 DEF LoseCall
<1> QED
  BY <1>1, <1>2, <1>3, <1>4, <1>5, <1>6, <1>7, <1>8, <1>9, <1>10, <1>11, <1>12, <1>13, <1>14, <1>15, <1>16, <1>17, <1>18, <1>19, <1>20, <1>21, <1>22, <1>23, <1>24, <1>25, <1>26 DEF CallStep, WalletStep,
     AccountStep, InvoiceStep, PlanStep

(* What a new call looks like after its first step.                        *)
Starts(c) ==
    /\ call[c].at = "idle"
    /\ call' \in [Calls -> CallRecord]
    /\ \A d \in Calls : d # c => call'[d] = call[d]
    /\ call'[c].at \in {"user", "owner", "move", "write", "load", "source"}
    /\ PointFits(call'[c].at, call'[c].kind)
    /\ PartiesFit(call'[c].kind, call'[c].from, call'[c].to)
    /\ call'[c].at = "move" => call'[c].kind = "topUp"
    /\ call'[c].end = "running"
    /\ OneSpender /\ call'[c].kind \in {"withdraw", "transfer"} => ~Spending(call'[c].from)
    /\ UNCHANGED tables

LEMMA CallStarts ==
    ASSUME TypeInv, NEW c \in Calls, StartCall(c)
    PROVE  Starts(c)
<1> USE BillingAssumption, IdleIsCall
<1>0. call \in [Calls -> CallRecord]
  BY DEF TypeInv, BillingTypeOK
<1>1. ASSUME NEW kind \in Kinds, NEW from \in Holders \cup {Nobody},
             NEW to \in Holders \cup {Nobody},
             NEW p \in {"user", "owner", "move", "write", "load", "source"},
             Begin(c, kind, from, to, p),
             PointFits(p, kind), PartiesFit(kind, from, to),
             p = "move" => kind = "topUp",
             OneSpender /\ kind \in {"withdraw", "transfer"} => ~Spending(from)
      PROVE  Starts(c)
  <2>1. PICK m \in Amounts, now \in BOOLEAN :
            call' = [call EXCEPT ![c] = [Idle EXCEPT !.kind = kind, !.from = from, !.to = to,
                                                     !.amount = m, !.atOnce = now, !.at = p]]
    BY <1>1 DEF Begin
  <2> DEFINE e == [Idle EXCEPT !.kind = kind, !.from = from, !.to = to,
                               !.amount = m, !.atOnce = now, !.at = p]
  <2>2. e \in CallRecord
    BY DEF CallRecord, BeforeMove
  <2>3. e.kind = kind /\ e.from = from /\ e.to = to /\ e.at = p /\ e.end = "running"
    BY DEF CallRecord, Idle
  <2>4. call' = [call EXCEPT ![c] = e]
    BY <2>1
  <2> HIDE DEF e
  <2>5. /\ call' \in [Calls -> CallRecord]
        /\ \A d \in Calls : d # c => call'[d] = call[d]
        /\ call'[c] = e
    BY <1>0, <2>2, <2>4
  <2>6. call[c].at = "idle" /\ UNCHANGED tables
    BY DEF StartCall, At
  <2> QED
    BY <1>1, <2>3, <2>5, <2>6 DEF Starts
<1>2. Nobody \in Holders \cup {Nobody} /\ Users \subseteq Holders /\ Accounts \subseteq Holders
  BY DEF Holders
<1> USE <1>1, <1>2 DEF PointFits, PartiesFit, Kinds
<1>3. ASSUME NEW kind \in Offered \cap {"deposit", "query", "order"}, NEW u \in Users,
             Begin(c, kind, Nobody, u, "user")
      PROVE  Starts(c)
  BY <1>3
<1>4. ASSUME NEW kind \in Offered \cap {"withdraw"}, NEW u \in Users,
             OneSpender => ~Spending(u), Begin(c, kind, u, Nobody, "user")
      PROVE  Starts(c)
  BY <1>4
<1>5. ASSUME NEW kind \in Offered \cap {"open"}, NEW u \in Users, NEW a \in Accounts,
             Begin(c, kind, u, a, "owner")
      PROVE  Starts(c)
  BY <1>5
<1>6. ASSUME NEW kind \in Offered \cap {"topUp"}, NEW a \in Accounts,
             Begin(c, kind, Nobody, a, "move")
      PROVE  Starts(c)
  BY <1>6
<1>7. ASSUME NEW kind \in Offered \cap {"suspend"}, NEW a \in Accounts,
             Begin(c, kind, a, Nobody, "write")
      PROVE  Starts(c)
  BY <1>7
<1>8. ASSUME NEW kind \in Offered \cap {"close"}, NEW a \in Accounts,
             Begin(c, kind, a, Nobody, "load")
      PROVE  Starts(c)
  BY <1>8
<1>9. ASSUME NEW kind \in Offered \cap {"transfer"}, NEW a \in Accounts, NEW b \in Accounts,
             OneSpender => ~Spending(a), Begin(c, kind, a, b, "source")
      PROVE  Starts(c)
  BY <1>9
<1>10. ASSUME NEW kind \in Offered \cap {"cancel"}, NEW u \in Users,
             Begin(c, kind, u, Nobody, "load")
      PROVE  Starts(c)
  BY <1>10
<1> HIDE <1>1
<1> QED
  BY <1>3, <1>4, <1>5, <1>6, <1>7, <1>8, <1>9, <1>10 DEF StartCall

LEMMA CallsFitStep ==
    ASSUME TypeInv, NEW c \in Calls, Proceeds(c) \/ Starts(c)
    PROVE  CallsFit'
BY DEF TypeInv, CallsFit, Proceeds, Starts

LEMMA AddKeepsType ==
    ASSUME NEW b \in [Holders -> Int], NEW h \in Holders, NEW n \in Int
    PROVE  /\ [b EXCEPT ![h] = @ + n] \in [Holders -> Int]
           /\ [b EXCEPT ![h] = @ - n] \in [Holders -> Int]
OBVIOUS

(* What a handler's steps do to the tables.                                *)
LEMMA TableTypes ==
    ASSUME TypeInv, NEW c \in Calls, CallStep(c)
    PROVE  /\ rows' \subseteq Holders
           /\ balance' \in [Holders -> Int]
           /\ account' \in [Accounts -> {"NONE", "ACTIVE", "SUSPENDED", "CLOSED"}]
           /\ tx' \in [Calls -> Transaction]
           /\ intent' \in [Calls -> {"none", "pending", "succeeded"}]
           /\ invoice' \in [Calls -> Nat]
           /\ plan' \in [Users -> {"ACTIVE", "CANCELED"}]
           /\ stripePlan' \in [Users -> {"none", "active", "ending", "canceled"}]
<1> DEFINE Typed == /\ rows' \subseteq Holders
                    /\ balance' \in [Holders -> Int]
                    /\ account' \in [Accounts -> {"NONE", "ACTIVE", "SUSPENDED", "CLOSED"}]
                    /\ tx' \in [Calls -> Transaction]
                    /\ intent' \in [Calls -> {"none", "pending", "succeeded"}]
                    /\ invoice' \in [Calls -> Nat]
                    /\ plan' \in [Users -> {"ACTIVE", "CANCELED"}]
                    /\ stripePlan' \in [Users -> {"none", "active", "ending", "canceled"}]
<1>a. BillingTypeOK
  BY DEF TypeInv
<1>b. call[c] \in CallRecord
  BY <1>a DEF BillingTypeOK
<1>c. call[c].amount \in Int
  BY <1>b, AmountsArePositive DEF CallRecord
<1>d. /\ call[c].at = "newUser" => UserOf(c) \in Holders
      /\ call[c].at = "write" /\ call[c].kind = "open" => call[c].to \in Holders
      /\ call[c].at = "insert" => call[c].seen \in Nat
      /\ call[c].at = "move" =>
             /\ call[c].kind \in {"deposit", "withdraw"} => UserOf(c) \in Holders
             /\ call[c].kind \in {"transfer", "topUp"} => call[c].to \in Holders
             /\ call[c].kind = "transfer" => call[c].from \in Holders
  BY DEF TypeInv, CallsFit, PointFits, PartiesFit, UserOf, Holders
<1>e. UNCHANGED tables => Typed
  BY <1>a DEF tables, walletVars, planVars, BillingTypeOK
<1> USE <1>a DEF BillingTypeOK, walletVars, planVars, At, Transaction, TransactionStates,
        TransactionStatuses
<1>1. ASSUME FindUser(c) \/ CheckProcessing(c) \/ CheckCompleted(c) \/ Answer(c) \/ FindOwner(c) \/ ReadForClose(c) \/ ReadSource(c) \/ ReadTarget(c) \/ CountInvoices(c) \/ LoadPlan(c)
      PROVE  Typed
  BY <1>1, <1>e DEF FindUser, CheckProcessing, CheckCompleted, Answer, FindOwner, ReadForClose, ReadSource, ReadTarget, CountInvoices, LoadPlan, CheckTransition
<1>2. ASSUME CreateUser(c) PROVE Typed
  BY <1>d, <1>2 DEF CreateUser
<1>3. ASSUME CreateTransaction(c) PROVE Typed
  <2>1. [state |-> "CREATED", status |-> "PENDING"] \in Transaction
    OBVIOUS
  <2>2. tx' \in [Calls -> Transaction]
    BY <1>3, <2>1 DEF CreateTransaction
  <2>3. UNCHANGED <<rows, balance, account, intent, invoice, planVars>>
    BY <1>3 DEF CreateTransaction
  <2> QED
    BY <2>2, <2>3
<1>4. ASSUME SetProcessing(c) PROVE Typed
  BY <1>4 DEF SetProcessing, WriteState, StatusOf
<1>5. ASSUME Charge(c) PROVE Typed
  BY <1>5 DEF Charge
<1>6. ASSUME AttachIntent(c) PROVE Typed
  BY <1>6 DEF AttachIntent
<1>7. ASSUME UpdateBalance(c) PROVE Typed
  <2> DEFINE change == IF call[c].kind = "deposit" THEN call[c].amount ELSE -call[c].amount
  <2>1. change \in Int
    BY <1>c
  <2>2. balance' = [balance EXCEPT ![UserOf(c)] = @ + change]
    BY <1>7 DEF UpdateBalance
  <2> HIDE DEF change
  <2>3. balance' \in [Holders -> Int]
    BY <1>7, <1>d, <2>1, <2>2, AddKeepsType DEF UpdateBalance
  <2> QED
    BY <1>7, <2>3 DEF UpdateBalance
<1>8. ASSUME SetCompleted(c) PROVE Typed
  BY <1>8 DEF SetCompleted, WriteState, StatusOf
<1>9. ASSUME InsertAccount(c) PROVE Typed
  BY <1>d, <1>9 DEF InsertAccount
<1>10. ASSUME TopUp(c) PROVE Typed
  BY <1>c, <1>10 DEF TopUp
<1>11. ASSUME WriteStatus(c) PROVE Typed
  BY <1>11 DEF WriteStatus
<1>12. ASSUME Transfer(c) PROVE Typed
  <2> DEFINE taken == [balance EXCEPT ![call[c].from] = @ - call[c].amount]
  <2>1. taken \in [Holders -> Int]
    BY <1>12, <1>c, <1>d, AddKeepsType DEF Transfer
  <2>2. balance' = [taken EXCEPT ![call[c].to] = @ + call[c].amount]
    BY <1>12 DEF Transfer
  <2> HIDE DEF taken
  <2>3. balance' \in [Holders -> Int]
    BY <1>12, <1>c, <1>d, <2>1, <2>2, AddKeepsType DEF Transfer
  <2> QED
    BY <1>12, <2>3 DEF Transfer
<1>13. ASSUME InsertInvoice(c) PROVE Typed
  BY <1>d, <1>13 DEF InsertInvoice
<1>14. ASSUME CancelAtStripe(c) PROVE Typed
  BY <1>14 DEF CancelAtStripe
<1>15. ASSUME SavePlan(c) PROVE Typed
  BY <1>15 DEF SavePlan
<1> QED
  BY <1>1, <1>2, <1>3, <1>4, <1>5, <1>6, <1>7, <1>8, <1>9, <1>10, <1>11, <1>12, <1>13, <1>14, <1>15 DEF CallStep, WalletStep,
     AccountStep, InvoiceStep, PlanStep

LEMMA TypeStep == TypeInv /\ [BillingNext]_bvars => TypeInv'
<1> SUFFICES ASSUME TypeInv, [BillingNext]_bvars
             PROVE  TypeInv'
  OBVIOUS
<1> USE DEF TypeInv
<1>1. ASSUME NEW c \in Calls, StartCall(c) PROVE TypeInv'
  <2>1. Starts(c)
    BY <1>1, CallStarts
  <2>2. CallsFit'
    BY <2>1, CallsFitStep
  <2> QED
    BY <2>1, <2>2 DEF Starts, BillingTypeOK, tables, walletVars, planVars
<1>2. ASSUME NEW c \in Calls, CallStep(c) PROVE TypeInv'
  <2>1. Proceeds(c)
    BY <1>2, CallProceeds
  <2>2. CallsFit'
    BY <2>1, CallsFitStep
  <2> QED
    BY <1>2, <2>1, <2>2, TableTypes DEF Proceeds, BillingTypeOK
<1>3. ASSUME NEW c \in Calls, FailDatabase(c) \/ LoseCall(c) PROVE TypeInv'
  <2>1. Proceeds(c) /\ UNCHANGED tables
    BY <1>3, CallProceeds DEF FailDatabase, LoseCall
  <2>2. CallsFit'
    BY <2>1, CallsFitStep
  <2> QED
    BY <2>1, <2>2 DEF Proceeds, BillingTypeOK, tables, walletVars, planVars
<1>4. ASSUME NEW c \in Calls, SettleIntent(c) PROVE TypeInv'
  BY <1>4 DEF SettleIntent, BillingTypeOK, CallsFit, planVars
<1>5. ASSUME NEW u \in Users, StripeEnds(u) PROVE TypeInv'
  BY <1>5 DEF StripeEnds, BillingTypeOK, CallsFit, walletVars
<1>6. CASE UNCHANGED bvars
  BY <1>6 DEF bvars, tables, walletVars, planVars, BillingTypeOK, CallsFit
<1> QED
  BY <1>1, <1>2, <1>3, <1>4, <1>5, <1>6 DEF BillingNext

LEMMA TypeInvariance == BillingSpec => []TypeInv
BY TypeInit, TypeStep, PTL DEF BillingSpec

(* Type correctness of the whole module, for all kinds of calls at once.   *)
THEOREM BillingTypesOK == BillingSpec => []BillingTypeOK
BY TypeInvariance, PTL DEF TypeInv
-----------------------------------------------------------------------------
(***************************************************************************)
(* BillingCommands keeps the promise of LedgerPromise, for any values of   *)
(* the constants: each step of the module posts one entry to the ledger or *)
(* none at all.                                                            *)
(***************************************************************************)

Entry(from, to, m) ==
    [h \in Holders |-> (IF h = to THEN m ELSE 0) - (IF h = from THEN m ELSE 0)]

(* A credit, a debit or a transfer is an entry.                            *)
LEMMA EntryIsEntry ==
    ASSUME NEW from, NEW to, NEW m \in Int, from \in Holders \/ to \in Holders
    PROVE  Ledger!IsEntry(Entry(from, to, m))
<1> DEFINE e == Entry(from, to, m)
<1> SUFFICES Ledger!IsEntry(e)
  OBVIOUS
<1>1. e \in [Holders -> Int]
  BY DEF Entry
<1>2. \E g, h \in Holders : \A k \in Holders \ {g, h} : e[k] = 0
  <2>1. CASE from \in Holders /\ to \in Holders
    <3>1. \A k \in Holders \ {from, to} : e[k] = 0
      BY DEF Entry
    <3> HIDE DEF e
    <3> QED
      BY <2>1, <3>1
  <2>2. CASE from \in Holders /\ to \notin Holders
    <3>1. \A k \in Holders \ {from, from} : e[k] = 0
      BY <2>2 DEF Entry
    <3> HIDE DEF e
    <3> QED
      BY <2>2, <3>1
  <2>3. CASE from \notin Holders /\ to \in Holders
    <3>1. \A k \in Holders \ {to, to} : e[k] = 0
      BY <2>3 DEF Entry
    <3> HIDE DEF e
    <3> QED
      BY <2>3, <3>1
  <2> QED
    BY <2>1, <2>2, <2>3
<1>3. \A g, h \in Holders : g # h /\ e[g] # 0 /\ e[h] # 0 => e[g] + e[h] = 0
  BY DEF Entry
<1> HIDE DEF e
<1> QED
  BY <1>1, <1>2, <1>3 DEF Ledger!IsEntry

LEMMA NothingPosted ==
    ASSUME NEW c \in Calls
    PROVE  ~Moved(c) => Posting(c) = Ledger!NoEntry
BY DEF Posting, Ledger!NoEntry
-----------------------------------------------------------------------------
(* The two kinds of steps: call c keeps its balances and its side of the   *)
(* move, or it moves its money.                                            *)
Keeps(c) ==
    /\ balance' = balance
    /\ call'[c].at \in AfterMove <=> call[c].at \in AfterMove

Moves(c) ==
    /\ At(c, "move")
    /\ call[c].at \notin AfterMove
    /\ call'[c].at \in AfterMove
    /\ call[c].from \in Holders \/ call[c].to \in Holders
    /\ \A h \in Holders :
           balance'[h] = balance[h] + ((IF h = call[c].to THEN call[c].amount ELSE 0)
                                       - (IF h = call[c].from THEN call[c].amount ELSE 0))

LEMMA KeepsOrMoves ==
    ASSUME TypeInv, NEW c \in Calls, CallStep(c) \/ FailDatabase(c) \/ LoseCall(c)
    PROVE  Keeps(c) \/ Moves(c)
<1>a. call \in [Calls -> CallRecord] /\ call[c] \in CallRecord
  BY DEF TypeInv, BillingTypeOK
<1>b. balance \in [Holders -> Int] /\ call[c].amount \in Int
  BY <1>a, AmountsArePositive DEF TypeInv, BillingTypeOK, CallRecord
<1>f. call[c].at = "move" => PartiesFit(call[c].kind, call[c].from, call[c].to)
  BY <1>a, AmountsArePositive DEF TypeInv, BillingTypeOK, CallRecord, CallsFit
<1>c. /\ \A p \in Points : GoTo(c, p) => call'[c].at = p
      /\ \A p \in Points : \A n : GoToSeeing(c, p, n) => call'[c].at = p
      /\ Return(c) \/ Throw(c) => call'[c].at = call[c].at
      /\ call' = [call EXCEPT ![c].end = "lost"] => call'[c].at = call[c].at
      /\ call' = [call EXCEPT ![c].at = "moved", ![c].end = "returned"] =>
             call'[c].at = "moved"
      /\ \A b : call' = [call EXCEPT ![c].at = "attach", ![c].paid = b] =>
             call'[c].at = "attach"
  BY <1>a DEF GoTo, GoToSeeing, Return, Throw, CallRecord
<1>d. UNCHANGED tables => balance' = balance
  BY DEF tables
<1>e. Nobody \notin Holders /\ Users \subseteq Holders /\ Accounts \subseteq Holders
  BY BillingAssumption DEF Holders
<1> USE <1>c, <1>d DEF At, Points, BeforeMove, AfterMove
<1>1. ASSUME FindUser(c) PROVE Keeps(c)
  BY <1>1 DEF Keeps, FindUser, UserFound
<1>2. ASSUME CreateUser(c) PROVE Keeps(c)
  BY <1>2 DEF Keeps, CreateUser, UserFound
<1>3. ASSUME CreateTransaction(c) PROVE Keeps(c)
  BY <1>3 DEF Keeps, CreateTransaction
<1>4. ASSUME CheckProcessing(c) PROVE Keeps(c)
  BY <1>4 DEF Keeps, CheckProcessing, CheckTransition
<1>5. ASSUME SetProcessing(c) PROVE Keeps(c)
  BY <1>5 DEF Keeps, SetProcessing
<1>6. ASSUME Charge(c) PROVE Keeps(c)
  BY <1>6 DEF Keeps, Charge
<1>7. ASSUME AttachIntent(c) PROVE Keeps(c)
  BY <1>7 DEF Keeps, AttachIntent
<1>8. ASSUME CheckCompleted(c) PROVE Keeps(c)
  BY <1>8 DEF Keeps, CheckCompleted, CheckTransition
<1>9. ASSUME SetCompleted(c) PROVE Keeps(c)
  BY <1>9 DEF Keeps, SetCompleted
<1>10. ASSUME Answer(c) PROVE Keeps(c)
  BY <1>10 DEF Keeps, Answer
<1>11. ASSUME FindOwner(c) PROVE Keeps(c)
  BY <1>11 DEF Keeps, FindOwner
<1>12. ASSUME InsertAccount(c) PROVE Keeps(c)
  BY <1>12 DEF Keeps, InsertAccount
<1>13. ASSUME ReadForClose(c) PROVE Keeps(c)
  BY <1>13 DEF Keeps, ReadForClose
<1>14. ASSUME WriteStatus(c) PROVE Keeps(c)
  BY <1>14 DEF Keeps, WriteStatus
<1>15. ASSUME ReadSource(c) PROVE Keeps(c)
  BY <1>15 DEF Keeps, ReadSource
<1>16. ASSUME ReadTarget(c) PROVE Keeps(c)
  BY <1>16 DEF Keeps, ReadTarget
<1>17. ASSUME CountInvoices(c) PROVE Keeps(c)
  BY <1>17 DEF Keeps, CountInvoices
<1>18. ASSUME InsertInvoice(c) PROVE Keeps(c)
  BY <1>18 DEF Keeps, InsertInvoice
<1>19. ASSUME LoadPlan(c) PROVE Keeps(c)
  BY <1>19 DEF Keeps, LoadPlan
<1>20. ASSUME CancelAtStripe(c) PROVE Keeps(c)
  BY <1>20 DEF Keeps, CancelAtStripe
<1>21. ASSUME SavePlan(c) PROVE Keeps(c)
  BY <1>21 DEF Keeps, SavePlan
<1>22. ASSUME FailDatabase(c) PROVE Keeps(c)
  BY <1>22 DEF Keeps, FailDatabase
<1>23. ASSUME LoseCall(c) PROVE Keeps(c)
  BY <1>23 DEF Keeps, LoseCall
<1>24. ASSUME UpdateBalance(c) PROVE Moves(c)
  <2>1. /\ balance' = [balance EXCEPT ![UserOf(c)] =
                          @ + (IF call[c].kind = "deposit" THEN call[c].amount
                               ELSE -call[c].amount)]
        /\ At(c, "move") /\ call'[c].at = "checkCompleted"
        /\ call[c].kind \in {"deposit", "withdraw"}
    BY <1>24 DEF UpdateBalance
  <2>2. CASE call[c].kind = "deposit"
    <3>1. balance' = [balance EXCEPT ![call[c].to] = @ + call[c].amount]
      BY <2>1, <2>2 DEF UserOf
    <3>2. call[c].from \notin Holders /\ call[c].to \in Holders
      BY <1>b, <1>e, <1>f, <2>1, <2>2 DEF PartiesFit
    <3> QED
      BY <1>b, <2>1, <3>1, <3>2 DEF Moves
  <2>3. CASE call[c].kind = "withdraw"
    <3>1. balance' = [balance EXCEPT ![call[c].from] = @ - call[c].amount]
      BY <1>b, <2>1, <2>3 DEF UserOf
    <3>2. call[c].from \in Holders /\ call[c].to \notin Holders
      BY <1>b, <1>e, <1>f, <2>1, <2>3 DEF PartiesFit
    <3> QED
      BY <1>b, <2>1, <3>1, <3>2 DEF Moves
  <2> QED
    BY <2>1, <2>2, <2>3
<1>25. ASSUME TopUp(c) PROVE Keeps(c) \/ Moves(c)
  BY <1>25, <1>b, <1>e, <1>f DEF TopUp, Keeps, Moves, PartiesFit
<1>26. ASSUME Transfer(c) PROVE Moves(c)
  <2>1. /\ balance' = [[balance EXCEPT ![call[c].from] = @ - call[c].amount]
                           EXCEPT ![call[c].to] = @ + call[c].amount]
        /\ At(c, "move") /\ call'[c].at = "moved"
        /\ call[c].kind = "transfer"
    BY <1>26 DEF Transfer
  <2>2. call[c].from \in Holders /\ call[c].to \in Holders
    BY <1>b, <1>e, <1>f, <2>1 DEF PartiesFit
  <2> QED
    BY <1>b, <2>1, <2>2 DEF Moves
<1> QED
  BY <1>1, <1>2, <1>3, <1>4, <1>5, <1>6, <1>7, <1>8, <1>9, <1>10, <1>11, <1>12, <1>13, <1>14, <1>15, <1>16, <1>17, <1>18, <1>19, <1>20, <1>21, <1>22, <1>23, <1>24, <1>25, <1>26 DEF CallStep, WalletStep,
     AccountStep, InvoiceStep, PlanStep
-----------------------------------------------------------------------------
(* Steps of the ledger.                                                    *)
LEMMA MovesPosts ==
    ASSUME TypeInv, TypeInv', NEW c \in Calls, Proceeds(c), Moves(c)
    PROVE  Ledger!Next
<1> DEFINE entry == [d \in Calls |-> Posting(d)]
           e == Entry(call[c].from, call[c].to, call[c].amount)
<1>1. Posting(c)' = e
  BY DEF Proceeds, Moves, Moved, Posting, Entry
<1>2. Posting(c) = Ledger!NoEntry
  BY NothingPosted DEF Moves, Moved
<1>3. ASSUME NEW d \in Calls, d # c PROVE Posting(d)' = Posting(d)
  BY <1>3 DEF Proceeds, Posting, Moved
<1>4. entry' = [entry EXCEPT ![c] = e] /\ entry'[c] = e
  BY <1>1, <1>3
<1>5. Ledger!IsEntry(e)
  <2>1. call[c].amount \in Int
    BY AmountsArePositive DEF TypeInv, BillingTypeOK, CallRecord
  <2> QED
    BY <2>1, EntryIsEntry DEF Moves
<1>6. balance' = [h \in Holders |-> balance[h] + e[h]]
  <2>1. balance' = [h \in Holders |-> balance'[h]]
    BY DEF TypeInv, BillingTypeOK
  <2>2. \A h \in Holders : balance'[h] = balance[h] + e[h]
    BY DEF Moves, Entry
  <2> HIDE DEF e
  <2> QED
    BY <2>1, <2>2
<1> HIDE DEF e
<1> QED
  BY <1>2, <1>4, <1>5, <1>6 DEF Ledger!Next, Ledger!Post

LEMMA KeepsIsStutter ==
    ASSUME TypeInv, NEW c \in Calls, Proceeds(c) \/ Starts(c), Keeps(c)
    PROVE  UNCHANGED <<[d \in Calls |-> Posting(d)], balance>>
<1>1. Posting(c)' = Posting(c)
  BY DEF Proceeds, Starts, Keeps, Posting, Moved, AfterMove
<1>2. ASSUME NEW d \in Calls, d # c PROVE Posting(d)' = Posting(d)
  BY <1>2 DEF Proceeds, Starts, Posting, Moved
<1> QED
  BY <1>1, <1>2 DEF Keeps

LEMMA LedgerInit == BillingInit => Ledger!Init
<1> SUFFICES ASSUME BillingInit PROVE Ledger!Init
  OBVIOUS
<1>1. \A c \in Calls : ~Moved(c)
  BY DEF BillingInit, Idle, Moved, AfterMove
<1> QED
  BY <1>1 DEF Ledger!Init, Ledger!NoEntry, BillingInit, Posting

LEMMA LedgerStep ==
    TypeInv /\ TypeInv' /\ [BillingNext]_bvars =>
        [Ledger!Next]_<<[c \in Calls |-> Posting(c)], balance>>
<1> SUFFICES ASSUME TypeInv, TypeInv', [BillingNext]_bvars
             PROVE  [Ledger!Next]_<<[c \in Calls |-> Posting(c)], balance>>
  OBVIOUS
<1>1. ASSUME NEW c \in Calls, StartCall(c)
      PROVE  UNCHANGED <<[d \in Calls |-> Posting(d)], balance>>
  <2>1. Starts(c)
    BY <1>1, CallStarts
  <2>2. Keeps(c)
    BY <2>1 DEF Starts, Keeps, AfterMove, tables
  <2> QED
    BY <2>1, <2>2, KeepsIsStutter
<1>2. ASSUME NEW c \in Calls, CallStep(c) \/ FailDatabase(c) \/ LoseCall(c)
      PROVE  Ledger!Next \/ UNCHANGED <<[d \in Calls |-> Posting(d)], balance>>
  BY <1>2, CallProceeds, KeepsOrMoves, MovesPosts, KeepsIsStutter
<1>3. ASSUME UNCHANGED <<balance, call>>
      PROVE  UNCHANGED <<[d \in Calls |-> Posting(d)], balance>>
  BY <1>3 DEF Posting, Moved
<1>4. ASSUME (\E c \in Calls : SettleIntent(c)) \/ (\E u \in Users : StripeEnds(u))
             \/ UNCHANGED bvars
      PROVE  UNCHANGED <<balance, call>>
  BY <1>4 DEF SettleIntent, StripeEnds, bvars, tables
<1> QED
  BY <1>1, <1>2, <1>3, <1>4 DEF BillingNext

(* The balances of the billing module, with any calls in any order and any *)
(* failures between their steps, are the opening balances and what each    *)
(* call has posted once: updateBalance, updateVirtualAccountBalance and    *)
(* the transfer's transaction neither lose an update nor make one twice.   *)
THEOREM LedgerIsKept == BillingSpec => KeepsLedger
<1> USE DEF KeepsLedger, Ledger!Spec
<1> QED
  BY LedgerInit, LedgerStep, TypeInvariance, PTL DEF BillingSpec
-----------------------------------------------------------------------------
(***************************************************************************)
(* Nobody is overdrawn if each holder spends one call at a time. The check *)
(* of a withdrawal or a transfer lies several awaits before the money is   *)
(* taken, so the invariant follows the checked amount through the points   *)
(* in between: nobody else takes from that holder meanwhile.               *)
(***************************************************************************)

Checked == {"create", "checkProcessing", "setProcessing", "move"}

(* What has been checked of a spending call holds of the balance still.    *)
Covered(c) ==
    Spends(c) /\ Running(c) =>
        /\ call[c].at \in Checked => call[c].amount <= balance[call[c].from]
        /\ call[c].at = "target" => call[c].seen <= balance[call[c].from]

Alone ==
    \A c, d \in Calls :
        Spends(c) /\ Running(c) /\ Spends(d) /\ Running(d) /\ call[c].from = call[d].from
            => c = d

SpendingInv == TypeInv /\ NeverOverdrawn /\ (\A c \in Calls : Covered(c)) /\ Alone

LEMMA SpendingInit == BillingInit => SpendingInv
<1> SUFFICES ASSUME BillingInit PROVE SpendingInv
  OBVIOUS
<1>1. \A c \in Calls : ~Running(c)
  BY DEF BillingInit, Idle, Running
<1>2. NeverOverdrawn
  BY BillingAssumption DEF BillingInit, NeverOverdrawn
<1> QED
  BY <1>1, <1>2, TypeInit DEF SpendingInv, Covered, Alone

(* A step of call c leaves c covered.                                      *)
CoveredAfter(c) ==
    Spends(c) /\ call'[c].end = "running" =>
        /\ call[c].end = "running"
        /\ call'[c].at \in Checked => call[c].amount <= balance[call[c].from]
        /\ call'[c].at = "target" => call'[c].seen <= balance[call[c].from]

LEMMA StepCovers ==
    ASSUME SpendingInv, NEW c \in Calls, CallStep(c) \/ FailDatabase(c) \/ LoseCall(c)
    PROVE  CoveredAfter(c)
<1>a. call \in [Calls -> CallRecord] /\ call[c] \in CallRecord
  BY DEF SpendingInv, TypeInv, BillingTypeOK
<1>b. \A h \in Holders : balance[h] \in Int /\ balance[h] >= 0
  BY DEF SpendingInv, TypeInv, BillingTypeOK, NeverOverdrawn
<1>c. call[c].amount \in Int /\ call[c].amount > 0
  BY <1>a, AmountsArePositive DEF CallRecord
<1>d. call[c].at # "idle" =>
          /\ PointFits(call[c].at, call[c].kind)
          /\ Spends(c) => call[c].from \in Holders
          /\ call[c].kind = "withdraw" => UserOf(c) = call[c].from
  BY DEF SpendingInv, TypeInv, CallsFit, PartiesFit, Spends, Holders, UserOf
<1>e. Covered(c)
  BY DEF SpendingInv
<1>f. ASSUME NEW p \in Points, GoTo(c, p)
      PROVE  call'[c].at = p /\ call'[c].seen = call[c].seen /\ call'[c].end = call[c].end
  <2>1. Changed(c, p, call[c].seen, call[c].paid, call[c].end)
    BY <1>a, <1>f, CallChanges
  <2> QED
    BY <2>1 DEF Changed
<1>i. ASSUME NEW p \in Points, NEW n \in Int, GoToSeeing(c, p, n)
      PROVE  call'[c].at = p /\ call'[c].seen = n /\ call'[c].end = call[c].end
  <2>1. Changed(c, p, n, call[c].paid, call[c].end)
    BY <1>a, <1>i, CallChanges
  <2> QED
    BY <2>1 DEF Changed
<1>g. /\ Return(c) => call'[c].end = "returned"
      /\ Throw(c) => call'[c].end = "threw"
      /\ call' = [call EXCEPT ![c].end = "lost"] => call'[c].end = "lost"
  BY <1>a, CallChanges DEF Changed
<1>h. /\ call' = [call EXCEPT ![c].at = "moved", ![c].end = "returned"] =>
             call'[c].end = "returned"
      /\ \A b \in BOOLEAN : call' = [call EXCEPT ![c].at = "attach", ![c].paid = b] =>
             call'[c].at = "attach" /\ call'[c].end = call[c].end
  BY <1>a, CallChanges DEF Changed
<1> USE <1>f, <1>g, <1>h, <1>i DEF CoveredAfter, At, Running, Points, BeforeMove, AfterMove, Checked
<1>1. ASSUME FindUser(c) PROVE CoveredAfter(c)
  BY <1>b, <1>c, <1>d, <1>1 DEF FindUser, UserFound, Spends, UserOf, PointFits
<1>2. ASSUME CreateUser(c) PROVE CoveredAfter(c)
  BY <1>b, <1>c, <1>d, <1>2 DEF CreateUser, UserFound, Spends, UserOf, PointFits
<1>3. ASSUME CreateTransaction(c) PROVE CoveredAfter(c)
  BY <1>e, <1>3 DEF CreateTransaction, Covered
<1>4. ASSUME CheckProcessing(c) PROVE CoveredAfter(c)
  BY <1>e, <1>4 DEF CheckProcessing, CheckTransition, Covered
<1>5. ASSUME SetProcessing(c) PROVE CoveredAfter(c)
  BY <1>d, <1>e, <1>5 DEF SetProcessing, Covered, PointFits, Spends
<1>6. ASSUME Charge(c) PROVE CoveredAfter(c)
  BY <1>d, <1>6 DEF Charge, PointFits, Spends
<1>7. ASSUME AttachIntent(c) PROVE CoveredAfter(c)
  BY <1>d, <1>7 DEF AttachIntent, PointFits, Spends
<1>8. ASSUME UpdateBalance(c) PROVE CoveredAfter(c)
  BY <1>8 DEF UpdateBalance
<1>9. ASSUME CheckCompleted(c) PROVE CoveredAfter(c)
  BY <1>9 DEF CheckCompleted, CheckTransition
<1>10. ASSUME SetCompleted(c) PROVE CoveredAfter(c)
  BY <1>10 DEF SetCompleted
<1>11. ASSUME Answer(c) PROVE CoveredAfter(c)
  BY <1>11 DEF Answer
<1>12. ASSUME FindOwner(c) PROVE CoveredAfter(c)
  BY <1>12 DEF FindOwner
<1>13. ASSUME InsertAccount(c) PROVE CoveredAfter(c)
  BY <1>13 DEF InsertAccount
<1>14. ASSUME TopUp(c) PROVE CoveredAfter(c)
  BY <1>14 DEF TopUp
<1>15. ASSUME ReadForClose(c) PROVE CoveredAfter(c)
  BY <1>15 DEF ReadForClose
<1>16. ASSUME WriteStatus(c) PROVE CoveredAfter(c)
  BY <1>16 DEF WriteStatus
<1>17. ASSUME ReadSource(c) PROVE CoveredAfter(c)
  BY <1>b, <1>d, <1>17 DEF ReadSource, PointFits, Spends
<1>18. ASSUME ReadTarget(c) PROVE CoveredAfter(c)
  <2>1. CASE Throw(c)
    BY <2>1
  <2>2. CASE GoTo(c, "move") /\ call[c].seen >= call[c].amount /\ call[c].at = "target"
             /\ call[c].end = "running"
    <3>1. Spends(c) => balance[call[c].from] \in Int
      BY <1>b, <1>d, <2>2
    <3>2. Spends(c) => call[c].seen <= balance[call[c].from]
      BY <1>e, <2>2 DEF Covered
    <3>3. call[c].seen \in Int
      BY <1>a DEF CallRecord
    <3>4. Spends(c) => call[c].amount <= balance[call[c].from]
      BY <1>c, <2>2, <3>1, <3>2, <3>3
    <3> QED
      BY <2>2, <3>4
  <2> QED
    BY <1>18, <2>1, <2>2 DEF ReadTarget
<1>19. ASSUME Transfer(c) PROVE CoveredAfter(c)
  BY <1>19 DEF Transfer
<1>20. ASSUME CountInvoices(c) PROVE CoveredAfter(c)
  BY <1>d, <1>20 DEF CountInvoices, PointFits, Spends
<1>21. ASSUME InsertInvoice(c) PROVE CoveredAfter(c)
  BY <1>21 DEF InsertInvoice
<1>22. ASSUME LoadPlan(c) PROVE CoveredAfter(c)
  BY <1>22 DEF LoadPlan
<1>23. ASSUME CancelAtStripe(c) PROVE CoveredAfter(c)
  BY <1>23 DEF CancelAtStripe
<1>24. ASSUME SavePlan(c) PROVE CoveredAfter(c)
  BY <1>24 DEF SavePlan
<1>25. ASSUME FailDatabase(c) PROVE CoveredAfter(c)
  BY <1>25 DEF FailDatabase
<1>26. ASSUME LoseCall(c) PROVE CoveredAfter(c)
  BY <1>26 DEF LoseCall
<1> QED
  BY <1>1, <1>2, <1>3, <1>4, <1>5, <1>6, <1>7, <1>8, <1>9, <1>10, <1>11, <1>12, <1>13, <1>14, <1>15, <1>16, <1>17, <1>18, <1>19, <1>20, <1>21, <1>22, <1>23, <1>24, <1>25, <1>26 DEF CallStep, WalletStep,
     AccountStep, InvoiceStep, PlanStep

(* A balance falls only by a running call that spends from it.             *)
LEMMA WhoFalls ==
    ASSUME TypeInv, NEW c \in Calls, Keeps(c) \/ Moves(c), NEW h \in Holders
    PROVE  \/ balance'[h] >= balance[h]
           \/ /\ Spends(c) /\ Running(c) /\ call[c].at = "move" /\ h = call[c].from
              /\ balance'[h] = balance[h] - call[c].amount
<1>1. balance[h] \in Int /\ call[c].amount \in Int /\ call[c].amount > 0
  BY AmountsArePositive DEF TypeInv, BillingTypeOK, CallRecord
<1>2. CASE Keeps(c)
  BY <1>1, <1>2 DEF Keeps
<1>3. CASE Moves(c) /\ h # call[c].from
  BY <1>1, <1>3 DEF Moves
<1>4. CASE Moves(c) /\ h = call[c].from
  <2>1. Spends(c) /\ Running(c) /\ call[c].at = "move"
    BY <1>4, BillingAssumption
       DEF Moves, At, Running, Spends, TypeInv, CallsFit, PointFits, PartiesFit
  <2> QED
    BY <1>1, <1>4, <2>1 DEF Moves
<1> QED
  BY <1>2, <1>3, <1>4

LEMMA HandlerKeepsSpending ==
    ASSUME SpendingInv, NEW c \in Calls, CallStep(c) \/ FailDatabase(c) \/ LoseCall(c)
    PROVE  NeverOverdrawn' /\ (\A d \in Calls : Covered(d)') /\ Alone'
<1>1. Proceeds(c) /\ CoveredAfter(c) /\ (Keeps(c) \/ Moves(c)) /\ TypeInv
  BY CallProceeds, StepCovers, KeepsOrMoves DEF SpendingInv
<1>2. ASSUME NEW d \in Calls
      PROVE  /\ call[d].amount \in Int /\ call[d].seen \in Int
             /\ Spends(d) /\ Running(d) => call[d].from \in Holders
             /\ \A h \in Holders : balance[h] \in Int
             /\ Covered(d)
  BY AmountsArePositive
     DEF SpendingInv, TypeInv, BillingTypeOK, CallRecord, CallsFit, PartiesFit, Spends,
         Running, Holders
<1>3. /\ \A d \in Calls : Spends(d)' = Spends(d)
      /\ \A d \in Calls : Spends(d) /\ Running(d)' => Running(d) /\ call'[d].from = call[d].from
  BY <1>1 DEF Proceeds, Spends, Running, CoveredAfter
<1>4. NeverOverdrawn'
  <2> SUFFICES ASSUME NEW h \in Holders PROVE balance'[h] >= 0
    BY DEF NeverOverdrawn
  <2>1. balance[h] >= 0 /\ balance[h] \in Int /\ balance'[h] \in Int
    BY <1>1, <1>2 DEF SpendingInv, NeverOverdrawn, Keeps, Moves
  <2>2. CASE balance'[h] >= balance[h]
    BY <2>1, <2>2
  <2>3. CASE /\ Spends(c) /\ Running(c) /\ call[c].at = "move" /\ h = call[c].from
             /\ balance'[h] = balance[h] - call[c].amount
    BY <1>2, <2>1, <2>3 DEF Covered, Checked
  <2> QED
    BY <1>1, <2>2, <2>3, WhoFalls
<1>5. Alone'
  BY <1>3 DEF SpendingInv, Alone
<1>6. ASSUME NEW d \in Calls, d # c PROVE Covered(d)'
  <2> SUFFICES ASSUME Spends(d), Running(d)'
               PROVE  /\ call[d].at \in Checked => call[d].amount <= balance'[call[d].from]
                      /\ call[d].at = "target" => call[d].seen <= balance'[call[d].from]
    BY <1>1, <1>3, <1>6 DEF Covered, Proceeds
  <2>1. Running(d) /\ call[d].from \in Holders
    BY <1>2, <1>3
  <2>2. balance'[call[d].from] >= balance[call[d].from]
    BY <1>1, <1>6, <2>1, WhoFalls DEF SpendingInv, Alone
  <2>3. balance[call[d].from] \in Int /\ balance'[call[d].from] \in Int
    BY <1>1, <1>2, <2>1 DEF Keeps, Moves
  <2> QED
    BY <1>2, <2>1, <2>2, <2>3 DEF Covered
<1>7. Covered(c)'
  <2> SUFFICES ASSUME Spends(c), Running(c)'
               PROVE  /\ call'[c].at \in Checked => call[c].amount <= balance'[call[c].from]
                      /\ call'[c].at = "target" => call'[c].seen <= balance'[call[c].from]
    BY <1>1, <1>3 DEF Covered, Proceeds
  <2>1. CASE Keeps(c)
    BY <1>1, <2>1 DEF Keeps, CoveredAfter, Running
  <2>2. CASE Moves(c)
    BY <2>2 DEF Moves, AfterMove, Checked
  <2> QED
    BY <1>1, <2>1, <2>2
<1> QED
  BY <1>4, <1>5, <1>6, <1>7

(* A new spending call is the only one of its holder.                      *)
LEMMA StartKeepsSpending ==
    ASSUME OneSpender, SpendingInv, NEW c \in Calls, Starts(c)
    PROVE  NeverOverdrawn' /\ (\A d \in Calls : Covered(d)') /\ Alone'
<1>1. balance' = balance
  BY DEF Starts, tables
<1>2. NeverOverdrawn'
  BY <1>1 DEF SpendingInv, NeverOverdrawn
<1>3. ASSUME NEW d \in Calls PROVE Covered(d)'
  <2>1. CASE d = c
    BY <1>1, <2>1 DEF Starts, Covered, Checked, Spends
  <2>2. CASE d # c
    BY <1>1, <2>2 DEF Starts, SpendingInv, Covered, Spends, Running
  <2> QED
    BY <2>1, <2>2
<1>4. Spends(c)' => ~Spending(call'[c].from)
  BY DEF Starts, Spends
<1>5. Alone'
  BY <1>4 DEF Starts, SpendingInv, Alone, Spending, Spends, Running
<1> QED
  BY <1>2, <1>3, <1>5

LEMMA SpendingStep ==
    ASSUME OneSpender
    PROVE  SpendingInv /\ TypeInv' /\ [BillingNext]_bvars => SpendingInv'
<1> SUFFICES ASSUME SpendingInv, TypeInv', [BillingNext]_bvars
             PROVE  NeverOverdrawn' /\ (\A d \in Calls : Covered(d)') /\ Alone'
  BY DEF SpendingInv
<1>1. ASSUME NEW c \in Calls, StartCall(c)
      PROVE  NeverOverdrawn' /\ (\A d \in Calls : Covered(d)') /\ Alone'
  BY <1>1, CallStarts, StartKeepsSpending DEF SpendingInv
<1>2. ASSUME NEW c \in Calls, CallStep(c) \/ FailDatabase(c) \/ LoseCall(c)
      PROVE  NeverOverdrawn' /\ (\A d \in Calls : Covered(d)') /\ Alone'
  BY <1>2, HandlerKeepsSpending
<1>3. ASSUME UNCHANGED <<balance, call>>
      PROVE  NeverOverdrawn' /\ (\A d \in Calls : Covered(d)') /\ Alone'
  BY <1>3 DEF SpendingInv, NeverOverdrawn, Covered, Alone, Spends, Running
<1>4. ASSUME (\E c \in Calls : SettleIntent(c)) \/ (\E u \in Users : StripeEnds(u))
             \/ UNCHANGED bvars
      PROVE  UNCHANGED <<balance, call>>
  BY <1>4 DEF SettleIntent, StripeEnds, bvars, tables
<1> QED
  BY <1>1, <1>2, <1>3, <1>4 DEF BillingNext

(* No balance is ever negative if the calls that spend from one holder     *)
(* come one after the other, whatever else happens at the same time; the   *)
(* run wallet_overdraft shows that the condition is needed.                *)
THEOREM OneSpenderSuffices ==
    ASSUME OneSpender
    PROVE  BillingSpec => []NeverOverdrawn
<1>1. SpendingInv => NeverOverdrawn
  BY DEF SpendingInv
<1>2. SpendingInv /\ TypeInv' /\ [BillingNext]_bvars => SpendingInv'
  BY SpendingStep
<1> QED
  BY SpendingInit, <1>1, <1>2, TypeInvariance, PTL DEF BillingSpec
=============================================================================
