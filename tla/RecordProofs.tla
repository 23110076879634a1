---------------------------- MODULE RecordProofs ----------------------------
(***************************************************************************)
(* Theorems about what the billing calls record: transactions, payments,   *)
(* subscriptions and invoices.                                             *)
(***************************************************************************)
EXTENDS BillingProofs

(***************************************************************************)
(* What the state of a transaction, the answer of a call and the row of a  *)
(* subscription say is true. The invariants tie what is stored to the      *)
(* point at which its call is, or stopped.                                 *)
(***************************************************************************)

Pays(c) == call[c].kind \in {"deposit", "withdraw"}

(* The transaction of a call, by the point of the call.                    *)
StateFits(c) ==
    /\ ~Pays(c) \/ call[c].at \in {"idle", "user", "newUser", "create"} =>
           tx[c] = NoTransaction
    /\ Pays(c) /\ call[c].at \in {"checkProcessing", "setProcessing"} =>
           tx[c] = [state |-> "CREATED", status |-> "PENDING"]
    /\ Pays(c) /\ call[c].at \in {"charge", "attach", "pending", "move",
                                  "checkCompleted", "setCompleted"} =>
           tx[c] = [state |-> "PROCESSING", status |-> "PROCESSING"]
    /\ call[c].at = "answer" => tx[c] = [state |-> "COMPLETED", status |-> "COMPLETED"]

(* The payment of a deposit, by the point of the call.                     *)
PaymentFits(c) ==
    /\ call[c].kind = "deposit" /\ call[c].at \in {"move"} \cup AfterMove =>
           intent[c] = "succeeded"
    /\ call[c].at = "attach" /\ call[c].paid => intent[c] = "succeeded"
    /\ call[c].at = "pending" => ~call[c].paid

AnswerFits(c) ==
    call[c].end = "returned" /\ Pays(c) => call[c].at \in {"answer", "pending"}

TransactionFits(c) == StateFits(c) /\ PaymentFits(c) /\ AnswerFits(c)

LEMMA TransactionInit == BillingInit => \A c \in Calls : TransactionFits(c)
BY DEF BillingInit, Idle, TransactionFits, StateFits, PaymentFits, AnswerFits, Pays, AfterMove

(* A step of call c leaves the transactions and payments of others alone.  *)
OthersKeep(c) ==
    \A d \in Calls : d # c => tx'[d] = tx[d] /\ intent'[d] = intent[d]

LEMMA HandlerFits ==
    ASSUME TypeInv, NEW c \in Calls, TransactionFits(c),
           CallStep(c) \/ FailDatabase(c) \/ LoseCall(c)
    PROVE  TransactionFits(c)' /\ OthersKeep(c)
<1> DEFINE Good == TransactionFits(c)' /\ OthersKeep(c)
<1>a. call \in [Calls -> CallRecord] /\ call[c] \in CallRecord
  BY DEF TypeInv, BillingTypeOK
<1>b. /\ tx \in [Calls -> Transaction]
      /\ intent \in [Calls -> {"none", "pending", "succeeded"}]
  BY DEF TypeInv, BillingTypeOK
<1>c. call[c].at # "idle" => PointFits(call[c].at, call[c].kind)
  BY DEF TypeInv, CallsFit
<1>d. call'[c].kind = call[c].kind
  BY CallProceeds DEF Proceeds
<1>e. ASSUME NEW p \in Points, GoTo(c, p)
      PROVE  call'[c].at = p /\ call'[c].paid = call[c].paid /\ call'[c].end = call[c].end
  <2>1. Changed(c, p, call[c].seen, call[c].paid, call[c].end)
    BY <1>a, <1>e, CallChanges
  <2> QED
    BY <2>1 DEF Changed
<1>f. ASSUME NEW p \in Points, NEW n \in Int, GoToSeeing(c, p, n)
      PROVE  call'[c].at = p /\ call'[c].paid = call[c].paid /\ call'[c].end = call[c].end
  <2>1. Changed(c, p, n, call[c].paid, call[c].end)
    BY <1>a, <1>f, CallChanges
  <2> QED
    BY <2>1 DEF Changed
<1>g. ASSUME Return(c) \/ Throw(c) \/ call' = [call EXCEPT ![c].end = "lost"]
      PROVE  /\ call'[c].at = call[c].at /\ call'[c].paid = call[c].paid
             /\ ~Return(c) => call'[c].end \in {"threw", "lost"}
  BY <1>a, <1>g, CallChanges DEF Changed
<1>h. ASSUME call' = [call EXCEPT ![c].at = "moved", ![c].end = "returned"]
      PROVE  call'[c].at = "moved"
  BY <1>a, <1>h, CallChanges DEF Changed
<1>i. ASSUME NEW b \in BOOLEAN, call' = [call EXCEPT ![c].at = "attach", ![c].paid = b]
      PROVE  call'[c].at = "attach" /\ call'[c].paid = b /\ call'[c].end = call[c].end
  BY <1>a, <1>i, CallChanges DEF Changed
<1>j. UNCHANGED tables => tx' = tx /\ intent' = intent
  BY DEF tables, walletVars
<1>k. \A h \in rows : balance[h] \in Int
  BY DEF TypeInv, BillingTypeOK
<1>n. Cardinality(Numbered) \in Int
  <2>1. IsFiniteSet(Numbered)
    BY BillingAssumption, FS_Subset DEF Numbered
  <2> QED
    BY <2>1, FS_CardinalityType
<1>l. call[c].seen \in Int
  BY <1>a DEF CallRecord
<1> USE <1>c, <1>d, <1>e, <1>f, <1>g, <1>j
    DEF At, Running, Points, BeforeMove, AfterMove, PointFits, Pays, TransactionFits, StateFits,
        PaymentFits, AnswerFits, OthersKeep, walletVars
<1>m. ASSUME Throw(c) \/ call' = [call EXCEPT ![c].end = "lost"], tx'[c] = tx[c],
             intent' = intent \/ call[c].at = "charge", OthersKeep(c)
      PROVE  Good
  <2>1. call'[c].end # "returned"
    BY <1>a, <1>m, CallChanges DEF Changed
  <2> QED
    BY <1>m, <2>1
<1> USE <1>m
<1>1. ASSUME FindUser(c) PROVE Good
  <2>1. tx' = tx /\ intent' = intent
    BY <1>1 DEF FindUser
  <2>2. CASE Throw(c)
    BY <2>1, <2>2
  <2>3. CASE Return(c) /\ call[c].kind = "query"
    BY <2>1, <2>3
  <2>4. CASE /\ call[c].at = "user"
             /\ \/ \E n \in Int : GoToSeeing(c, "create", n)
                \/ GoTo(c, "count") /\ ~Pays(c)
                \/ GoTo(c, "newUser")
    BY <2>1, <2>4
  <2> QED
    BY <1>k, <1>1, <2>2, <2>3, <2>4 DEF FindUser, UserFound
<1>2. ASSUME CreateUser(c) PROVE Good
  <2>1. tx' = tx /\ intent' = intent
    BY <1>2 DEF CreateUser
  <2>2. CASE Throw(c)
    BY <2>1, <2>2
  <2>3. CASE Return(c) /\ call[c].kind = "query"
    BY <2>1, <2>3
  <2>4. CASE /\ call[c].at = "newUser"
             /\ \/ GoToSeeing(c, "create", 0)
                \/ GoTo(c, "count") /\ ~Pays(c)
    BY <2>1, <2>4
  <2> QED
    BY <1>2, <2>2, <2>3, <2>4 DEF CreateUser, UserFound
<1>3. ASSUME CreateTransaction(c) PROVE Good
  <2>1. CASE Throw(c)
    BY <1>3, <2>1 DEF CreateTransaction
  <2>2. CASE GoTo(c, "checkProcessing")
    BY <1>b, <1>3, <2>2 DEF CreateTransaction
  <2> QED
    BY <1>3, <2>1, <2>2 DEF CreateTransaction
<1>4. ASSUME CheckProcessing(c) PROVE Good
  <2>1. CASE Throw(c)
    BY <1>4, <2>1 DEF CheckProcessing, CheckTransition
  <2>2. CASE GoTo(c, "setProcessing")
    BY <1>4, <2>2 DEF CheckProcessing, CheckTransition
  <2> QED
    BY <1>4, <2>1, <2>2 DEF CheckProcessing, CheckTransition
<1>5. ASSUME SetProcessing(c) PROVE Good
  BY <1>b, <1>5 DEF SetProcessing, WriteState, StatusOf
<1>6. ASSUME Charge(c) PROVE Good
  <2>1. tx' = tx /\ OthersKeep(c) /\ call[c].at = "charge" /\ call[c].end = "running"
    BY <1>b, <1>6 DEF Charge
  <2>2. CASE Throw(c)
    BY <2>1, <2>2
  <2>3. CASE call' = [call EXCEPT ![c].at = "attach", ![c].paid = (intent'[c] = "succeeded")]
    BY <1>i, <2>1, <2>3
  <2> QED
    BY <1>6, <2>2, <2>3 DEF Charge
<1>7. ASSUME AttachIntent(c) PROVE Good
  BY <1>b, <1>7 DEF AttachIntent
<1>8. ASSUME UpdateBalance(c) PROVE Good
  BY <1>8 DEF UpdateBalance
<1>9. ASSUME CheckCompleted(c) PROVE Good
  <2>1. CASE Throw(c)
    BY <1>9, <2>1 DEF CheckCompleted, CheckTransition
  <2>2. CASE GoTo(c, "setCompleted")
    BY <1>9, <2>2 DEF CheckCompleted, CheckTransition
  <2> QED
    BY <1>9, <2>1, <2>2 DEF CheckCompleted, CheckTransition
<1>10. ASSUME SetCompleted(c) PROVE Good
  BY <1>b, <1>10 DEF SetCompleted, WriteState, StatusOf
<1>11. ASSUME Answer(c) PROVE Good
  BY <1>11 DEF Answer
<1>12. ASSUME FindOwner(c) PROVE Good
  BY <1>12 DEF FindOwner
<1>13. ASSUME InsertAccount(c) PROVE Good
  BY <1>13 DEF InsertAccount
<1>14. ASSUME TopUp(c) PROVE Good
  BY <1>h, <1>14 DEF TopUp
<1>15. ASSUME ReadForClose(c) PROVE Good
  BY <1>15 DEF ReadForClose
<1>16. ASSUME WriteStatus(c) PROVE Good
  BY <1>16 DEF WriteStatus
<1>17. ASSUME ReadSource(c) PROVE Good
  <2>1. tx' = tx /\ intent' = intent
    BY <1>17 DEF ReadSource
  <2>2. CASE Throw(c)
    BY <2>1, <2>2
  <2>3. CASE \E n \in Int : GoToSeeing(c, "target", n)
    BY <1>17, <2>1, <2>3 DEF ReadSource
  <2> QED
    BY <1>k, <1>17, <2>2, <2>3 DEF ReadSource
<1>18. ASSUME ReadTarget(c) PROVE Good
  BY <1>18 DEF ReadTarget
<1>19. ASSUME Transfer(c) PROVE Good
  BY <1>h, <1>19 DEF Transfer
<1>20. ASSUME CountInvoices(c) PROVE Good
  <2>1. \E n \in Int : GoToSeeing(c, "insert", n)
    BY <1>n, <1>20 DEF CountInvoices
  <2> QED
    BY <1>20, <2>1 DEF CountInvoices
<1>21. ASSUME InsertInvoice(c) PROVE Good
  BY <1>21 DEF InsertInvoice
<1>22. ASSUME LoadPlan(c) PROVE Good
  BY <1>22 DEF LoadPlan
<1>23. ASSUME CancelAtStripe(c) PROVE Good
  BY <1>23 DEF CancelAtStripe
<1>24. ASSUME SavePlan(c) PROVE Good
  BY <1>24 DEF SavePlan
<1>25. ASSUME FailDatabase(c) PROVE Good
  BY <1>25, <1>m DEF FailDatabase
<1>26. ASSUME LoseCall(c) PROVE Good
  BY <1>26 DEF LoseCall
<1> QED
  BY <1>1, <1>2, <1>3, <1>4, <1>5, <1>6, <1>7, <1>8, <1>9, <1>10, <1>11, <1>12, <1>13, <1>14, <1>15, <1>16, <1>17, <1>18, <1>19, <1>20, <1>21, <1>22, <1>23, <1>24, <1>25, <1>26 DEF CallStep, WalletStep,
     AccountStep, InvoiceStep, PlanStep

LEMMA OthersFit ==
    ASSUME NEW c \in Calls, TransactionFits(c), call'[c] = call[c], tx'[c] = tx[c],
           intent'[c] = intent[c] \/ intent'[c] = "succeeded"
    PROVE  TransactionFits(c)'
BY DEF TransactionFits, StateFits, PaymentFits, AnswerFits, Pays

LEMMA TransactionStep ==
    TypeInv /\ (\A c \in Calls : TransactionFits(c)) /\ [BillingNext]_bvars =>
        (\A c \in Calls : TransactionFits(c))'
<1> SUFFICES ASSUME TypeInv, \A c \in Calls : TransactionFits(c), [BillingNext]_bvars,
                    NEW d \in Calls
             PROVE  TransactionFits(d)'
  OBVIOUS
<1>0. tx \in [Calls -> Transaction] /\ intent \in [Calls -> {"none", "pending", "succeeded"}]
  BY DEF TypeInv, BillingTypeOK
<1>1. ASSUME NEW c \in Calls, StartCall(c) PROVE TransactionFits(d)'
  <2>1. Starts(c) /\ tx' = tx /\ intent' = intent
    BY <1>1, CallStarts DEF Starts, tables, walletVars
  <2>2. CASE d = c
    BY <2>1, <2>2
       DEF Starts, TransactionFits, StateFits, PaymentFits, AnswerFits, Pays, AfterMove, PointFits
  <2>3. CASE d # c
    BY <2>1, <2>3, OthersFit DEF Starts
  <2> QED
    BY <2>2, <2>3
<1>2. ASSUME NEW c \in Calls, CallStep(c) \/ FailDatabase(c) \/ LoseCall(c)
      PROVE  TransactionFits(d)'
  <2>1. Proceeds(c) /\ TransactionFits(c)' /\ OthersKeep(c)
    BY <1>2, CallProceeds, HandlerFits
  <2>2. CASE d # c
    BY <2>1, <2>2, OthersFit DEF Proceeds, OthersKeep
  <2> QED
    BY <2>1, <2>2
<1>3. ASSUME NEW c \in Calls, SettleIntent(c) PROVE TransactionFits(d)'
  BY <1>0, <1>3, OthersFit DEF SettleIntent
<1>4. ASSUME (\E u \in Users : StripeEnds(u)) \/ UNCHANGED bvars PROVE TransactionFits(d)'
  BY <1>4, OthersFit DEF StripeEnds, bvars, tables, walletVars
<1> QED
  BY <1>1, <1>2, <1>3, <1>4 DEF BillingNext

LEMMA TransactionInvariance == BillingSpec => [](\A c \in Calls : TransactionFits(c))
BY TransactionInit, TransactionStep, TypeInvariance, PTL DEF BillingSpec

(* A transaction that says COMPLETED has moved its money, and no deposit   *)
(* is credited before Stripe has been paid, for any calls at once and any  *)
(* failures: updateBalance lies between the two transitions and behind the *)
(* status of the payment intent.                                           *)
THEOREM CompletedMeansMoved == BillingSpec => []CompletedIsMoved
<1>1. ASSUME TypeInv, \A c \in Calls : TransactionFits(c) PROVE CompletedIsMoved
  <2> SUFFICES ASSUME NEW c \in Calls
               PROVE  /\ tx[c].state = "COMPLETED" => Moved(c) /\ tx[c].status = "COMPLETED"
                      /\ Moved(c) /\ call[c].kind = "deposit" => intent[c] = "succeeded"
    BY DEF CompletedIsMoved
  <2>1. call[c].at \in Points
    BY <1>1 DEF TypeInv, BillingTypeOK, CallRecord, Points
  <2>2. TransactionFits(c) /\ (call[c].at # "idle" => PointFits(call[c].at, call[c].kind))
    BY <1>1 DEF TypeInv, CallsFit
  <2> QED
    BY <2>1, <2>2 DEF TransactionFits, StateFits, PaymentFits, Pays, Moved, Points, BeforeMove,
                      AfterMove, NoTransaction, PointFits
<1> QED
  BY <1>1, TypeInvariance, TransactionInvariance, PTL

(* What a deposit or a withdrawal answers is the end of it: COMPLETED, or  *)
(* a deposit that waits for a payment that had not been made.              *)
THEOREM AnswersAreSettled == BillingSpec => []AnsweredIsSettled
<1>1. ASSUME TypeInv, \A c \in Calls : TransactionFits(c) PROVE AnsweredIsSettled
  BY <1>1 DEF TypeInv, CallsFit, TransactionFits, StateFits, PaymentFits, AnswerFits, Pays,
              Moved, AfterMove, AnsweredIsSettled, PointFits
<1> QED
  BY <1>1, TypeInvariance, TransactionInvariance, PTL
-----------------------------------------------------------------------------
(* Subscriptions. A call that is about to write CANCELED has canceled at   *)
(* Stripe, where a cancellation is final.                                  *)
SaveFits ==
    \A c \in Calls : call[c].at = "save" /\ call[c].atOnce =>
        Ended(call[c].from)

PlanInv == CanceledAtStripe /\ SaveFits

LEMMA PlanInit == BillingInit => PlanInv
BY DEF BillingInit, PlanInv, CanceledAtStripe, SaveFits, Idle

(* Only CancelAtStripe leads to the point where the row is written.        *)
PlansKept(c) ==
    /\ plan' = plan /\ stripePlan' = stripePlan
    /\ call'[c].at = "save" => call[c].at = "save"

LEMMA WhoWritesPlans ==
    ASSUME TypeInv, NEW c \in Calls, CallStep(c) \/ FailDatabase(c) \/ LoseCall(c)
    PROVE  PlansKept(c) \/ CancelAtStripe(c) \/ SavePlan(c)
<1>a. call \in [Calls -> CallRecord] /\ call[c] \in CallRecord
  BY DEF TypeInv, BillingTypeOK
<1>b. /\ \A p \in Points : GoTo(c, p) => call'[c].at = p
      /\ \A p \in Points : \A n : GoToSeeing(c, p, n) => call'[c].at = p
      /\ Return(c) \/ Throw(c) => call'[c].at = call[c].at
      /\ call' = [call EXCEPT ![c].end = "lost"] => call'[c].at = call[c].at
      /\ call' = [call EXCEPT ![c].at = "moved", ![c].end = "returned"] =>
             call'[c].at = "moved"
      /\ \A b : call' = [call EXCEPT ![c].at = "attach", ![c].paid = b] =>
             call'[c].at = "attach"
  BY <1>a DEF GoTo, GoToSeeing, Return, Throw, CallRecord
<1> USE <1>b DEF PlansKept, At, Points, BeforeMove, AfterMove, tables, planVars
<1>1. ASSUME FindUser(c) PROVE PlansKept(c)
  BY <1>1 DEF FindUser, UserFound
<1>2. ASSUME CreateUser(c) PROVE PlansKept(c)
  BY <1>2 DEF CreateUser, UserFound
<1>3. ASSUME CreateTransaction(c) PROVE PlansKept(c)
  BY <1>3 DEF CreateTransaction
<1>4. ASSUME CheckProcessing(c) PROVE PlansKept(c)
  BY <1>4 DEF CheckProcessing, CheckTransition
<1>5. ASSUME SetProcessing(c) PROVE PlansKept(c)
  BY <1>5 DEF SetProcessing
<1>6. ASSUME Charge(c) PROVE PlansKept(c)
  BY <1>6 DEF Charge
<1>7. ASSUME AttachIntent(c) PROVE PlansKept(c)
  BY <1>7 DEF AttachIntent
<1>8. ASSUME UpdateBalance(c) PROVE PlansKept(c)
  BY <1>8 DEF UpdateBalance
<1>9. ASSUME CheckCompleted(c) PROVE PlansKept(c)
  BY <1>9 DEF CheckCompleted, CheckTransition
<1>10. ASSUME SetCompleted(c) PROVE PlansKept(c)
  BY <1>10 DEF SetCompleted
<1>11. ASSUME Answer(c) PROVE PlansKept(c)
  BY <1>11 DEF Answer
<1>12. ASSUME FindOwner(c) PROVE PlansKept(c)
  BY <1>12 DEF FindOwner
<1>13. ASSUME InsertAccount(c) PROVE PlansKept(c)
  BY <1>13 DEF InsertAccount
<1>14. ASSUME TopUp(c) PROVE PlansKept(c)
  BY <1>14 DEF TopUp
<1>15. ASSUME ReadForClose(c) PROVE PlansKept(c)
  BY <1>15 DEF ReadForClose
<1>16. ASSUME WriteStatus(c) PROVE PlansKept(c)
  BY <1>16 DEF WriteStatus
<1>17. ASSUME ReadSource(c) PROVE PlansKept(c)
  BY <1>17 DEF ReadSource
<1>18. ASSUME ReadTarget(c) PROVE PlansKept(c)
  BY <1>18 DEF ReadTarget
<1>19. ASSUME Transfer(c) PROVE PlansKept(c)
  BY <1>19 DEF Transfer
<1>20. ASSUME CountInvoices(c) PROVE PlansKept(c)
  BY <1>20 DEF CountInvoices
<1>21. ASSUME InsertInvoice(c) PROVE PlansKept(c)
  BY <1>21 DEF InsertInvoice
<1>22. ASSUME LoadPlan(c) PROVE PlansKept(c)
  BY <1>22 DEF LoadPlan
<1>23. ASSUME FailDatabase(c) PROVE PlansKept(c)
  BY <1>23 DEF FailDatabase
<1>24. ASSUME LoseCall(c) PROVE PlansKept(c)
  BY <1>24 DEF LoseCall
<1> QED
  BY <1>1, <1>2, <1>3, <1>4, <1>5, <1>6, <1>7, <1>8, <1>9, <1>10, <1>11, <1>12, <1>13, <1>14, <1>15, <1>16, <1>17, <1>18, <1>19, <1>20, <1>21, <1>22, <1>23, <1>24 DEF CallStep, WalletStep,
     AccountStep, InvoiceStep, PlanStep

LEMMA HandlerKeepsPlans ==
    ASSUME TypeInv, PlanInv, NEW c \in Calls, CallStep(c) \/ FailDatabase(c) \/ LoseCall(c)
    PROVE  PlanInv'
<1>0. /\ plan \in [Users -> {"ACTIVE", "CANCELED"}]
      /\ stripePlan \in [Users -> {"none", "active", "ending", "canceled"}]
      /\ call \in [Calls -> CallRecord]
  BY DEF TypeInv, BillingTypeOK
<1>1. Proceeds(c)
  BY CallProceeds
<1>2. CASE PlansKept(c)
  BY <1>1, <1>2 DEF PlansKept, Proceeds, PlanInv, CanceledAtStripe, SaveFits, Ended
<1>3. CASE CancelAtStripe(c)
  <2>1. call[c].at = "stripe" /\ plan' = plan
    BY <1>3 DEF CancelAtStripe, At
  <2>2. call[c].from \in Users /\ UserOf(c) = call[c].from
    BY <2>1 DEF TypeInv, CallsFit, PointFits, PartiesFit, UserOf
  <2>3. \A u \in Users : Ended(u) => Ended(u)'
    BY <1>0, <1>3 DEF CancelAtStripe, Ended
  <2>4. call'[c].at = "save" /\ call[c].atOnce => stripePlan'[call[c].from] \in {"none", "canceled"}
    BY <1>0, <1>3, <2>1, <2>2 DEF CancelAtStripe, Throw, CallRecord
  <2>5. \A d \in Calls : call[d].at = "save" => call[d].from \in Users
    BY DEF TypeInv, CallsFit, PointFits, PartiesFit
  <2> QED
    BY <1>1, <2>1, <2>3, <2>4, <2>5 DEF Proceeds, PlanInv, CanceledAtStripe, SaveFits, Ended
<1>4. CASE SavePlan(c)
  <2>1. call[c].at = "save" /\ stripePlan' = stripePlan
    BY <1>4 DEF SavePlan, At
  <2>2. call[c].from \in Users /\ UserOf(c) = call[c].from
    BY <2>1 DEF TypeInv, CallsFit, PointFits, PartiesFit, UserOf
  <2>3. \A u \in Users : plan'[u] = "CANCELED" =>
            plan[u] = "CANCELED" \/ (u = call[c].from /\ call[c].atOnce)
    BY <1>0, <1>4, <2>2 DEF SavePlan
  <2> QED
    BY <1>1, <2>1, <2>3 DEF Proceeds, PlanInv, CanceledAtStripe, SaveFits, Ended
<1> QED
  BY <1>2, <1>3, <1>4, WhoWritesPlans

LEMMA PlanInvStep == TypeInv /\ PlanInv /\ [BillingNext]_bvars => PlanInv'
<1> SUFFICES ASSUME TypeInv, PlanInv, [BillingNext]_bvars
             PROVE  PlanInv'
  OBVIOUS
<1>1. ASSUME NEW c \in Calls, StartCall(c) PROVE PlanInv'
  <2>1. Starts(c) /\ plan' = plan /\ stripePlan' = stripePlan
    BY <1>1, CallStarts DEF Starts, tables, planVars
  <2> QED
    BY <2>1 DEF Starts, PlanInv, CanceledAtStripe, SaveFits, Ended
<1>2. ASSUME NEW c \in Calls, CallStep(c) \/ FailDatabase(c) \/ LoseCall(c)
      PROVE  PlanInv'
  BY <1>2, HandlerKeepsPlans
<1>3. ASSUME NEW u \in Users, StripeEnds(u) PROVE PlanInv'
  <2>1. /\ stripePlan \in [Users -> {"none", "active", "ending", "canceled"}]
        /\ \A d \in Calls : call[d].at = "save" => call[d].from \in Users
    BY DEF TypeInv, BillingTypeOK, CallsFit, PointFits, PartiesFit
  <2> QED
    BY <1>3, <2>1 DEF StripeEnds, PlanInv, CanceledAtStripe, SaveFits, Ended
<1>4. ASSUME UNCHANGED <<plan, stripePlan, call>> PROVE PlanInv'
  BY <1>4 DEF PlanInv, CanceledAtStripe, SaveFits, Ended
<1>5. ASSUME (\E c \in Calls : SettleIntent(c)) \/ UNCHANGED bvars PROVE PlanInv'
  BY <1>4, <1>5 DEF SettleIntent, bvars, tables, planVars
<1> QED
  BY <1>1, <1>2, <1>3, <1>5 DEF BillingNext

(* No subscription is CANCELED in its row and goes on at Stripe, however   *)
(* many cancellations of either kind run at once and wherever they fail:   *)
(* CancelSubscriptionHandler cancels at Stripe before it writes, and what  *)
(* is canceled there stays so.                                             *)
THEOREM CanceledIsCanceled == BillingSpec => []CanceledAtStripe
BY PlanInit, PlanInvStep, TypeInvariance, PTL DEF BillingSpec, PlanInv
-----------------------------------------------------------------------------
(***************************************************************************)
(* The invoices of a month have the numbers 1, 2, 3 ... without a gap. The *)
(* count that a call has read may be out of date, but then it is too small *)
(* and the number after it is in use: the insert fails, and fails again    *)
(* for as long as it is late.                                              *)
(***************************************************************************)

Size == Cardinality(Numbered)

(* A count that is read is never above the present one.                    *)
CountFits(c) == call[c].at = "insert" => call[c].seen <= Size

(* Each call inserts once.                                                 *)
InsertsOnce(c) == Running(c) \/ call[c].at = "idle" => invoice[c] = 0

InvoiceInv ==
    /\ NumbersHaveNoGap
    /\ \A c \in Calls : CountFits(c) /\ InsertsOnce(c)

LEMMA NumberedIsFinite ==
    ASSUME TypeInv
    PROVE  /\ IsFiniteSet(Numbered) /\ Size \in Nat
           /\ Numbered \subseteq Calls
           /\ TypeInv' => IsFiniteSet(Numbered') /\ Size' \in Nat
<1>1. IsFiniteSet(Numbered) /\ IsFiniteSet(Numbered') /\ Numbered \subseteq Calls
  BY BillingAssumption, FS_Subset DEF Numbered
<1> QED
  BY <1>1, FS_CardinalityType DEF Size

LEMMA InvoiceInit == BillingInit => InvoiceInv
<1> SUFFICES ASSUME BillingInit PROVE InvoiceInv
  OBVIOUS
<1>1. Numbered = {} /\ \A c \in Calls : invoice[c] = 0 /\ call[c].at = "idle"
  BY DEF BillingInit, Numbered, Idle
<1>2. Cardinality(Numbered) = 0
  BY <1>1, FS_EmptySet
<1>3. 1 .. 0 = {}
  OBVIOUS
<1> QED
  BY <1>1, <1>2, <1>3 DEF InvoiceInv, NumbersHaveNoGap, CountFits, InsertsOnce

(* Steps that leave the invoices alone: call c does not start to run       *)
(* again, and comes to its insert only with the present count.             *)
InvoicesKept(c) ==
    /\ invoice' = invoice
    /\ call'[c].at # "idle"
    /\ call'[c].end = "running" => call[c].end = "running"
    /\ call'[c].at = "insert" =>
           \/ call[c].at = "insert" /\ call'[c].seen = call[c].seen
           \/ call'[c].seen = Size

LEMMA KeptKeeps ==
    ASSUME TypeInv, InvoiceInv, NEW c \in Calls, Proceeds(c), InvoicesKept(c)
    PROVE  InvoiceInv'
<1>1. Numbered' = Numbered /\ Size' = Size
  BY DEF InvoicesKept, Numbered, Size
<1>2. NumbersHaveNoGap'
  BY <1>1 DEF InvoiceInv, NumbersHaveNoGap, InvoicesKept
<1>3. ASSUME NEW d \in Calls PROVE CountFits(d)'
  BY <1>1, NumberedIsFinite DEF InvoiceInv, CountFits, InvoicesKept, Proceeds
<1>4. ASSUME NEW d \in Calls PROVE InsertsOnce(d)'
  BY DEF InvoiceInv, InsertsOnce, InvoicesKept, Proceeds, Running
<1> QED
  BY <1>2, <1>3, <1>4 DEF InvoiceInv
-----------------------------------------------------------------------------
(* An insert that succeeds has the number after the last one.              *)
LEMMA InsertKeeps ==
    ASSUME TypeInv, InvoiceInv, NEW c \in Calls, InsertInvoice(c), ~Throw(c)
    PROVE  InvoiceInv'
<1>1. /\ invoice \in [Calls -> Nat] /\ call \in [Calls -> CallRecord]
      /\ call[c].at = "insert" /\ call[c].end = "running"
      /\ invoice' = [invoice EXCEPT ![c] = call[c].seen + 1]
      /\ call[c].seen + 1 \notin {invoice[d] : d \in Calls}
      /\ Return(c)
  BY DEF TypeInv, BillingTypeOK, InsertInvoice, At
<1>2. call[c].seen \in Nat /\ call[c].seen <= Size /\ Size \in Nat /\ invoice[c] = 0
  BY <1>1, NumberedIsFinite
     DEF InvoiceInv, CountFits, InsertsOnce, Running, TypeInv, CallsFit
<1>3. {invoice[d] : d \in Numbered} = 1 .. Size
  BY DEF InvoiceInv, NumbersHaveNoGap, Size
<1>4. call[c].seen = Size
  <2> SUFFICES ASSUME call[c].seen < Size PROVE FALSE
    BY <1>2
  <2>1. call[c].seen + 1 \in 1 .. Size
    BY <1>2
  <2> QED
    BY <1>1, <1>3, <2>1 DEF Numbered
<1>5. Numbered' = Numbered \cup {c} /\ c \notin Numbered
  BY <1>1, <1>2 DEF Numbered
<1>6. Size' = Size + 1
  BY <1>5, NumberedIsFinite, FS_AddElement DEF Size
<1>7. {invoice'[d] : d \in Numbered'} = {invoice[d] : d \in Numbered} \cup {Size + 1}
  BY <1>1, <1>4, <1>5, NumberedIsFinite
<1>8. 1 .. (Size + 1) = (1 .. Size) \cup {Size + 1}
  BY <1>2
<1>9. \A d, e \in Numbered' : invoice'[d] = invoice'[e] => d = e
  <2>1. \A d \in Numbered : invoice'[d] = invoice[d] /\ invoice[d] # Size + 1
    BY <1>1, <1>4, <1>5, NumberedIsFinite
  <2>2. invoice'[c] = Size + 1
    BY <1>1, <1>4
  <2>3. \A d, e \in Numbered : invoice[d] = invoice[e] => d = e
    BY DEF InvoiceInv, NumbersHaveNoGap
  <2> QED
    BY <1>5, <2>1, <2>2, <2>3
<1>10. NumbersHaveNoGap'
  BY <1>3, <1>6, <1>7, <1>8, <1>9 DEF NumbersHaveNoGap, Size
<1>11. /\ call'[c].end = "returned" /\ call'[c].at = "insert" /\ call'[c].seen = call[c].seen
       /\ \A d \in Calls : d # c => call'[d] = call[d]
  BY <1>1, CallChanges DEF Changed
<1>12. ASSUME NEW d \in Calls PROVE CountFits(d)'
  <2>1. call'[d].at = "insert" => call[d].at = "insert" /\ call'[d].seen = call[d].seen
    BY <1>1, <1>11
  <2>2. call[d].at = "insert" => call[d].seen \in Nat /\ call[d].seen <= Size
    BY DEF InvoiceInv, CountFits, TypeInv, CallsFit
  <2> QED
    BY <1>2, <1>6, <2>1, <2>2 DEF CountFits
<1>13. ASSUME NEW d \in Calls PROVE InsertsOnce(d)'
  BY <1>1, <1>11 DEF InvoiceInv, InsertsOnce, Running
<1> QED
  BY <1>10, <1>12, <1>13 DEF InvoiceInv
-----------------------------------------------------------------------------
(* Every other step leaves the invoices alone.                             *)
LEMMA WhoInserts ==
    ASSUME TypeInv, NEW c \in Calls, CallStep(c) \/ FailDatabase(c) \/ LoseCall(c)
    PROVE  InvoicesKept(c) \/ (InsertInvoice(c) /\ ~Throw(c))
<1>a. call \in [Calls -> CallRecord] /\ call[c] \in CallRecord
  BY DEF TypeInv, BillingTypeOK
<1>b. ASSUME NEW p \in Points, GoTo(c, p)
      PROVE  call'[c].at = p /\ call'[c].seen = call[c].seen /\ call'[c].end = call[c].end
  <2>1. Changed(c, p, call[c].seen, call[c].paid, call[c].end)
    BY <1>a, <1>b, CallChanges
  <2> QED
    BY <2>1 DEF Changed
<1>c. ASSUME NEW p, NEW n, GoToSeeing(c, p, n)
      PROVE  call'[c].at = p /\ call'[c].seen = n /\ call'[c].end = call[c].end
  BY <1>a, <1>c DEF GoToSeeing, CallRecord
<1>d. ASSUME Return(c) \/ Throw(c) \/ call' = [call EXCEPT ![c].end = "lost"]
      PROVE  /\ call'[c].at = call[c].at /\ call'[c].seen = call[c].seen
             /\ call'[c].end # "running"
  BY <1>a, <1>d, CallChanges DEF Changed
<1>e. ASSUME call' = [call EXCEPT ![c].at = "moved", ![c].end = "returned"]
      PROVE  call'[c].at = "moved" /\ call'[c].end = "returned"
  BY <1>a, <1>e, CallChanges DEF Changed
<1>f. ASSUME NEW b \in BOOLEAN, call' = [call EXCEPT ![c].at = "attach", ![c].paid = b]
      PROVE  call'[c].at = "attach" /\ call'[c].end = call[c].end
  BY <1>a, <1>f, CallChanges DEF Changed
<1> USE <1>b, <1>c, <1>d DEF InvoicesKept, At, Running, Points, BeforeMove, AfterMove, tables
<1>1. ASSUME FindUser(c) PROVE InvoicesKept(c)
  BY <1>1 DEF FindUser, UserFound
<1>2. ASSUME CreateUser(c) PROVE InvoicesKept(c)
  BY <1>2 DEF CreateUser, UserFound
<1>3. ASSUME CreateTransaction(c) PROVE InvoicesKept(c)
  BY <1>3 DEF CreateTransaction
<1>4. ASSUME CheckProcessing(c) PROVE InvoicesKept(c)
  BY <1>4 DEF CheckProcessing, CheckTransition
<1>5. ASSUME SetProcessing(c) PROVE InvoicesKept(c)
  BY <1>5 DEF SetProcessing
<1>6. ASSUME Charge(c) PROVE InvoicesKept(c)
  BY <1>f, <1>6 DEF Charge
<1>7. ASSUME AttachIntent(c) PROVE InvoicesKept(c)
  BY <1>7 DEF AttachIntent
<1>8. ASSUME UpdateBalance(c) PROVE InvoicesKept(c)
  BY <1>8 DEF UpdateBalance
<1>9. ASSUME CheckCompleted(c) PROVE InvoicesKept(c)
  BY <1>9 DEF CheckCompleted, CheckTransition
<1>10. ASSUME SetCompleted(c) PROVE InvoicesKept(c)
  BY <1>10 DEF SetCompleted
<1>11. ASSUME Answer(c) PROVE InvoicesKept(c)
  BY <1>11 DEF Answer
<1>12. ASSUME FindOwner(c) PROVE InvoicesKept(c)
  BY <1>12 DEF FindOwner
<1>13. ASSUME InsertAccount(c) PROVE InvoicesKept(c)
  BY <1>13 DEF InsertAccount
<1>14. ASSUME TopUp(c) PROVE InvoicesKept(c)
  BY <1>e, <1>14 DEF TopUp
<1>15. ASSUME ReadForClose(c) PROVE InvoicesKept(c)
  BY <1>15 DEF ReadForClose
<1>16. ASSUME WriteStatus(c) PROVE InvoicesKept(c)
  BY <1>16 DEF WriteStatus
<1>17. ASSUME ReadSource(c) PROVE InvoicesKept(c)
  BY <1>17 DEF ReadSource
<1>18. ASSUME ReadTarget(c) PROVE InvoicesKept(c)
  BY <1>18 DEF ReadTarget
<1>19. ASSUME Transfer(c) PROVE InvoicesKept(c)
  BY <1>e, <1>19 DEF Transfer
<1>20. ASSUME CountInvoices(c) PROVE InvoicesKept(c)
  BY <1>20 DEF CountInvoices, Size
<1>21. ASSUME LoadPlan(c) PROVE InvoicesKept(c)
  BY <1>21 DEF LoadPlan
<1>22. ASSUME CancelAtStripe(c) PROVE InvoicesKept(c)
  BY <1>22 DEF CancelAtStripe
<1>23. ASSUME SavePlan(c) PROVE InvoicesKept(c)
  BY <1>23 DEF SavePlan
<1>24. ASSUME FailDatabase(c) PROVE InvoicesKept(c)
  BY <1>24 DEF FailDatabase
<1>25. ASSUME LoseCall(c) PROVE InvoicesKept(c)
  BY <1>25 DEF LoseCall
<1>26. ASSUME InsertInvoice(c) PROVE InvoicesKept(c) \/ ~Throw(c)
  BY <1>26, <1>a DEF InsertInvoice, Throw, Return, CallRecord
<1> QED
  BY <1>1, <1>2, <1>3, <1>4, <1>5, <1>6, <1>7, <1>8, <1>9, <1>10, <1>11, <1>12, <1>13, <1>14, <1>15, <1>16, <1>17, <1>18, <1>19, <1>20, <1>21, <1>22, <1>23, <1>24, <1>25, <1>26 DEF CallStep, WalletStep,
     AccountStep, InvoiceStep, PlanStep

LEMMA InvoiceInvStep == TypeInv /\ InvoiceInv /\ [BillingNext]_bvars => InvoiceInv'
<1> SUFFICES ASSUME TypeInv, InvoiceInv, [BillingNext]_bvars
             PROVE  InvoiceInv'
  OBVIOUS
<1>1. ASSUME invoice' = invoice PROVE Numbered' = Numbered /\ Size' = Size
  BY <1>1 DEF Numbered, Size
<1>2. ASSUME NEW c \in Calls, StartCall(c) PROVE InvoiceInv'
  <2>1. Starts(c) /\ invoice' = invoice
    BY <1>2, CallStarts DEF Starts, tables
  <2>2. NumbersHaveNoGap'
    BY <1>1, <2>1 DEF InvoiceInv, NumbersHaveNoGap
  <2>3. ASSUME NEW d \in Calls PROVE CountFits(d)'
    BY <1>1, <2>1 DEF Starts, InvoiceInv, CountFits
  <2>4. ASSUME NEW d \in Calls PROVE InsertsOnce(d)'
    BY <2>1 DEF Starts, InvoiceInv, InsertsOnce, Running
  <2> QED
    BY <2>2, <2>3, <2>4 DEF InvoiceInv
<1>3. ASSUME NEW c \in Calls, CallStep(c) \/ FailDatabase(c) \/ LoseCall(c)
      PROVE  InvoiceInv'
  BY <1>3, CallProceeds, WhoInserts, KeptKeeps, InsertKeeps
<1>4. ASSUME UNCHANGED <<invoice, call>> PROVE InvoiceInv'
  <2>1. NumbersHaveNoGap'
    BY <1>1, <1>4 DEF InvoiceInv, NumbersHaveNoGap
  <2> QED
    BY <1>1, <1>4, <2>1 DEF InvoiceInv, CountFits, InsertsOnce, Running
<1>5. ASSUME (\E c \in Calls : SettleIntent(c)) \/ (\E u \in Users : StripeEnds(u))
             \/ UNCHANGED bvars
      PROVE  UNCHANGED <<invoice, call>>
  BY <1>5 DEF SettleIntent, StripeEnds, bvars, tables
<1> QED
  BY <1>2, <1>3, <1>4, <1>5 DEF BillingNext

(* The invoice numbers of a month have no gap and no repetition, for any   *)
(* number of messages at once and any failures: generateInvoiceNumber's    *)
(* count can only be too small, and the unique index refuses what follows. *)
THEOREM InvoicesAreNumbered == BillingSpec => []NumbersHaveNoGap
BY InvoiceInit, InvoiceInvStep, TypeInvariance, PTL DEF BillingSpec, InvoiceInv
=============================================================================
