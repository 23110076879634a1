---------------------------- MODULE Subscriptions ----------------------------
(***************************************************************************)
(* CancelSubscriptionHandler: a subscription is canceled at Stripe, at     *)
(* once or at the end of its period, and then in its row.                  *)
(***************************************************************************)
EXTENDS BillingState

(* A subscription that Stripe charges no more.                             *)
Ended(u) == stripePlan[u] \in {"none", "canceled"}

(* The row is read; what it says of the status is not looked at.           *)
LoadPlan(c) ==
    /\ At(c, "load")
    /\ call[c].kind = "cancel"
    /\ GoTo(c, "stripe")
    /\ UNCHANGED tables

\* Mutant: a rejection by Stripe is logged and goes no further.
CancelAtStripeIgnoringErrors(c) ==
    /\ At(c, "stripe")
    /\ \/ /\ stripePlan[UserOf(c)] \in {"active", "ending"}
          /\ stripePlan' = [stripePlan EXCEPT ![UserOf(c)] =
                                IF call[c].atOnce THEN "canceled" ELSE "ending"]
       \/ UNCHANGED stripePlan
    /\ GoTo(c, "save")
    /\ UNCHANGED <<rows, balance, account, walletVars, invoice, plan>>

(* A row without a stripeSubscriptionId is not canceled at Stripe. Stripe  *)
(* refuses a subscription that is canceled already, and may refuse any.    *)
(* Under the fault "stripe" its answer is lost.                            *)
CancelAtStripe(c) ==
    /\ At(c, "stripe")
    /\ \/ /\ stripePlan[UserOf(c)] = "none"
          /\ GoTo(c, "save")
          /\ UNCHANGED stripePlan
       \/ /\ stripePlan[UserOf(c)] \in {"active", "ending"}
          /\ stripePlan' = [stripePlan EXCEPT ![UserOf(c)] =
                                IF call[c].atOnce THEN "canceled" ELSE "ending"]
          /\ \/ GoTo(c, "save")
             \/ "stripe" \in Faults /\ Throw(c)
       \/ /\ stripePlan[UserOf(c)] # "none"
          /\ Throw(c)
          /\ UNCHANGED stripePlan
    /\ UNCHANGED <<rows, balance, account, walletVars, invoice, plan>>

\* Mutant: the row is given the status in Stripe's spelling.
SavePlanAsStripeSpells(c) ==
    /\ At(c, "save")
    /\ plan' = [plan EXCEPT ![UserOf(c)] = stripePlan[UserOf(c)]]
    /\ Return(c)
    /\ UNCHANGED <<rows, balance, account, walletVars, invoice, stripePlan>>

(* The row is overwritten: a cancellation at the period's end says ACTIVE. *)
SavePlan(c) ==
    /\ At(c, "save")
    /\ plan' = [plan EXCEPT ![UserOf(c)] = IF call[c].atOnce THEN "CANCELED" ELSE "ACTIVE"]
    /\ Return(c)
    /\ UNCHANGED <<rows, balance, account, walletVars, invoice, stripePlan>>

(* Stripe ends a subscription itself, when its period ends or its payment  *)
(* fails for good; handleSubscriptionDeleted only logs the webhook.        *)
StripeEnds(u) ==
    /\ stripePlan[u] \in {"active", "ending"}
    /\ stripePlan' = [stripePlan EXCEPT ![u] = "canceled"]
    /\ UNCHANGED <<rows, balance, account, walletVars, invoice, plan, call>>

PlanStep(c) == LoadPlan(c) \/ CancelAtStripe(c) \/ SavePlan(c)
=============================================================================
