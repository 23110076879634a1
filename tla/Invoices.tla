------------------------------ MODULE Invoices ------------------------------
(***************************************************************************)
(* An order.created message: BillingEventController publishes the event    *)
(* and acknowledges in one go, OrderCreatedHandler executes the command,   *)
(* and InvoiceService finds the user (Wallet, FindUser), counts this       *)
(* month's invoices and inserts one with the next number. The handler      *)
(* swallows every error, and the message is not delivered again.           *)
(***************************************************************************)
EXTENDS BillingState

Numbered == {d \in Calls : invoice[d] # 0}

(* generateInvoiceNumber.                                                  *)
CountInvoices(c) ==
    /\ At(c, "count")
    /\ GoToSeeing(c, "insert", Cardinality(Numbered))
    /\ UNCHANGED tables

\* Mutant: invoice numbers without a unique index.
InsertInvoiceWithoutIndex(c) ==
    /\ At(c, "insert")
    /\ invoice' = [invoice EXCEPT ![c] = call[c].seen + 1]
    /\ Return(c)
    /\ UNCHANGED <<rows, balance, account, walletVars, planVars>>

(* invoiceNumber is unique: the insert of a number in use fails.           *)
InsertInvoice(c) ==
    /\ At(c, "insert")
    /\ \/ /\ call[c].seen + 1 \notin {invoice[d] : d \in Calls}
          /\ invoice' = [invoice EXCEPT ![c] = call[c].seen + 1]
          /\ Return(c)
       \/ /\ call[c].seen + 1 \in {invoice[d] : d \in Calls}
          /\ Throw(c)
          /\ UNCHANGED invoice
    /\ UNCHANGED <<rows, balance, account, walletVars, planVars>>

InvoiceStep(c) == CountInvoices(c) \/ InsertInvoice(c)
=============================================================================
