---------------------------- MODULE PaymentIntents ----------------------------
(***************************************************************************)
(* Payments settled by BTCPay: the invoice of a PaymentIntent (btcpay.py), *)
(* the webhook that follows it (views.btcpay_webhook) and the worker that  *)
(* delivers what was paid for (payment_services.py).                       *)
(*                                                                         *)
(* The webhook asks BTCPay for the status of the invoice before it locks   *)
(* the intent, so it applies a status that may be old, and several of them *)
(* run at once: BTCPay sends one per event and sends again what was not    *)
(* acknowledged.  Everything else is one transaction under the row lock of *)
(* the intent, and one action.                                             *)
(*                                                                         *)
(* Left out: payments in SUI, which have no invoice; deliveries that raise *)
(* (Founder purchases: AuctionTasks says when they do).                    *)
(***************************************************************************)
EXTENDS Naturals

CONSTANTS
    Intents,   \* PaymentIntents settled by BTCPay
    ZeroConf,  \* those below BTCPAY_ZERO_CONF_LIMIT_USD: required_btcpay_confirmations = 0
    Deferred,  \* those for an economy asset, delivered by the chain later
    Hooks,     \* handlers of the webhook that may run at the same time
    NoIntent   \* the intent of an idle handler

ASSUME KindsAssumption ==
    ZeroConf \subseteq Intents /\ Deferred \subseteq Intents /\ NoIntent \notin Intents

VARIABLES
    status,     \* PaymentIntent.status
    fulfilled,  \* PaymentIntent.fulfilled_at is set
    owed,       \* its EconomyAssetDelivery has been created
    invoice,    \* the status BTCPay gives the invoice, "none" before it exists
    hook        \* the handlers: the intent and the status each is about to apply

vars == <<status, fulfilled, owed, invoice, hook>>

Statuses == {"created", "invoice_created", "processing", "settled", "expired",
             "invalid", "fulfilled"}
InvoiceStatuses == {"none", "New", "Processing", "Settled", "Expired", "Invalid"}

Idle == [intent |-> NoIntent, new |-> "created"]

PaymentTypeOK ==
    /\ status \in [Intents -> Statuses]
    /\ fulfilled \in [Intents -> BOOLEAN]
    /\ owed \in [Intents -> BOOLEAN]
    /\ invoice \in [Intents -> InvoiceStatuses]
    /\ hook \in [Hooks -> [intent : Intents \cup {NoIntent}, new : Statuses]]

Init ==
    /\ status = [i \in Intents |-> "created"]
    /\ fulfilled = [i \in Intents |-> FALSE]
    /\ owed = [i \in Intents |-> FALSE]
    /\ invoice = [i \in Intents |-> "none"]
    /\ hook = [h \in Hooks |-> Idle]

-----------------------------------------------------------------------------
(* Faulty variants of the operators below.                                 *)

NewStatusUnconfirmed(i) == IF invoice[i] \in {"Processing", "Settled"} THEN "settled"
                           ELSE "expired"
RegressesNothing(i, new) == FALSE
InvalidReopens(i, new) == status[i] = "invalid" /\ new = "invoice_created"

-----------------------------------------------------------------------------
\* create_payment_intent_invoice: BTCPay is asked while the row is locked.
CreateInvoice(i) ==
    /\ invoice[i] = "none"
    /\ invoice' = [invoice EXCEPT ![i] = "New"]
    /\ status' = [status EXCEPT ![i] = "invoice_created"]
    /\ UNCHANGED <<fulfilled, owed, hook>>

\* BTCPay: a payment is seen, confirmed or refused, the invoice runs out; a
\* late payment is accepted, and an operator may settle an invoice by hand.
InvoiceMoves(i, s) ==
    /\ <<invoice[i], s>> \in
          {<<"New", "Processing">>, <<"New", "Settled">>, <<"New", "Expired">>,
           <<"New", "Invalid">>, <<"Processing", "Settled">>,
           <<"Processing", "Invalid">>, <<"Expired", "Processing">>,
           <<"Expired", "Settled">>, <<"Invalid", "Settled">>}
    /\ invoice' = [invoice EXCEPT ![i] = s]
    /\ UNCHANGED <<status, fulfilled, owed, hook>>

-----------------------------------------------------------------------------
(* btcpay_webhook                                                          *)

\* status_map, and 0-conf acceptance of a small payment
NewStatus(i) ==
    CASE invoice[i] = "New"        -> "invoice_created"
      [] invoice[i] = "Processing" -> IF i \in ZeroConf THEN "settled" ELSE "processing"
      [] invoice[i] = "Settled"    -> "settled"
      [] invoice[i] = "Expired"    -> "expired"
      [] OTHER                     -> "invalid"

HookReads(h, i) ==
    /\ hook[h] = Idle
    /\ invoice[i] # "none"
    /\ hook' = [hook EXCEPT ![h] = [intent |-> i, new |-> NewStatus(i)]]
    /\ UNCHANGED <<status, fulfilled, owed, invoice>>

Paid(s) == s \in {"settled", "fulfilled"}

\* "Never regress a payment that FANZ has already accepted"
Regresses(i, new) == Paid(status[i]) /\ ~ Paid(new)

\* "Invalid is treated as terminal unless reconciled manually."
LeavesInvalid(i, new) == status[i] = "invalid" /\ new # "invalid"

HookApplies(h) ==
    LET i == hook[h].intent
        new == hook[h].new
    IN /\ hook[h] # Idle
       /\ hook' = [hook EXCEPT ![h] = Idle]
       /\ status' = IF Regresses(i, new) \/ LeavesInvalid(i, new) THEN status
                    ELSE [status EXCEPT ![i] = new]
       /\ UNCHANGED <<fulfilled, owed, invoice>>

\* BTCPay does not answer, names another rail, or the process dies.
HookDrops(h) ==
    /\ hook[h] # Idle
    /\ hook' = [hook EXCEPT ![h] = Idle]
    /\ UNCHANGED <<status, fulfilled, owed, invoice>>

-----------------------------------------------------------------------------
(* fulfill_payment_intent, for every intent fulfill_settled_payments finds *)

Payable(i) == status[i] = "settled" /\ ~ fulfilled[i]

\* dispatch_payment_fulfillment says whether the payment has been delivered.
Delivers(i) == i \notin Deferred

Fulfill(i) ==
    /\ Payable(i)
    /\ Delivers(i)
    /\ status' = [status EXCEPT ![i] = "fulfilled"]
    /\ fulfilled' = [fulfilled EXCEPT ![i] = TRUE]
    /\ UNCHANGED <<owed, invoice, hook>>

\* An economy asset: get_or_create of its delivery, which "is durable but not
\* yet complete".
FulfillLater(i) ==
    /\ Payable(i)
    /\ ~ Delivers(i)
    /\ owed' = [owed EXCEPT ![i] = TRUE]
    /\ UNCHANGED <<status, fulfilled, invoice, hook>>

Next ==
    \/ \E i \in Intents : CreateInvoice(i)
    \/ \E i \in Intents, s \in InvoiceStatuses : InvoiceMoves(i, s)
    \/ \E h \in Hooks, i \in Intents : HookReads(h, i)
    \/ \E h \in Hooks : HookApplies(h)
    \/ \E h \in Hooks : HookDrops(h)
    \/ \E i \in Intents : Fulfill(i)
    \/ \E i \in Intents : FulfillLater(i)

\* run_auction_tasks.sh runs fulfill_settled_payments every minute, for ever, and
\* no failure of one intent keeps it from the next.  Nothing is assumed of
\* BTCPay or of the webhook.
Worker(i) == Fulfill(i) \/ FulfillLater(i)

Spec == Init /\ [][Next]_vars
FairSpec == Spec /\ \A i \in Intents : WF_vars(Worker(i))

-----------------------------------------------------------------------------
(* Properties.                                                             *)

\* BTCPay has accepted the payment of i: a small one counts when it is seen,
\* though it may still be refused.
Accepted(i) ==
    \/ invoice[i] = "Settled"
    \/ i \in ZeroConf /\ invoice[i] \in {"Processing", "Invalid"}

\* Nothing is delivered that was not paid: whatever the order in which webhooks
\* read the invoice and apply what they read, FANZ takes an intent for settled
\* only if BTCPay has accepted its payment.
PaidForReal == \A i \in Intents : Paid(status[i]) \/ fulfilled[i] \/ owed[i] => Accepted(i)

\* A webhook that is late or sent again undoes nothing: an accepted payment
\* stays accepted, and an invalid one stays invalid ("Invalid is treated as
\* terminal").
AcceptanceIsFinal ==
    [][\A i \in Intents : /\ Paid(status[i]) => Paid(status[i])'
                          /\ status[i] = "invalid" => status'[i] = "invalid"]_vars

\* A settled payment is delivered: it is fulfilled, or its delivery by the chain
\* is recorded, whatever webhooks arrive before the worker does.
SettledIsDelivered ==
    \A i \in Intents :
        status[i] = "settled" ~> IF i \in Deferred THEN owed[i] ELSE fulfilled[i]

\* "Never regress a payment that FANZ has already accepted as settled or
\* fulfilled because an older webhook was redelivered": what has been
\* fulfilled is called so.
FulfilledForGood == \A i \in Intents : fulfilled[i] => status[i] = "fulfilled"

==============================================================================
