------------------------- MODULE PaymentIntentsProofs -------------------------
(***************************************************************************)
(* Proofs about PaymentIntents, for any intents and any number of handlers *)
(* of the webhook.                                                         *)
(*                                                                         *)
(* PaidForReal speaks of the intents; it is not inductive alone, for a     *)
(* handler may hold a status it read long ago.  The invariant adds what    *)
(* such a handler knows: the invoice exists, and if it is about to settle  *)
(* the intent then BTCPay has accepted the payment, which is for good.     *)
(***************************************************************************)
EXTENDS PaymentIntents, TLAPS

HooksKnow ==
    \A h \in Hooks :
        \/ hook[h] = Idle
        \/ \E i \in Intents : /\ hook[h].intent = i
                              /\ invoice[i] # "none"
                              /\ Paid(hook[h].new) => Accepted(i)

PaymentInv ==
    /\ PaymentTypeOK
    /\ PaidForReal
    /\ HooksKnow
    /\ \A i \in Intents : invoice[i] = "none" => status[i] = "created"

\* Acceptance of a payment is for good: no move of an invoice takes it back.
LEMMA AcceptedIsFinal ==
    ASSUME PaymentTypeOK, [Next]_vars, NEW i \in Intents, Accepted(i)
    PROVE  Accepted(i)'
<1>1. CASE \E j \in Intents : CreateInvoice(j)
  BY <1>1 DEF PaymentTypeOK, CreateInvoice, Accepted
<1>2. CASE \E j \in Intents, s \in InvoiceStatuses : InvoiceMoves(j, s)
  BY <1>2 DEF PaymentTypeOK, InvoiceMoves, Accepted
<1>3. CASE invoice' = invoice
  BY <1>3 DEF Accepted
<1> QED
  BY <1>1, <1>2, <1>3
     DEF Next, vars, HookReads, HookApplies, HookDrops, Fulfill, FulfillLater

\* An invoice that exists never ceases to.
LEMMA InvoiceStays ==
    ASSUME PaymentTypeOK, [Next]_vars, NEW i \in Intents, invoice[i] # "none"
    PROVE  invoice'[i] # "none"
<1>1. CASE \E j \in Intents : CreateInvoice(j)
  BY <1>1 DEF PaymentTypeOK, CreateInvoice
<1>2. CASE \E j \in Intents, s \in InvoiceStatuses : InvoiceMoves(j, s)
  BY <1>2 DEF PaymentTypeOK, InvoiceMoves
<1>3. CASE invoice' = invoice
  BY <1>3
<1> QED
  BY <1>1, <1>2, <1>3
     DEF Next, vars, HookReads, HookApplies, HookDrops, Fulfill, FulfillLater

\* What a handler reads settles an intent only if its payment is accepted.
LEMMA ReadStatus ==
    ASSUME PaymentTypeOK, NEW i \in Intents
    PROVE  /\ NewStatus(i) \in Statuses
           /\ Paid(NewStatus(i)) => Accepted(i)
  BY DEF PaymentTypeOK, NewStatus, Statuses, InvoiceStatuses, Paid, Accepted

LEMMA TypeStep == ASSUME PaymentInv, [Next]_vars PROVE PaymentTypeOK'
<1> USE DEF PaymentInv, PaymentTypeOK
<1>1. ASSUME NEW i \in Intents, CreateInvoice(i) PROVE PaymentTypeOK'
  BY <1>1 DEF CreateInvoice, Statuses, InvoiceStatuses
<1>2. ASSUME NEW i \in Intents, NEW s \in InvoiceStatuses, InvoiceMoves(i, s)
      PROVE  PaymentTypeOK'
  BY <1>2 DEF InvoiceMoves
<1>3. ASSUME NEW h \in Hooks, NEW i \in Intents, HookReads(h, i) PROVE PaymentTypeOK'
  BY <1>3, ReadStatus DEF HookReads
<1>4. ASSUME NEW h \in Hooks, HookApplies(h) PROVE PaymentTypeOK'
  BY <1>4 DEF HookApplies, Idle, Statuses
<1>5. ASSUME NEW h \in Hooks, HookDrops(h) PROVE PaymentTypeOK'
  BY <1>5 DEF HookDrops, Idle, Statuses
<1>6. ASSUME NEW i \in Intents, Fulfill(i) PROVE PaymentTypeOK'
  BY <1>6 DEF Fulfill, Statuses
<1>7. ASSUME NEW i \in Intents, FulfillLater(i) PROVE PaymentTypeOK'
  BY <1>7 DEF FulfillLater
<1>8. CASE UNCHANGED vars
  BY <1>8 DEF vars
<1> QED
  BY <1>1, <1>2, <1>3, <1>4, <1>5, <1>6, <1>7, <1>8 DEF Next

LEMMA PaymentStep == PaymentInv /\ [Next]_vars => PaymentInv'
<1> SUFFICES ASSUME PaymentInv, [Next]_vars PROVE PaymentInv'
  OBVIOUS
<1>1. PaymentTypeOK /\ PaymentTypeOK'
  BY TypeStep DEF PaymentInv
<1>2. ASSUME NEW i \in Intents, Accepted(i) PROVE Accepted(i)'
  BY <1>1, <1>2, AcceptedIsFinal
<1>3. ASSUME NEW i \in Intents, invoice[i] # "none" PROVE invoice'[i] # "none"
  BY <1>1, <1>3, InvoiceStays
<1>4. PaidForReal'
  <2> SUFFICES ASSUME NEW i \in Intents,
                      Paid(status[i])' \/ fulfilled'[i] \/ owed'[i]
               PROVE  Accepted(i) \/ Accepted(i)'
    BY <1>2 DEF PaidForReal
  <2>1. CASE Paid(status[i]) \/ fulfilled[i] \/ owed[i]
    BY <2>1 DEF PaymentInv, PaidForReal
  <2>2. ASSUME NEW h \in Hooks, HookApplies(h), hook[h].intent = i, Paid(hook[h].new)
        PROVE  Accepted(i)
    BY <2>2 DEF PaymentInv, HooksKnow, HookApplies
  <2>3. ASSUME NEW h \in Hooks, HookApplies(h),
               ~ (hook[h].intent = i /\ Paid(hook[h].new))
        PROVE  Paid(status[i]) \/ fulfilled[i] \/ owed[i]
    BY <2>3, <1>1 DEF PaymentTypeOK, HookApplies
  <2>4. ASSUME NEW j \in Intents, Fulfill(j) \/ FulfillLater(j)
        PROVE  Paid(status[i]) \/ fulfilled[i] \/ owed[i]
    BY <2>4, <1>1 DEF PaymentTypeOK, Fulfill, FulfillLater, Payable, Paid
  <2>5. ASSUME NEW j \in Intents, CreateInvoice(j)
        PROVE  Paid(status[i]) \/ fulfilled[i] \/ owed[i]
    BY <2>5, <1>1 DEF PaymentTypeOK, CreateInvoice, Paid
  <2>6. CASE UNCHANGED <<status, fulfilled, owed>>
    BY <2>1, <2>6 DEF Paid
  <2> QED
    BY <2>1, <2>2, <2>3, <2>4, <2>5, <2>6
       DEF Next, vars, InvoiceMoves, HookReads, HookDrops
<1>5. HooksKnow'
  <2> DEFINE Knows(i, n) == invoice'[i] # "none" /\ (Paid(n) => Accepted(i)')
  <2> SUFFICES ASSUME NEW h \in Hooks, hook'[h] # Idle
               PROVE  \E i \in Intents : hook'[h].intent = i /\ Knows(i, hook'[h].new)
    BY DEF HooksKnow, Idle, Paid
  <2>1. CASE hook'[h] = hook[h]
    <3>1. PICK i \in Intents : /\ hook[h].intent = i
                               /\ invoice[i] # "none"
                               /\ Paid(hook[h].new) => Accepted(i)
      BY <2>1 DEF PaymentInv, HooksKnow
    <3> QED
      BY <2>1, <3>1, <1>2, <1>3
  <2>2. ASSUME NEW i \in Intents, HookReads(h, i)
        PROVE  hook'[h].intent = i /\ Knows(i, hook'[h].new)
    <3>1. invoice[i] # "none" /\ hook'[h].intent = i /\ hook'[h].new = NewStatus(i)
      BY <2>2, <1>1 DEF HookReads, PaymentTypeOK
    <3>2. Paid(hook'[h].new) => Accepted(i)
      BY <3>1, <1>1, ReadStatus DEF Paid
    <3> QED
      BY <3>1, <3>2, <1>2, <1>3
  <2>3. hook'[h] = hook[h] \/ \E i \in Intents : HookReads(h, i)
    BY <1>1 DEF PaymentTypeOK, Next, vars, CreateInvoice, InvoiceMoves, HookReads,
                HookApplies, HookDrops, Fulfill, FulfillLater
  <2> QED
    BY <2>1, <2>2, <2>3
<1>6. ASSUME NEW i \in Intents, invoice'[i] = "none" PROVE status'[i] = "created"
  <2>1. invoice[i] = "none" /\ status[i] = "created"
    BY <1>3, <1>6 DEF PaymentInv
  <2>2. ~ Paid(status[i]) /\ ~ fulfilled[i] /\ ~ owed[i]
    BY <2>1 DEF PaymentInv, PaidForReal, Accepted
  <2>3. \A h \in Hooks : HookApplies(h) => hook[h].intent # i
    BY <2>1 DEF PaymentInv, HooksKnow, HookApplies
  <2> QED
    BY <1>1, <1>6, <2>1, <2>2, <2>3
       DEF PaymentTypeOK, Next, vars, CreateInvoice, InvoiceMoves, HookReads,
           HookApplies, HookDrops, Fulfill, FulfillLater, Payable, Paid
<1> QED
  BY <1>1, <1>4, <1>5, <1>6 DEF PaymentInv

\* The invariant of the payments: types, PaidForReal and what handlers know.
THEOREM PaymentInvariant == Spec => []PaymentInv
<1>1. Init => PaymentInv
  BY DEF Init, PaymentInv, PaymentTypeOK, PaidForReal, HooksKnow, Idle, Statuses,
         InvoiceStatuses, Paid
<1> QED
  BY <1>1, PaymentStep, PTL DEF Spec

\* Statuses are those of the model field, and handlers hold such a status.
THEOREM PaymentTypes == Spec => []PaymentTypeOK
  BY PaymentInvariant, PTL DEF PaymentInv

\* FANZ delivers nothing BTCPay has not accepted a payment for.
THEOREM DeliveredIsPaid == Spec => []PaidForReal
  BY PaymentInvariant, PTL DEF PaymentInv

\* No webhook, late or sent again, takes back an accepted payment or revives an
\* invalid one.
THEOREM AcceptanceStays == Spec => AcceptanceIsFinal
<1>1. ASSUME PaymentInv, [Next]_vars, NEW i \in Intents
      PROVE  /\ Paid(status[i]) => Paid(status[i])'
             /\ status[i] = "invalid" => status'[i] = "invalid"
  <2>1. PaymentTypeOK
    BY <1>1 DEF PaymentInv
  <2>2. ASSUME NEW j \in Intents, CreateInvoice(j)
        PROVE  /\ Paid(status[i]) => Paid(status[i])'
               /\ status[i] = "invalid" => status'[i] = "invalid"
    BY <1>1, <2>1, <2>2 DEF PaymentInv, PaymentTypeOK, CreateInvoice, Paid
  <2>3. ASSUME NEW h \in Hooks, HookApplies(h)
        PROVE  /\ Paid(status[i]) => Paid(status[i])'
               /\ status[i] = "invalid" => status'[i] = "invalid"
    BY <2>1, <2>3 DEF PaymentTypeOK, HookApplies, Regresses, LeavesInvalid, Paid
  <2>4. ASSUME NEW j \in Intents, Fulfill(j)
        PROVE  /\ Paid(status[i]) => Paid(status[i])'
               /\ status[i] = "invalid" => status'[i] = "invalid"
    BY <2>1, <2>4 DEF PaymentTypeOK, Fulfill, Payable, Paid
  <2>5. CASE status' = status
    BY <2>5 DEF Paid
  <2> QED
    BY <1>1, <2>2, <2>3, <2>4, <2>5
       DEF Next, vars, InvoiceMoves, HookReads, HookDrops, FulfillLater
<1>2. PaymentInv /\ [Next]_vars =>
        [\A i \in Intents : /\ Paid(status[i]) => Paid(status[i])'
                            /\ status[i] = "invalid" => status'[i] = "invalid"]_vars
  BY <1>1
<1> QED
  BY <1>2, PaymentInvariant, PTL DEF Spec, AcceptanceIsFinal

==============================================================================
