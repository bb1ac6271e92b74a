--------------------------- MODULE ExternalPayments ---------------------------
(***************************************************************************)
(* Listings of FANZ-operated sellers paid from outside, in BTC or DOGE by  *)
(* BTCPay or in SUI (p2p_payment_services.py), and packages of credits     *)
(* paid in SUI (sui_quote_services.py, sui_payment_services.py), while the *)
(* market goes on: the same listing may be bought for credits, paid for by *)
(* somebody else or cancelled at any moment.                               *)
(*                                                                         *)
(* Every service is a transaction under the lock of the PaymentIntent that *)
(* keeps it while it asks the Sui service, and is one action.  Between two *)
(* of them time passes, the price of SUI moves and buyers pay.             *)
(*                                                                         *)
(* An amount of SUI is a number.  A transaction on the chain says what it  *)
(* pays to FANZ's address and not what for: an order in SUI is settled     *)
(* with the digest of one, whoever has sent it and whichever other orders  *)
(* cite it.  PaymentIntents has the steps of the BTCPay webhook,           *)
(* AuctionTasks the reservations paid from outside.  Left out: what        *)
(* follows a delivery after its commit (address autofill, coin draft,      *)
(* starter grant), and an order made again after one that ended.           *)
(***************************************************************************)
EXTENDS FounderMarket

CONSTANTS
    Authorized,  \* UserProfile.is_platform_account: sellers who may be paid outside
    Buyers,      \* <<user, rail>>: who pays how for listings, in "btc" or "sui"
    Customers,   \* who buys credits, in SUI
    Quotes,      \* what the Sui service may ask for a listing, in SUI
    Package,     \* credits of a package
    PackageQuotes, \* what the service may ask for it
    MaxPayments  \* bound on the transactions that pay SUI to FANZ

ASSUME ExternalAssumption ==
    /\ Authorized \subseteq Users
    /\ Buyers \subseteq Users \X {"btc", "sui"}
    /\ Quotes \cup PackageQuotes \subseteq Nat \ {0}
    /\ Package \in Nat
    /\ Customers \subseteq Users
    /\ MaxPayments \in Nat

VARIABLES
    order,    \* PaymentIntents
    received  \* what a transaction has paid to FANZ's address

allVars == <<vars, order, received>>

\* An order is <<user, rail, listing>>; listing 0 is a package of credits.
PackageOrders == {<<u, "sui", 0>> : u \in Customers}
ListingOrders == {<<b[1], b[2], l>> : b \in Buyers, l \in ListingIds}
Orders == PackageOrders \cup ListingOrders

\* Transactions, numbered as they are sent
Digests == 1..MaxPayments
NoDigest == 0

OpenStatuses == {"created", "invoice_created", "processing"}

\* quote is sui_required_mist, lapsed says that sui_quote_expires_at has passed,
\* reference is settlement_reference, which many orders may share
NoOrder == [status |-> "none", buyer |-> NoUser, quote |-> 0, lapsed |-> FALSE,
            reference |-> NoDigest]

ExternalInit ==
    /\ Init
    /\ order = [o \in Orders |-> NoOrder]
    /\ received = [d \in Digests |-> 0]

-----------------------------------------------------------------------------
(* Faulty variants of the operators below.                                 *)

PaidAnything(o, d) == received[d] > 0
StaysActive(l) == UNCHANGED listings
PayableGone(o, l) ==
    /\ l \in DOMAIN listings /\ listings[l].seller \in Authorized
    /\ owner[listings[l].asset] = root[listings[l].seller]
    /\ status[listings[l].asset] = "listed"
PayableInCredits(o, l) ==
    Active(l) /\ PayableGone(o, l) /\ CanPay(root[o[1]], listings[l].price)
BuyerPurchased(o) ==
    \E p \in PackageOrders : /\ order[p].status = "fulfilled" /\ p[1] = o[1]
                             /\ order[p].reference = order[o].reference

-----------------------------------------------------------------------------
(* Opening an order, and its quote.                                        *)

Open(o) == order[o].status \in OpenStatuses

\* _validate_external_listing
Payable(o, l) ==
    LET seller == root[listings[l].seller]
    IN /\ Active(l)
       /\ listings[l].lane = "none" /\ listings[l].sale = "fixed"
       /\ root[o[1]] # seller
       /\ seller \in Authorized
       /\ owner[listings[l].asset] = seller
       /\ status[listings[l].asset] = "listed"

NewOrder(buyer) == [NoOrder EXCEPT !.status = "created", !.buyer = buyer]

\* An open intent for the listing is used again.
OpenListingOrder(o) ==
    /\ o \in ListingOrders
    /\ order[o] = NoOrder
    /\ Payable(o, o[3])
    /\ order' = [order EXCEPT ![o] = NewOrder(root[o[1]])]
    /\ UNCHANGED <<vars, received>>

\* create_vending_payment_intent
OpenPackageOrder(o) ==
    /\ o \in PackageOrders
    /\ order[o] = NoOrder
    /\ order' = [order EXCEPT ![o] = NewOrder(o[1])]
    /\ UNCHANGED <<vars, received>>

Quoted(old, q) == [old EXCEPT !.quote = q, !.lapsed = FALSE]

Unquoted(o) == o[2] = "sui" /\ order[o].status # "none" /\ order[o].quote = 0

Freezes(o, q) ==
    order' = [order EXCEPT ![o] = Quoted(@, q)] /\ UNCHANGED <<vars, received>>

\* freeze_sui_quote: "Never silently reprice a quote while a buyer may already be
\* paying it."
FreezeQuote(o, q) == o \in PackageOrders /\ Unquoted(o) /\ Freezes(o, q)

\* freeze_p2p_sui_quote
FreezeListingQuote(o, q) == o \in ListingOrders /\ Unquoted(o) /\ Freezes(o, q)

QuoteLapses(o) ==
    /\ Open(o) /\ order[o].quote # 0 /\ ~ order[o].lapsed
    /\ order' = [order EXCEPT ![o].lapsed = TRUE]
    /\ UNCHANGED <<vars, received>>

\* refresh_p2p_sui_quote: the old quote goes and the new one comes in one
\* transaction.  The page has seen the listing for sale, perhaps a moment ago.
RefreshQuote(o, q) ==
    /\ o \in ListingOrders
    /\ Open(o)
    /\ order[o].quote # 0 /\ order[o].lapsed
    /\ order' = [order EXCEPT ![o] = Quoted(@, q)]
    /\ UNCHANGED <<vars, received>>

-----------------------------------------------------------------------------
(* Payment.                                                                *)

\* Somebody sends SUI to FANZ's address: what a page asks for, less or more, in
\* time or not, once or for every order.
Pays(d, n) ==
    /\ received[d] = 0 /\ \A c \in Digests : c < d => received[c] # 0
    /\ received' = [received EXCEPT ![d] = n]
    /\ UNCHANGED <<vars, order>>

\* The pages where a buyer says what has been paid
PageShowsQuote(o) == order[o].quote # 0
SuiCheckout(o) == o \in ListingOrders /\ o[2] = "sui"

QuoteAlive(o) == PageShowsQuote(o) /\ ~ order[o].lapsed

\* verify_sui_payment: the transaction has succeeded, and what it pays to FANZ's
\* address is enough.
Verified(o, d) == received[d] >= order[o].quote

Settles(o, d) ==
    /\ order' = [order EXCEPT ![o].status = "settled", ![o].reference = d]
    /\ UNCHANGED <<vars, received>>

\* settle_p2p_sui_payment, with a digest that the order has not been settled with
\* yet.  The page has seen the listing for sale, perhaps a moment ago.
SettleListingInSui(o, d) ==
    /\ SuiCheckout(o)
    /\ QuoteAlive(o) /\ Open(o)
    /\ Verified(o, d)
    /\ Settles(o, d)

\* settle_sui_payment
SettlePackageInSui(o, d) ==
    /\ o \in PackageOrders
    /\ QuoteAlive(o) /\ Open(o)
    /\ Verified(o, d)
    /\ Settles(o, d)

CreateInvoice(o) ==
    /\ o[2] = "btc" /\ order[o].status = "created"
    /\ order' = [order EXCEPT ![o].status = "invoice_created"]
    /\ UNCHANGED <<vars, received>>

\* btcpay_webhook: the invoice is paid, perhaps late, or it runs out.
InvoiceSettles(o) ==
    /\ o[2] = "btc" /\ order[o].status \in {"invoice_created", "expired"}
    /\ order' = [order EXCEPT ![o].status = "settled"]
    /\ UNCHANGED <<vars, received>>

InvoiceExpires(o) ==
    /\ o[2] = "btc" /\ order[o].status = "invoice_created"
    /\ order' = [order EXCEPT ![o].status = "expired"]
    /\ UNCHANGED <<vars, received>>

-----------------------------------------------------------------------------
(* Delivery: fulfill_payment_intent on every settled intent.               *)

MarkSold(l) == Close(l, "sold")

\* fulfill_p2p_external_founder_purchase checks the sale again
Deliverable(o) ==
    /\ o \in ListingOrders
    /\ order[o].status = "settled"
    /\ Payable(<<order[o].buyer, o[2], o[3]>>, o[3])

\* and moves the title for the listed price, without a credit and without a fee.
FulfillListing(o) ==
    LET l == o[3]
        a == listings[l].asset
        seller == root[listings[l].seller]
        buyer == root[order[o].buyer]
    IN /\ Deliverable(o)
       /\ Convey(a, seller, buyer, listings[l].price, 0)
       /\ MarkSold(l)
       /\ order' = [order EXCEPT ![o].status = "fulfilled"]
       /\ UNCHANGED <<wallets, root, received>>

\* CreditPurchase.external_id, the digest, is "Idempotency key": there is a
\* purchase with it, whosever it was.
AlreadyPurchased(o) ==
    \E p \in PackageOrders : /\ order[p].status = "fulfilled"
                             /\ order[p].reference = order[o].reference

\* fulfill_credit_package: process_credit_purchase credits a digest once, and the
\* order is fulfilled all the same.
FulfillPackage(o) ==
    /\ o \in PackageOrders
    /\ order[o].status = "settled"
    /\ credits' = IF AlreadyPurchased(o) THEN credits
                  ELSE [credits EXCEPT ![order[o].buyer] = @ + Package]
    /\ order' = [order EXCEPT ![o].status = "fulfilled"]
    /\ UNCHANGED <<bid, hold, root, titles, received>>

Fulfill(o) == FulfillListing(o) \/ FulfillPackage(o)

OrderStep ==
    \/ \E o \in Orders : OpenListingOrder(o)
    \/ \E o \in Orders : OpenPackageOrder(o)
    \/ \E o \in Orders, q \in PackageQuotes : FreezeQuote(o, q)
    \/ \E o \in Orders, q \in Quotes : FreezeListingQuote(o, q)
    \/ \E o \in Orders : QuoteLapses(o)
    \/ \E o \in Orders, q \in Quotes : RefreshQuote(o, q)
    \/ \E d \in Digests, n \in Quotes \cup PackageQuotes : Pays(d, n)
    \/ \E o \in Orders, d \in Digests : SettleListingInSui(o, d)
    \/ \E o \in Orders, d \in Digests : SettlePackageInSui(o, d)
    \/ \E o \in Orders : CreateInvoice(o)
    \/ \E o \in Orders : InvoiceSettles(o)
    \/ \E o \in Orders : InvoiceExpires(o)
    \/ \E o \in Orders : FulfillListing(o)
    \/ \E o \in Orders : FulfillPackage(o)

ExternalNext == (Next /\ UNCHANGED <<order, received>>) \/ OrderStep

\* fulfill_settled_payments runs every minute and delivers what it can.  Nothing
\* is assumed of buyers, sellers, BTCPay or the Sui service.
ExternalSpec ==
    ExternalInit /\ [][ExternalNext]_allVars /\ WF_allVars(\E o \in Orders : Fulfill(o))

-----------------------------------------------------------------------------
(* Properties.                                                             *)

\* The transaction that an order in SUI was settled with has paid what was asked
\* for the order: no refresh of the quote, before or after, leaves a settled order
\* with a quote above it.  It says nothing of who has paid, or for which order.
MeetsQuote(o) ==
    /\ order[o].reference # NoDigest /\ order[o].quote # 0
    /\ received[order[o].reference] >= order[o].quote

SettledAtQuote ==
    \A o \in Orders :
        o[2] = "sui" /\ order[o].status \in {"settled", "fulfilled"} => MeetsQuote(o)

\* A listing is sold once, for credits or against one outside payment, whoever
\* else has paid for it, and one ledger record says so.
SoldOnce ==
    /\ OneConveyancePerSale
    /\ \A o, p \in ListingOrders :
          order[o].status = "fulfilled" /\ order[p].status = "fulfilled" /\ o[3] = p[3] => o = p

\* A title moves in a step that moves credits, or by the delivery of one settled
\* order: to who ordered, for a listing that its owner still has for sale.  An order
\* in SUI cites a transaction that meets its quote, and that the buyer need not
\* have sent, nor another order not cite.
MovesOnSettlement ==
    [][\A a \in Assets : owner'[a] # owner[a] =>
          \/ credits' # credits
          \/ \E o \in ListingOrders :
                /\ order[o].status = "settled" /\ order'[o].status = "fulfilled"
                /\ o[2] = "sui" => MeetsQuote(o)
                /\ Active(o[3]) /\ listings[o[3]].asset = a
                /\ owner[a] = listings[o[3]].seller
                /\ owner'[a] = root[order[o].buyer]]_allVars

\* Packages are the only thing that brings credits, and a transaction brings those
\* of one package, however many orders for packages cite it and whosever they are.
CreditsArePaidFor ==
    SumFunction([u \in Users |-> Wealth(u)])
        = SumFunction(InitialCredits)
          + Package * Cardinality({order[o].reference :
                 o \in {p \in PackageOrders : order[p].status = "fulfilled"}})

\* Settled, and still to be had: the listing is for sale, and its seller and
\* the buyer have not come under one root.
Owed(o) ==
    /\ order[o].status = "settled" /\ Active(o[3])
    /\ root[order[o].buyer] # root[listings[o[3]].seller]

\* Whose order for a listing has settled gets the property, unless it goes to somebody else
\* first or is withdrawn: again and again, nothing settled is left to deliver.
PaidIsDelivered ==
    (\E o \in ListingOrders : Owed(o)) ~> (\A o \in ListingOrders : ~ Owed(o))

==============================================================================
