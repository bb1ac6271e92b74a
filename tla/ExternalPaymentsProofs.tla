------------------------ MODULE ExternalPaymentsProofs ------------------------
(***************************************************************************)
(* Proofs about ExternalPayments, for any market, any buyers and any       *)
(* quotes.                                                                 *)
(*                                                                         *)
(* SettledAtQuote is inductive once the orders have their type: a quote is *)
(* frozen only where there is none, and renewed only while the order is    *)
(* open, and what a transaction has paid stays.  The market never touches  *)
(* an order; an order touches the market where a delivery sells the        *)
(* listing, and keeps MarketInv there.  From this follow, in order: how a  *)
(* title moves, one sale for each listing, an unbroken provenance, the     *)
(* credits that packages bring, and the escrow of bids.                    *)
(***************************************************************************)
EXTENDS ExternalPayments, FounderMarketProofs

OrderStatuses == OpenStatuses \cup {"none", "settled", "fulfilled", "expired"}

OrderRecords == [status : OrderStatuses, buyer : Users \cup {NoUser}, quote : Nat,
                 lapsed : BOOLEAN, reference : Digests \cup {NoDigest}]

OrdersOK ==
    /\ order \in [Orders -> OrderRecords]
    /\ received \in [Digests -> Nat]

AtQuote(r) ==
    r.reference # NoDigest /\ r.quote # 0 /\ received[r.reference] >= r.quote
Settled(r) == r.status \in {"settled", "fulfilled"}

\* An order that was opened has a user who gets what it is for.
Known(r) == r.status # "none" => r.buyer \in Users
OrderedByUsers == \A o \in Orders : Known(order[o])

OrderInv == OrdersOK /\ OrderedByUsers /\ SettledAtQuote

ExternalInv == MarketInv /\ OrderInv

\* A step that changes one order keeps the invariant if the order keeps it.
LEMMA OneOrder ==
    ASSUME OrderInv, NEW o \in Orders, NEW r \in OrderRecords, Known(r),
           order' = [order EXCEPT ![o] = r], received' = received,
           o[2] = "sui" /\ Settled(r) => AtQuote(r)
    PROVE  OrderInv'
<1>1. OrdersOK'
  BY DEF OrderInv, OrdersOK
<1>2. ASSUME NEW p \in Orders, p[2] = "sui", Settled(order'[p]) PROVE AtQuote(order'[p])
  <2>1. CASE p = o
    BY <1>2, <2>1 DEF OrderInv, OrdersOK
  <2>2. CASE p # o
    BY <1>2, <2>2 DEF OrderInv, OrdersOK, SettledAtQuote, MeetsQuote, Settled, AtQuote
  <2> QED
    BY <2>1, <2>2
<1>3. ASSUME NEW p \in Orders PROVE Known(order'[p])
  BY DEF OrderInv, OrdersOK, OrderedByUsers
<1>4. OrderedByUsers'
  BY <1>3 DEF OrderedByUsers, Known
<1>5. SettledAtQuote'
  BY <1>2 DEF SettledAtQuote, MeetsQuote, Settled, AtQuote
<1> QED
  BY <1>1, <1>4, <1>5 DEF OrderInv

\* An order's record with another status, another quote or another reference
LEMMA OrderChanges ==
    ASSUME OrderInv, NEW o \in Orders
    PROVE  /\ \A s \in OrderStatuses :
                 /\ [order[o] EXCEPT !.status = s] \in OrderRecords
                 /\ order[o].status # "none" => Known([order[o] EXCEPT !.status = s])
                 /\ [order[o] EXCEPT !.status = s].status = s
                 /\ [order[o] EXCEPT !.status = s].quote = order[o].quote
                 /\ [order[o] EXCEPT !.status = s].reference = order[o].reference
           /\ \A q \in Nat :
                 /\ Quoted(order[o], q) \in OrderRecords
                 /\ Known(Quoted(order[o], q))
                 /\ Quoted(order[o], q).status = order[o].status
                 /\ Quoted(order[o], q).reference = order[o].reference
           /\ order[o] \in OrderRecords /\ Known(order[o])
           /\ o[2] = "sui" /\ Settled(order[o]) => AtQuote(order[o])
<1>1. order[o] \in OrderRecords /\ Known(order[o])
  BY DEF OrderInv, OrdersOK, OrderedByUsers
<1>2. o[2] = "sui" /\ Settled(order[o]) => AtQuote(order[o])
  BY DEF OrderInv, SettledAtQuote, MeetsQuote, Settled, AtQuote
<1>3. \A s \in OrderStatuses :
         /\ [order[o] EXCEPT !.status = s] \in OrderRecords
         /\ order[o].status # "none" => Known([order[o] EXCEPT !.status = s])
         /\ [order[o] EXCEPT !.status = s].status = s
         /\ [order[o] EXCEPT !.status = s].quote = order[o].quote
         /\ [order[o] EXCEPT !.status = s].reference = order[o].reference
  BY <1>1 DEF OrderRecords, Known
<1>4. \A q \in Nat :
         /\ Quoted(order[o], q) \in OrderRecords
         /\ Known(Quoted(order[o], q))
         /\ Quoted(order[o], q).status = order[o].status
         /\ Quoted(order[o], q).reference = order[o].reference
  BY <1>1 DEF OrderRecords, Quoted, Known
<1> QED
  BY <1>1, <1>2, <1>3, <1>4

\* What an order was settled with, its transaction keeps.
LEMMA SettledOrder ==
    ASSUME OrderInv, NEW o \in Orders, NEW d \in Digests
    PROVE  LET r == [order[o] EXCEPT !.status = "settled", !.reference = d]
           IN  /\ r \in OrderRecords
               /\ order[o].status # "none" => Known(r)
               /\ r.status = "settled" /\ r.quote = order[o].quote /\ r.reference = d
<1>1. order[o] \in OrderRecords /\ Known(order[o])
  BY DEF OrderInv, OrdersOK, OrderedByUsers
<1> QED
  BY <1>1 DEF OrderRecords, OrderStatuses, Known

LEMMA OrderShape ==
    ASSUME NEW o \in Orders
    PROVE  /\ o[1] \in Users /\ o[2] \in {"btc", "sui"}
           /\ o \in PackageOrders => o[2] = "sui"
<1>1. CASE o \in PackageOrders
  BY <1>1, ExternalAssumption DEF PackageOrders
<1>2. CASE o \in ListingOrders
  <2>1. PICK b \in Buyers, l \in ListingIds : o = <<b[1], b[2], l>>
    BY <1>2 DEF ListingOrders
  <2>2. b[1] \in Users /\ b[2] \in {"btc", "sui"}
    BY ExternalAssumption
  <2>3. o \in PackageOrders => o[2] = "sui"
    BY DEF PackageOrders
  <2> QED
    BY <2>1, <2>2, <2>3
<1> QED
  BY <1>1, <1>2 DEF Orders

LEMMA InitExternalInv == ExternalInit => ExternalInv
<1> SUFFICES ASSUME ExternalInit PROVE ExternalInv
  OBVIOUS
<1>1. MarketInv
  BY InitMarketInv DEF ExternalInit
<1>2. NoOrder \in OrderRecords /\ NoOrder.status = "none"
  BY DEF NoOrder, OrderRecords, OrderStatuses
<1>3. OrdersOK
  BY <1>2 DEF ExternalInit, OrdersOK
<1>4. SettledAtQuote /\ OrderedByUsers
  BY <1>2 DEF ExternalInit, SettledAtQuote, OrderedByUsers, Known
<1> QED
  BY <1>1, <1>3, <1>4 DEF ExternalInv, OrderInv

-----------------------------------------------------------------------------
(* Steps of an order.                                                      *)

LEMMA OpeningStep ==
    ASSUME ExternalInv, NEW o \in Orders, OpenListingOrder(o) \/ OpenPackageOrder(o)
    PROVE  OrderInv' /\ UNCHANGED <<vars, received>>
<1>1. PICK u \in Users : order' = [order EXCEPT ![o] = NewOrder(u)]
  BY OrderShape DEF OpenListingOrder, OpenPackageOrder, ExternalInv, MarketInv, BooksOK, TypeOK
<1>2. NewOrder(u) \in OrderRecords /\ Known(NewOrder(u)) /\ ~ Settled(NewOrder(u))
  BY DEF Known, NewOrder, NoOrder, OrderRecords, OrderStatuses, OpenStatuses, Settled
<1> DEFINE r == NewOrder(u)
<1> HIDE DEF r
<1>3. UNCHANGED <<vars, received>>
  BY DEF OpenListingOrder, OpenPackageOrder
<1> QED
  BY <1>1, <1>2, <1>3, OneOrder DEF ExternalInv, r

LEMMA QuoteStep ==
    ASSUME ExternalInv, NEW o \in Orders, NEW q \in Quotes \cup PackageQuotes,
           FreezeQuote(o, q) \/ FreezeListingQuote(o, q) \/ RefreshQuote(o, q)
    PROVE  OrderInv' /\ UNCHANGED <<vars, received>>
<1>1. q \in Nat
  BY ExternalAssumption
<1> DEFINE r == Quoted(order[o], q)
<1>2. order' = [order EXCEPT ![o] = r] /\ UNCHANGED <<vars, received>>
  BY DEF FreezeQuote, FreezeListingQuote, RefreshQuote, Freezes
<1>3. /\ r \in OrderRecords /\ Known(r)
      /\ r.status = order[o].status
      /\ o[2] = "sui" /\ Settled(order[o]) => AtQuote(order[o])
  BY <1>1, OrderChanges DEF ExternalInv
<1>4. order[o].quote = 0 \/ Open(o)
  BY DEF FreezeQuote, FreezeListingQuote, RefreshQuote, Unquoted
<1>5. o[2] = "sui" /\ Settled(r) => AtQuote(r)
  BY <1>3, <1>4 DEF Settled, AtQuote, Open, OpenStatuses
<1> HIDE DEF r
<1> QED
  BY <1>2, <1>3, <1>5, OneOrder DEF ExternalInv

LEMMA TimeStep ==
    ASSUME ExternalInv, NEW o \in Orders, QuoteLapses(o)
    PROVE  OrderInv' /\ UNCHANGED <<vars, received>>
<1> DEFINE r == [order[o] EXCEPT !.lapsed = TRUE]
<1>1. /\ order[o] \in OrderRecords /\ Known(order[o])
      /\ o[2] = "sui" /\ Settled(order[o]) => AtQuote(order[o])
  BY OrderChanges DEF ExternalInv
<1>2. order' = [order EXCEPT ![o] = r] /\ UNCHANGED <<vars, received>>
  BY DEF QuoteLapses
<1>3. r \in OrderRecords /\ Known(r)
  BY <1>1 DEF OrderRecords, Known
<1>4. /\ r.status = order[o].status /\ r.quote = order[o].quote
      /\ r.reference = order[o].reference
  BY <1>1 DEF OrderRecords
<1>5. o[2] = "sui" /\ Settled(r) => AtQuote(r)
  BY <1>1, <1>4 DEF Settled, AtQuote
<1> HIDE DEF r
<1> QED
  BY <1>2, <1>3, <1>5, OneOrder DEF ExternalInv

\* A new transaction is not one that an order cites: those have paid already.
LEMMA PaysStep ==
    ASSUME ExternalInv, NEW d \in Digests, NEW n \in Quotes \cup PackageQuotes, Pays(d, n)
    PROVE  OrderInv' /\ UNCHANGED <<vars, order>>
<1>1. n \in Nat
  BY ExternalAssumption
<1>2. /\ received[d] = 0 /\ received' = [received EXCEPT ![d] = n]
      /\ UNCHANGED <<vars, order>>
  BY DEF Pays
<1>3. OrdersOK' /\ OrderedByUsers'
  BY <1>1, <1>2 DEF ExternalInv, OrderInv, OrdersOK, OrderedByUsers, Known
<1>4. ASSUME NEW o \in Orders, o[2] = "sui", order[o].status \in {"settled", "fulfilled"}
      PROVE  MeetsQuote(o)'
  <2>1. MeetsQuote(o) /\ order[o] \in OrderRecords
    BY <1>4 DEF ExternalInv, OrderInv, OrdersOK, SettledAtQuote
  <2>2. order[o].quote \in Nat /\ order[o].reference \in Digests
    BY <2>1 DEF OrderRecords, MeetsQuote
  <2>3. order[o].reference # d
    BY <1>2, <2>1, <2>2 DEF MeetsQuote
  <2>4. received'[order[o].reference] = received[order[o].reference]
    BY <1>2, <2>2, <2>3 DEF ExternalInv, OrderInv, OrdersOK
  <2> QED
    BY <1>2, <2>1, <2>4 DEF MeetsQuote
<1>5. SettledAtQuote'
  BY <1>2, <1>4 DEF SettledAtQuote
<1> QED
  BY <1>2, <1>3, <1>5 DEF OrderInv

LEMMA SuiSettlementStep ==
    ASSUME ExternalInv, NEW o \in Orders, NEW d \in Digests,
           SettleListingInSui(o, d) \/ SettlePackageInSui(o, d)
    PROVE  OrderInv' /\ UNCHANGED <<vars, received>>
<1> DEFINE r == [order[o] EXCEPT !.status = "settled", !.reference = d]
<1>1. order[o] \in OrderRecords
  BY OrderChanges DEF ExternalInv
<1>2. order' = [order EXCEPT ![o] = r] /\ UNCHANGED <<vars, received>>
  BY <1>1 DEF SettleListingInSui, SettlePackageInSui, Settles, ExternalInv, OrderInv, OrdersOK
<1>3. order[o].quote # 0 /\ received[d] >= order[o].quote /\ order[o].status # "none"
  BY DEF SettleListingInSui, SettlePackageInSui, QuoteAlive, PageShowsQuote,
         Verified, Open, OpenStatuses
<1>4. /\ r \in OrderRecords /\ Known(r)
      /\ r.quote = order[o].quote /\ r.reference = d
  BY <1>3, SettledOrder DEF ExternalInv
<1>5. AtQuote(r)
  BY <1>3, <1>4 DEF AtQuote, Digests, NoDigest
<1> HIDE DEF r
<1> QED
  BY <1>2, <1>4, <1>5, OneOrder DEF ExternalInv

LEMMA InvoiceStep ==
    ASSUME ExternalInv, NEW o \in Orders,
           CreateInvoice(o) \/ InvoiceSettles(o) \/ InvoiceExpires(o)
    PROVE  OrderInv' /\ UNCHANGED <<vars, received>>
<1>1. /\ o[2] # "sui" /\ order[o] \in OrderRecords
      /\ order[o].status # "none" /\ order[o].buyer \in Users
  BY OrderChanges DEF CreateInvoice, InvoiceSettles, InvoiceExpires, ExternalInv, Known
<1>2. PICK r \in OrderRecords : Known(r) /\ order' = [order EXCEPT ![o] = r]
  <2>1. CASE CreateInvoice(o)
    BY <1>1, <2>1 DEF CreateInvoice, OrderRecords, Known, OrderStatuses, OpenStatuses
  <2>2. CASE InvoiceExpires(o)
    BY <1>1, <2>2 DEF InvoiceExpires, OrderRecords, Known, OrderStatuses
  <2>3. CASE InvoiceSettles(o)
    BY <1>1, <2>3 DEF InvoiceSettles, OrderRecords, Known, OrderStatuses
  <2> QED
    BY <2>1, <2>2, <2>3
<1>3. UNCHANGED <<vars, received>>
  BY DEF CreateInvoice, InvoiceSettles, InvoiceExpires
<1> QED
  BY <1>1, <1>2, <1>3, OneOrder DEF ExternalInv

-----------------------------------------------------------------------------
(* Deliveries, which change the market too.                                *)

\* What is delivered was settled, so its order stays at its quote.
LEMMA DeliveredOrder ==
    ASSUME ExternalInv, NEW o \in Orders, order[o].status = "settled",
           order' = [order EXCEPT ![o].status = "fulfilled"], received' = received
    PROVE  OrderInv'
<1> DEFINE r == [order[o] EXCEPT !.status = "fulfilled"]
<1>1. order' = [order EXCEPT ![o] = r]
  OBVIOUS
<1>2. /\ r \in OrderRecords /\ Known(r)
      /\ r.quote = order[o].quote /\ r.reference = order[o].reference
      /\ o[2] = "sui" /\ Settled(order[o]) => AtQuote(order[o])
  BY OrderChanges DEF ExternalInv, OrderStatuses
<1>3. o[2] = "sui" => AtQuote(r)
  BY <1>2 DEF Settled, AtQuote
<1> HIDE DEF r
<1> QED
  BY <1>1, <1>2, <1>3, OneOrder DEF ExternalInv

LEMMA FulfillListingStep ==
    ASSUME ExternalInv, NEW o \in Orders, FulfillListing(o)
    PROVE  ExternalInv'
<1> DEFINE l == o[3]
           a == listings[l].asset
           price == listings[l].price
           seller == root[listings[l].seller]
           buyer == root[order[o].buyer]
<1>1. /\ Active(l) /\ listings[l].sale = "fixed" /\ order[o].status = "settled"
      /\ owner[a] = seller /\ root[order[o].buyer] # seller
  BY DEF FulfillListing, Deliverable, Payable
<1>2. l \in DOMAIN listings
  BY <1>1 DEF Active
<1>3. a \in Assets /\ price \in Nat /\ listings[l].seller \in Users
  BY <1>2, ListingRow DEF ExternalInv, MarketInv, BooksOK, TypeOK
<1>4. seller \in Users
  BY <1>3 DEF ExternalInv, MarketInv, BooksOK, TypeOK
<1>5. buyer \in Users
  BY <1>1 DEF ExternalInv, OrderInv, OrderedByUsers, Known, MarketInv, BooksOK, TypeOK
<1>6. /\ Convey(a, seller, buyer, price, 0) /\ Close(l, "sold")
      /\ UNCHANGED wallets /\ root' = root /\ received' = received
      /\ order' = [order EXCEPT ![o].status = "fulfilled"]
  BY DEF FulfillListing, MarkSold
<1>7. UNCHANGED <<credits, bid, hold>>
  BY <1>6 DEF wallets
<1>8. credits' \in [Users -> Nat]
  BY <1>7 DEF ExternalInv, MarketInv, BooksOK, TypeOK
<1>9. OrderInv'
  BY <1>1, <1>6, DeliveredOrder
<1> HIDE DEF price, seller, buyer
<1>10. MarketInv'
  BY <1>1, <1>2, <1>3, <1>4, <1>5, <1>6, <1>7, <1>8, FixedSaleHolds, SoldListing
     DEF ExternalInv, MarketInv
<1> QED
  BY <1>9, <1>10 DEF ExternalInv

LEMMA FulfillPackageStep ==
    ASSUME ExternalInv, NEW o \in Orders, FulfillPackage(o)
    PROVE  ExternalInv'
<1>1. order[o].status = "settled"
  BY DEF FulfillPackage
<1>2. order[o].buyer \in Users
  BY <1>1 DEF ExternalInv, OrderInv, OrderedByUsers, Known
<1>3. /\ credits' \in [Users -> Nat]
      /\ UNCHANGED <<bid, hold, root, titles>>
  BY <1>2, ExternalAssumption DEF FulfillPackage, ExternalInv, MarketInv, BooksOK, TypeOK
<1>4. MarketInv'
  BY <1>3 DEF ExternalInv, MarketInv, BooksOK, TypeOK, FundedLeader, HoldsOnlyWhileOpen,
              ListedMeansForSale, Active, titles
<1>5. OrderInv'
  BY <1>1, DeliveredOrder DEF FulfillPackage
<1> QED
  BY <1>4, <1>5 DEF ExternalInv

LEMMA NextExternalInv == ExternalInv /\ [ExternalNext]_allVars => ExternalInv'
<1> SUFFICES ASSUME ExternalInv, [ExternalNext]_allVars PROVE ExternalInv'
  OBVIOUS
\* Steps that leave the market alone
<1>1. ASSUME OrderInv', UNCHANGED vars PROVE ExternalInv'
  BY <1>1, NextMarketInv DEF ExternalInv
<1>2. CASE Next /\ UNCHANGED <<order, received>>
  <2>1. OrderInv'
    BY <1>2 DEF ExternalInv, OrderInv, OrdersOK, OrderedByUsers, Known, SettledAtQuote, MeetsQuote
  <2> QED
    BY <1>2, <2>1, NextMarketInv DEF ExternalInv
<1>3. CASE UNCHANGED allVars
  <2>1. OrderInv' /\ UNCHANGED vars
    BY <1>3 DEF allVars, ExternalInv, OrderInv, OrdersOK, OrderedByUsers, Known,
                SettledAtQuote, MeetsQuote
  <2> QED
    BY <2>1, <1>1
<1>4. ASSUME NEW o \in Orders, OpenListingOrder(o) \/ OpenPackageOrder(o)
      PROVE  ExternalInv'
  BY <1>4, <1>1, OpeningStep
<1>5. ASSUME NEW o \in Orders, NEW q \in Quotes \cup PackageQuotes,
             FreezeQuote(o, q) \/ FreezeListingQuote(o, q) \/ RefreshQuote(o, q)
      PROVE  ExternalInv'
  BY <1>5, <1>1, QuoteStep
<1>6. /\ \A o \in Orders : QuoteLapses(o) => ExternalInv'
      /\ \A d \in Digests, n \in Quotes \cup PackageQuotes : Pays(d, n) => ExternalInv'
  BY <1>1, TimeStep, PaysStep
<1>7. ASSUME NEW o \in Orders, NEW d \in Digests,
             SettleListingInSui(o, d) \/ SettlePackageInSui(o, d)
      PROVE  ExternalInv'
  BY <1>7, <1>1, SuiSettlementStep
<1>8. ASSUME NEW o \in Orders, CreateInvoice(o) \/ InvoiceSettles(o) \/ InvoiceExpires(o)
      PROVE  ExternalInv'
  BY <1>8, <1>1, InvoiceStep
<1>9. ASSUME NEW o \in Orders, FulfillListing(o) \/ FulfillPackage(o)
      PROVE  ExternalInv'
  BY <1>9, FulfillListingStep, FulfillPackageStep
<1> QED
  BY <1>2, <1>3, <1>4, <1>5, <1>6, <1>7, <1>8, <1>9 DEF ExternalNext, OrderStep

-----------------------------------------------------------------------------
(* The theorems.                                                           *)

\* The market with outside payments keeps the market's invariant and that of
\* the orders.
THEOREM ExternalInvariant == ExternalSpec => []ExternalInv
<1>1. ExternalInit => ExternalInv
  BY InitExternalInv
<1>2. ExternalInv /\ [ExternalNext]_allVars => ExternalInv'
  BY NextExternalInv
<1> QED
  BY <1>1, <1>2, PTL DEF ExternalSpec

\* The transaction an order in SUI was settled with meets its quote, whatever the
\* market does, however often quotes are renewed and however many orders there are
\* for a transaction.
THEOREM PaymentsAtQuote == ExternalSpec => []SettledAtQuote
<1>1. ExternalInv => SettledAtQuote
  BY DEF ExternalInv, OrderInv
<1> QED
  BY <1>1, ExternalInvariant, PTL

\* Money that changes hands changes a balance.
LEMMA PaidChanges ==
    ASSUME NEW c \in [Users -> Nat], NEW seller \in Users,
           NEW price \in Nat, NEW fee \in Nat, fee < price
    PROVE  Paid(c, seller, price, fee)[seller] > c[seller]
<1>1. CASE seller = Plat
  BY <1>1, UsersAssumption DEF Paid
<1>2. CASE seller # Plat
  BY <1>2, UsersAssumption DEF Paid
<1> QED
  BY <1>1, <1>2

LEMMA FeeBelowPrice ==
    ASSUME NEW price \in Nat, price >= MinTransfer
    PROVE  Fee(price) \in Nat /\ Fee(price) < price
BY DEF Fee, MinTransfer

\* In the market a title moves by a sale, and every sale moves credits.
LEMMA TitleMovesForCredits ==
    ASSUME MarketInv, Next, owner' # owner
    PROVE  credits' # credits
<1>0. credits \in [Users -> Nat]
  BY DEF MarketInv, BooksOK, TypeOK
<1>1. ASSUME NEW l \in DOMAIN listings, NEW u \in Users, PurchaseP2PFixed(l, u)
      PROVE  credits' # credits
  <2> DEFINE price == listings[l].price
             seller == root[owner[listings[l].asset]]
             buyer == root[root[u]]
             c == [credits EXCEPT ![buyer] = @ - price]
  <2>1. TransferOwnership(listings[l].asset, root[u], price)
    BY <1>1 DEF PurchaseP2PFixed
  <2>2. price \in Nat /\ listings[l].asset \in Assets
    BY ListingRow DEF MarketInv, BooksOK, TypeOK
  <2>3. owner[listings[l].asset] \in Users
    BY <2>1, <2>2 DEF TransferOwnership, MarketInv, BooksOK, TypeOK
  <2>4. seller \in Users /\ buyer \in Users
    BY <2>3 DEF MarketInv, BooksOK, TypeOK
  <2>5. /\ price >= MinTransfer /\ seller # buyer /\ CanPay(buyer, price)
        /\ credits' = Paid(c, seller, price, Fee(price))
    BY <2>1 DEF TransferOwnership
  <2>6. c \in [Users -> Nat] /\ c[seller] = credits[seller]
    BY <1>0, <2>2, <2>4, <2>5 DEF CanPay
  <2> HIDE DEF price, seller, buyer, c
  <2>7. credits'[seller] > credits[seller]
    BY <2>2, <2>4, <2>5, <2>6, FeeBelowPrice, PaidChanges
  <2> QED
    BY <1>0, <2>4, <2>7
<1>2. ASSUME NEW l \in DOMAIN listings, NEW u \in Users, PurchaseTiendaFixed(l, u)
      PROVE  credits' # credits
  <2> DEFINE price == listings[l].price
             buyer == root[u]
             c == [credits EXCEPT ![buyer] = @ - price]
  <2>1. price \in Nat /\ buyer \in Users
    BY ListingRow DEF MarketInv, BooksOK, TypeOK
  <2>2. /\ price >= MinTransfer /\ buyer # Plat /\ CanPay(buyer, price)
        /\ credits' = Paid(c, Plat, price, 0)
    BY <1>2 DEF PurchaseTiendaFixed, Convey
  <2>3. c \in [Users -> Nat] /\ c[Plat] = credits[Plat]
    BY <1>0, <2>1, <2>2, UsersAssumption DEF CanPay
  <2>4. 0 < price
    BY <2>1, <2>2 DEF MinTransfer
  <2> HIDE DEF price, buyer, c
  <2>5. credits'[Plat] > credits[Plat]
    BY <2>1, <2>2, <2>3, <2>4, UsersAssumption, PaidChanges
  <2> QED
    BY <1>0, <2>5, UsersAssumption
<1>3. ASSUME NEW l \in DOMAIN listings, NEW w \in Users, CloseSold(l, w)
      PROVE  credits' # credits
  <2> DEFINE price == bid[l][w]
             seller == root[listings[l].seller]
             fee == IF listings[l].lane = "none" THEN Fee(price) ELSE 0
  <2>1. l \in ListingIds /\ listings[l].seller \in Users
    BY ListingRow, LenProperties, BoundsAssumption DEF MarketInv, BooksOK, TypeOK, ListingIds
  <2>2. price \in Nat /\ seller \in Users
    BY <2>1 DEF MarketInv, BooksOK, TypeOK
  <2>3. price >= MinTransfer /\ credits' = Paid(credits, seller, price, fee)
    BY <1>3 DEF CloseSold, Convey
  <2> HIDE DEF price, seller
  <2>4. fee \in Nat /\ fee < price
    BY <2>2, <2>3, FeeBelowPrice DEF MinTransfer
  <2> HIDE DEF fee
  <2>5. credits'[seller] > credits[seller]
    BY <1>0, <2>2, <2>3, <2>4, PaidChanges
  <2> QED
    BY <1>0, <2>2, <2>5
<1>4. \A a, u, sale, price : ~ CreateListing(a, u, sale, price)
  BY DEF CreateListing
<1>5. \A l, u : ~ CancelListing(l, u)
  BY DEF CancelListing
<1>6. \A fx, bl, sw : ~ Replenish(fx, bl, sw)
  BY DEF Replenish
<1>7. \A l : ~ CloseUnsold(l)
  BY DEF CloseUnsold
<1>8. \A l : ~ EndsAtPasses(l)
  BY DEF EndsAtPasses, titles
<1>9. \A k, d, moved : ~ AssignControl(k, d, moved)
  BY DEF AssignControl, titles
<1>10. \A l, b, amount : ~ PlaceBlindBid(l, b, amount)
  BY DEF PlaceBlindBid, titles
<1> QED
  BY <1>1, <1>2, <1>3, <1>4, <1>5, <1>6, <1>7, <1>8, <1>9, <1>10
     DEF Next, CustomerStep, AnyReplenish, CloseBlind

-----------------------------------------------------------------------------
(* What a step delivers.                                                   *)

Delivered == {o \in Orders : order[o].status = "fulfilled"}
Fulfilled == {o \in ListingOrders : order[o].status = "fulfilled"}
PackagesDelivered == {o \in PackageOrders : order[o].status = "fulfilled"}

\* The transactions that packages were delivered for
References == {order[o].reference : o \in PackagesDelivered}

\* An order that is not delivered in this step
LEMMA NoneDelivered ==
    ASSUME ExternalInv, NEW o \in Orders, NEW r,
           order' = [order EXCEPT ![o] = r],
           r.status = "fulfilled" <=> order[o].status = "fulfilled",
           r.status = "fulfilled" => r.reference = order[o].reference
    PROVE  Delivered' = Delivered /\ References' = References
<1>1. ASSUME NEW p \in Orders
      PROVE  /\ order'[p].status = "fulfilled" <=> order[p].status = "fulfilled"
             /\ order[p].status = "fulfilled" => order'[p].reference = order[p].reference
  BY DEF ExternalInv, OrderInv, OrdersOK
<1>2. \A p \in PackageOrders : p \in Orders
  BY DEF Orders
<1>3. PackagesDelivered' = PackagesDelivered
  BY <1>1, <1>2 DEF PackagesDelivered
<1>4. \A p \in PackagesDelivered : order'[p].reference = order[p].reference
  BY <1>1, <1>2 DEF PackagesDelivered
<1>5. References' = References
  BY <1>3, <1>4 DEF References
<1> QED
  BY <1>1, <1>5 DEF Delivered

\* Only a delivery of a listing or of a package delivers, or touches the market.
LEMMA OrderStepDelivers ==
    ASSUME ExternalInv, OrderStep,
           ~ \E o \in Orders : FulfillListing(o) \/ FulfillPackage(o)
    PROVE  Delivered' = Delivered /\ References' = References /\ UNCHANGED vars
<1> DEFINE Goal == Delivered' = Delivered /\ References' = References /\ UNCHANGED vars
<1>1. ASSUME NEW o \in Orders, OpenListingOrder(o) \/ OpenPackageOrder(o)
      PROVE  Goal
  <2>1. PICK u : order' = [order EXCEPT ![o] = NewOrder(u)]
    BY <1>1 DEF OpenListingOrder, OpenPackageOrder
  <2>2. NewOrder(u).status # "fulfilled"
    BY DEF NewOrder, NoOrder
  <2>3. order[o].status # "fulfilled"
    BY <1>1 DEF OpenListingOrder, OpenPackageOrder, NoOrder
  <2> QED
    BY <1>1, <2>1, <2>2, <2>3, NoneDelivered DEF OpenListingOrder, OpenPackageOrder
<1>2. ASSUME NEW o \in Orders, NEW q \in Quotes \cup PackageQuotes,
             FreezeQuote(o, q) \/ FreezeListingQuote(o, q) \/ RefreshQuote(o, q)
      PROVE  Goal
  <2>1. order' = [order EXCEPT ![o] = Quoted(order[o], q)] /\ UNCHANGED vars
    BY <1>2 DEF FreezeQuote, FreezeListingQuote, RefreshQuote, Freezes
  <2>2. /\ Quoted(order[o], q).status = order[o].status
        /\ Quoted(order[o], q).reference = order[o].reference
    BY ExternalAssumption, OrderChanges DEF ExternalInv
  <2> QED
    BY <2>1, <2>2, NoneDelivered
<1>3. ASSUME NEW o \in Orders, QuoteLapses(o) PROVE Goal
  <2>1. order[o] \in OrderRecords
    BY OrderChanges DEF ExternalInv
  <2>2. /\ [order[o] EXCEPT !.lapsed = TRUE].status = order[o].status
        /\ [order[o] EXCEPT !.lapsed = TRUE].reference = order[o].reference
    BY <2>1 DEF OrderRecords
  <2> QED
    BY <1>3, <2>2, NoneDelivered DEF QuoteLapses
<1>4. ASSUME NEW d \in Digests, NEW n, Pays(d, n) PROVE Goal
  BY <1>4 DEF Pays, Delivered, References, PackagesDelivered
<1>5. ASSUME NEW o \in Orders, NEW d \in Digests,
             SettleListingInSui(o, d) \/ SettlePackageInSui(o, d)
      PROVE  Goal
  <2> DEFINE r == [order[o] EXCEPT !.status = "settled", !.reference = d]
  <2>1. order' = [order EXCEPT ![o] = r] /\ UNCHANGED vars
    BY <1>5, OrderChanges DEF SettleListingInSui, SettlePackageInSui, Settles,
                              ExternalInv, OrderInv, OrdersOK
  <2>2. r.status = "settled"
    BY SettledOrder DEF ExternalInv
  <2>3. order[o].status # "fulfilled"
    BY <1>5 DEF SettleListingInSui, SettlePackageInSui, Open, OpenStatuses
  <2> HIDE DEF r
  <2> QED
    BY <2>1, <2>2, <2>3, NoneDelivered
<1>6. ASSUME NEW o \in Orders, CreateInvoice(o) \/ InvoiceSettles(o) \/ InvoiceExpires(o)
      PROVE  Goal
  <2>1. order[o] \in OrderRecords /\ order[o].status # "fulfilled" /\ UNCHANGED vars
    BY <1>6, OrderChanges DEF CreateInvoice, InvoiceSettles, InvoiceExpires, ExternalInv
  <2>2. PICK r : order' = [order EXCEPT ![o] = r] /\ r.status # "fulfilled"
    BY <1>6, <2>1 DEF CreateInvoice, InvoiceSettles, InvoiceExpires, OrderRecords
  <2> QED
    BY <2>1, <2>2, NoneDelivered
<1> HIDE DEF Goal
<1>7. Goal
  BY <1>1, <1>2, <1>3, <1>4, <1>5, <1>6 DEF OrderStep
<1> QED
  BY <1>7 DEF Goal

\* The delivery of a package gives the buyer its credits, unless its transaction
\* has brought them.
LEMMA PackageDelivers ==
    ASSUME ExternalInv, NEW o \in Orders, FulfillPackage(o)
    PROVE  /\ o \in PackageOrders /\ o \notin ListingOrders
           /\ o \notin Delivered /\ Delivered' = Delivered \cup {o}
           /\ References' = References \cup {order[o].reference}
           /\ UNCHANGED <<hold, root, owner, listings, ledger>>
           /\ order[o].buyer \in Users
           /\ credits' = IF order[o].reference \in References THEN credits
                         ELSE [credits EXCEPT ![order[o].buyer] = @ + Package]
<1>1. /\ o \in PackageOrders /\ order[o].status = "settled"
      /\ order' = [order EXCEPT ![o].status = "fulfilled"]
      /\ UNCHANGED <<hold, root, owner, listings, ledger>>
      /\ credits' = IF AlreadyPurchased(o) THEN credits
                    ELSE [credits EXCEPT ![order[o].buyer] = @ + Package]
  BY DEF FulfillPackage, titles
<1>2. o \notin ListingOrders
  BY <1>1, BoundsAssumption DEF PackageOrders, ListingOrders, ListingIds
<1>3. order[o].buyer \in Users
  BY <1>1 DEF ExternalInv, OrderInv, OrderedByUsers, Known
<1>4. /\ order'[o].status = "fulfilled" /\ order'[o].reference = order[o].reference
      /\ \A p \in Orders \ {o} : order'[p] = order[p]
  BY <1>1, OrderChanges DEF ExternalInv, OrderInv, OrdersOK, OrderRecords
<1>5. o \notin Delivered /\ Delivered' = Delivered \cup {o}
  BY <1>1, <1>4 DEF Delivered
<1>6. PackagesDelivered' = PackagesDelivered \cup {o}
  BY <1>1, <1>4 DEF PackagesDelivered, Orders
<1>7. \A p \in PackagesDelivered \cup {o} : order'[p].reference = order[p].reference
  BY <1>4 DEF PackagesDelivered, Orders
<1>8. References' = References \cup {order[o].reference}
  BY <1>6, <1>7 DEF References
<1>9. AlreadyPurchased(o) <=> order[o].reference \in References
  BY DEF AlreadyPurchased, References, PackagesDelivered
<1> QED
  BY <1>1, <1>2, <1>3, <1>5, <1>8, <1>9

-----------------------------------------------------------------------------
(* How titles move.                                                        *)

\* A delivery of a listing does what MovesOnSettlement says of it.
LEMMA DeliveryMovesTitle ==
    ASSUME ExternalInv, NEW o \in Orders, FulfillListing(o),
           NEW a \in Assets, owner'[a] # owner[a]
    PROVE  /\ o \in ListingOrders
           /\ order[o].status = "settled" /\ order'[o].status = "fulfilled"
           /\ o[2] = "sui" => MeetsQuote(o)
           /\ Active(o[3]) /\ listings[o[3]].asset = a
           /\ owner[a] = listings[o[3]].seller
           /\ owner'[a] = root[order[o].buyer]
<1>1. /\ o \in ListingOrders /\ order[o].status = "settled" /\ Active(o[3])
      /\ order' = [order EXCEPT ![o].status = "fulfilled"]
      /\ MoveTitle(listings[o[3]].asset, root[order[o].buyer])
  BY DEF FulfillListing, Deliverable, Payable, Convey
<1>2. o[2] = "sui" => MeetsQuote(o)
  BY <1>1 DEF ExternalInv, OrderInv, SettledAtQuote
<1>3. listings[o[3]].asset = a /\ owner'[a] = root[order[o].buyer]
  BY <1>1 DEF MoveTitle, ExternalInv, MarketInv, BooksOK, TypeOK
<1>4. o[3] \in DOMAIN listings
  BY <1>1 DEF Active
<1>5. owner[a] = listings[o[3]].seller
  BY <1>1, <1>3, <1>4 DEF ExternalInv, MarketInv, BooksOK, ListedMeansForSale
<1>6. order'[o].status = "fulfilled"
  BY <1>1, OrderChanges DEF ExternalInv, OrderInv, OrdersOK
<1> QED
  BY <1>1, <1>2, <1>3, <1>5, <1>6

\* For any market and any buyers, a title moves by a sale for credits, or to the
\* user of a settled order and out of the hands of who still offered it.
THEOREM TitleMovesOnSettlement == ExternalSpec => MovesOnSettlement
<1>1. ASSUME ExternalInv, [ExternalNext]_allVars, NEW a \in Assets,
             owner'[a] # owner[a], credits' = credits
      PROVE  \E o \in ListingOrders :
                /\ order[o].status = "settled" /\ order'[o].status = "fulfilled"
                /\ o[2] = "sui" => MeetsQuote(o)
                /\ Active(o[3]) /\ listings[o[3]].asset = a
                /\ owner[a] = listings[o[3]].seller
                /\ owner'[a] = root[order[o].buyer]
  <2>1. ~ Next
    BY <1>1, TitleMovesForCredits DEF ExternalInv
  <2>2. ~ UNCHANGED vars /\ ~ UNCHANGED titles /\ ~ UNCHANGED allVars
    BY <1>1 DEF vars, titles, allVars
  <2>3. OrderStep
    BY <1>1, <2>1, <2>2 DEF ExternalNext
  <2>4. PICK o \in Orders : FulfillListing(o)
    BY <1>1, <2>2, <2>3, OrderStepDelivers DEF FulfillPackage
  <2> QED
    BY <1>1, <2>4, DeliveryMovesTitle
<1>2. ExternalInv /\ [ExternalNext]_allVars =>
        [\A a \in Assets : owner'[a] # owner[a] =>
          \/ credits' # credits
          \/ \E o \in ListingOrders :
                /\ order[o].status = "settled" /\ order'[o].status = "fulfilled"
                /\ o[2] = "sui" => MeetsQuote(o)
                /\ Active(o[3]) /\ listings[o[3]].asset = a
                /\ owner[a] = listings[o[3]].seller
                /\ owner'[a] = root[order[o].buyer]]_allVars
  BY <1>1
<1> QED
  BY <1>2, ExternalInvariant, PTL DEF ExternalSpec, MovesOnSettlement

-----------------------------------------------------------------------------
(* A listing is sold once.                                                 *)

\* What was delivered is sold, and sold to one buyer.
SalesInv ==
    /\ OneConveyancePerSale
    /\ \A o \in Fulfilled : o[3] \in SoldRows
    /\ \A o, p \in Fulfilled : o[3] = p[3] => o = p

LEMMA NextSalesInv ==
    ASSUME ExternalInv, SalesInv, [ExternalNext]_allVars
    PROVE  SalesInv'
<1>1. CASE UNCHANGED allVars
  BY <1>1 DEF allVars, vars, SalesInv, OneConveyancePerSale, Fulfilled, SoldRows
<1>2. CASE Next /\ UNCHANGED <<order, received>>
  <2>1. \/ ledger' = ledger /\ SoldRows' = SoldRows
        \/ \E l \in DOMAIN listings : Sells(l)
    BY <1>2, SoldRowsChange DEF ExternalInv, MarketInv
  <2>2. OneConveyancePerSale'
    BY <2>1, SalesCounted DEF ExternalInv, MarketInv, SalesInv
  <2>3. SoldRows \subseteq SoldRows'
    BY <2>1 DEF Sells
  <2>4. Fulfilled' = Fulfilled
    BY <1>2 DEF Fulfilled
  <2> QED
    BY <2>2, <2>3, <2>4 DEF SalesInv
<1>3. CASE OrderStep /\ ~ \E o \in Orders : FulfillListing(o)
  <2>1. Fulfilled' = Fulfilled /\ UNCHANGED <<listings, ledger>>
    <3>1. CASE \E o \in Orders : FulfillPackage(o)
      <4>1. PICK o \in Orders : FulfillPackage(o)
        BY <3>1
      <4>2. /\ o \notin ListingOrders /\ Delivered' = Delivered \cup {o}
            /\ UNCHANGED <<listings, ledger>>
        BY <4>1, PackageDelivers
      <4>3. \A p \in ListingOrders : p \in Delivered' <=> p \in Delivered
        BY <4>2
      <4> QED
        BY <4>2, <4>3 DEF Delivered, Fulfilled, Orders
    <3>2. CASE ~ \E o \in Orders : FulfillPackage(o)
      <4>1. Delivered' = Delivered /\ UNCHANGED <<listings, ledger>>
        BY <1>3, <3>2, OrderStepDelivers DEF vars
      <4> QED
        BY <4>1 DEF Delivered, Fulfilled, Orders
    <3> QED
      BY <3>1, <3>2
  <2> QED
    BY <2>1 DEF SalesInv, OneConveyancePerSale, SoldRows
<1>4. ASSUME NEW o \in Orders, FulfillListing(o) PROVE SalesInv'
  <2>1. /\ o \in ListingOrders /\ Active(o[3]) /\ Close(o[3], "sold")
        /\ order' = [order EXCEPT ![o].status = "fulfilled"]
    BY <1>4 DEF FulfillListing, Deliverable, Payable, MarkSold
  <2>2. o[3] \in DOMAIN listings
    BY <2>1 DEF Active
  <2>3. Sells(o[3])
    BY <1>4, <2>1, <2>2, ConveyedSale DEF FulfillListing, ExternalInv, MarketInv
  <2>4. OneConveyancePerSale'
    BY <2>2, <2>3, SalesCounted DEF ExternalInv, MarketInv, SalesInv
  <2>5. Fulfilled' \subseteq Fulfilled \cup {o}
    <3>1. \A p \in ListingOrders : p \in Orders
      BY DEF Orders
    <3> QED
      BY <2>1, <3>1 DEF Fulfilled, ExternalInv, OrderInv, OrdersOK
  <2>6. \A p \in Fulfilled : p[3] # o[3]
    BY <2>1 DEF SalesInv, SoldRows, Active
  <2>7. SoldRows' = SoldRows \cup {o[3]}
    BY <2>3 DEF Sells
  <2>8. (\A p \in Fulfilled : p[3] \in SoldRows)'
    BY <2>5, <2>7 DEF SalesInv
  <2>9. (\A p, q \in Fulfilled : p[3] = q[3] => p = q)'
    BY <2>5, <2>6 DEF SalesInv
  <2> QED
    BY <2>4, <2>8, <2>9 DEF SalesInv
<1> QED
  BY <1>1, <1>2, <1>3, <1>4 DEF ExternalNext

\* However many have paid for a listing, and by whatever rail, it is sold once
\* and recorded once.
THEOREM ListingSoldOnce == ExternalSpec => []SoldOnce
<1>1. ExternalInit => SalesInv
  <2> SUFFICES ASSUME ExternalInit PROVE SalesInv
    OBVIOUS
  <2>1. OneConveyancePerSale
    BY InitSales DEF ExternalInit
  <2>2. \A o \in ListingOrders : order[o].status = "none"
    BY DEF ExternalInit, NoOrder, Orders
  <2>3. Fulfilled = {}
    BY <2>2 DEF Fulfilled
  <2> QED
    BY <2>1, <2>3 DEF SalesInv
<1>2. ExternalInv /\ SalesInv /\ [ExternalNext]_allVars => SalesInv'
  BY NextSalesInv
<1>3. SalesInv => SoldOnce
  BY DEF SalesInv, SoldOnce, Fulfilled
<1> QED
  BY <1>1, <1>2, <1>3, ExternalInvariant, PTL DEF ExternalSpec

-----------------------------------------------------------------------------
(* Provenance.  What is paid outside is conveyed by the owner, too.         *)

ChainInv == RootsFixed /\ PricesKnown /\ TitleChain

\* The row that a delivery of a listing appends names its owner as the seller.
LEMMA DeliveryGrowsChain ==
    ASSUME ExternalInv, ChainInv, NEW o \in Orders, FulfillListing(o)
    PROVE  ChainInv'
<1> DEFINE l == o[3]
           a == listings[l].asset
           seller == root[listings[l].seller]
           buyer == root[order[o].buyer]
           row == [asset |-> a, seller |-> seller, buyer |-> buyer,
                   price |-> listings[l].price, fee |-> 0]
<1>1. /\ l \in DOMAIN listings /\ owner[a] = seller /\ order[o].status = "settled"
  BY DEF FulfillListing, Deliverable, Payable, Active
<1>2. /\ ledger' = Append(ledger, row) /\ owner' = [owner EXCEPT ![a] = buyer]
      /\ Close(l, "sold")
      /\ bid' = bid /\ root' = root
  BY DEF FulfillListing, Convey, MoveTitle, MarkSold, wallets
<1>3. /\ a \in Assets /\ listings[l].price \in Nat /\ listings[l].seller \in Users
      /\ order[o].buyer \in Users
  BY <1>1, ListingRow DEF ExternalInv, MarketInv, BooksOK, TypeOK, OrderInv,
                          OrderedByUsers, Known
<1>4. seller \in Users /\ buyer \in Users
  BY <1>3 DEF ExternalInv, MarketInv, BooksOK, TypeOK
<1>5. row \in Transfers /\ row.asset = a /\ row.seller = seller /\ row.buyer = buyer
  BY <1>3, <1>4 DEF Transfers
<1>6. Exchange!Holder(a) = seller
  BY <1>1, <1>4, UsersAssumption DEF Exchange!Holder
<1>7. \A m \in DOMAIN listings' : m \in DOMAIN listings
                                  /\ listings'[m].price = listings[m].price
  BY <1>1, <1>2, ClosedListing DEF Statuses, ExternalInv, MarketInv, BooksOK, TypeOK
<1>8. PricesKnown'
  BY <1>2, <1>7 DEF ChainInv, PricesKnown
<1> HIDE DEF row, seller, buyer
<1>9. TitleChain'
  BY <1>2, <1>3, <1>4, <1>5, <1>6, ChainGrows
     DEF ChainInv, ExternalInv, MarketInv, BooksOK
<1> QED
  BY <1>2, <1>8, <1>9 DEF ChainInv, RootsFixed

LEMMA NextChainInv ==
    ASSUME ControlPairs = {}, ExternalInv, ChainInv, [ExternalNext]_allVars
    PROVE  ChainInv'
<1>1. ASSUME [Next]_vars PROVE ChainInv'
  BY <1>1, NextChain, RootsStay, PricesStayKnown
     DEF ChainInv, ExternalInv, MarketInv, ExchangeInv
<1>2. CASE (Next /\ UNCHANGED <<order, received>>) \/ UNCHANGED allVars
  BY <1>1, <1>2 DEF allVars
<1>3. CASE OrderStep /\ ~ \E o \in Orders : FulfillListing(o) \/ FulfillPackage(o)
  BY <1>1, <1>3, OrderStepDelivers
<1>4. ASSUME NEW o \in Orders, FulfillPackage(o) PROVE ChainInv'
  <2>1. UNCHANGED <<root, owner, listings, ledger, bid>>
    BY <1>4 DEF FulfillPackage, titles
  <2> QED
    BY <2>1, ChainStays DEF ChainInv, RootsFixed, PricesKnown
<1>5. ASSUME NEW o \in Orders, FulfillListing(o) PROVE ChainInv'
  BY <1>5, DeliveryGrowsChain
<1> QED
  BY <1>2, <1>3, <1>4, <1>5 DEF ExternalNext

\* The provenance of a property stays unbroken, also where it was paid for
\* outside and whoever else was paying for it, while no account controls
\* another.
THEOREM ProvenanceWithPayments ==
    ASSUME ControlPairs = {}
    PROVE  ExternalSpec => []TitleChain
<1>1. ExternalInit => ChainInv
  BY InitChain, EmptySeq DEF ExternalInit, Init, ChainInv, RootsFixed, PricesKnown
<1>2. ExternalInv /\ ChainInv /\ [ExternalNext]_allVars => ChainInv'
  BY NextChainInv
<1>3. ChainInv => TitleChain
  BY DEF ChainInv
<1> QED
  BY <1>1, <1>2, <1>3, ExternalInvariant, PTL DEF ExternalSpec

-----------------------------------------------------------------------------
(* Credits.  A package is the only thing that brings any.                   *)

PackagesCounted ==
    /\ IsFiniteSet(References)
    /\ TotalWorth = SumFunctionOnSet(InitialCredits, Users)
                      + Package * Cardinality(References)

LEMMA PackageAdds ==
    ASSUME ExternalInv, NEW buyer \in Users,
           credits' = [credits EXCEPT ![buyer] = @ + Package], UNCHANGED hold
    PROVE  TotalWorth' = TotalWorth + Package
<1> DEFINE W == [u \in Users |-> Wealth(u)]
           V == [u \in Users |-> Wealth(u)']
<1>2. Package \in Nat /\ credits \in [Users -> Nat]
  BY ExternalAssumption DEF ExternalInv, MarketInv, BooksOK, TypeOK
<1>3. ASSUME NEW u \in Users
      PROVE  /\ Wealth(u) \in Nat /\ Wealth(u)' \in Int
             /\ u # buyer => Wealth(u)' = Wealth(u)
             /\ u = buyer => Wealth(u)' = Wealth(u) + Package
  <2>1. HeldIn(hold, u) \in Nat /\ Wealth(u) = credits[u] + HeldIn(hold, u)
    BY HeldInIsNat, WealthIsCreditsAndHolds DEF ExternalInv, MarketInv, BooksOK, TypeOK
  <2>2. Wealth(u)' = credits'[u] + HeldIn(hold, u)
    BY WealthIsCreditsAndHolds
  <2> QED
    BY <1>2, <2>1, <2>2
<1>4. /\ \A u \in Users : /\ W[u] \in Int /\ V[u] \in Int
                          /\ u # buyer => V[u] = W[u]
      /\ V[buyer] = W[buyer] + Package
  BY <1>2, <1>3
<1>5. TotalWorth = SumFunctionOnSet(W, Users) /\ TotalWorth' = SumFunctionOnSet(V, Users)
  BY DEF TotalWorth
<1> HIDE DEF W, V
<1>6. SumFunctionOnSet(V, Users) = SumFunctionOnSet(W, Users) + (V[buyer] - W[buyer])
  BY <1>4, SumChange, UsersAssumption
<1>7. SumFunctionOnSet(W, Users) \in Int
  BY <1>4, SumInt, UsersAssumption
<1> QED
  BY <1>2, <1>4, <1>5, <1>6, <1>7

LEMMA OneMorePackage ==
    ASSUME NEW n \in Nat, NEW k \in Int
    PROVE  k * (n + 1) = k * n + k
OBVIOUS

\* A delivery brings a package for a new transaction, and nothing for an old one.
LEMMA PackageCounted ==
    ASSUME ExternalInv, PackagesCounted, NEW o \in Orders, FulfillPackage(o)
    PROVE  PackagesCounted'
<1>1. References' = References \cup {order[o].reference} /\ order[o].buyer \in Users
  BY PackageDelivers
<1>2. CASE order[o].reference \in References
  <2>1. UNCHANGED <<credits, hold>>
    BY <1>2, PackageDelivers
  <2>2. TotalWorth' = TotalWorth
    BY <2>1 DEF TotalWorth, Wealth
  <2>3. References' = References
    BY <1>1, <1>2
  <2> QED
    BY <2>2, <2>3 DEF PackagesCounted
<1>3. CASE order[o].reference \notin References
  <2>1. TotalWorth' = TotalWorth + Package
    BY <1>3, PackageDelivers, PackageAdds
  <2>2. /\ IsFiniteSet(References')
        /\ Cardinality(References') = Cardinality(References) + 1
        /\ Cardinality(References) \in Nat
    BY <1>1, <1>3, FS_AddElement, FS_CardinalityType DEF PackagesCounted
  <2>3. PICK n \in Nat : n = Cardinality(References)
    BY <2>2
  <2>4. Package * (n + 1) = Package * n + Package /\ Package * n \in Int /\ Package \in Int
    BY OneMorePackage, ExternalAssumption
  <2>5. PICK first \in Int : first = SumFunctionOnSet(InitialCredits, Users)
    BY SumInt, UsersAssumption, AmountsAssumption
  <2>6. TotalWorth = first + Package * n
    BY <2>3, <2>5 DEF PackagesCounted
  <2>7. TotalWorth' = first + Package * (n + 1)
    BY <2>1, <2>4, <2>6
  <2>8. Cardinality(References)' = n + 1
    BY <2>2, <2>3
  <2> QED
    BY <2>2, <2>5, <2>7, <2>8 DEF PackagesCounted
<1> QED
  BY <1>2, <1>3

LEMMA NextPackages ==
    ASSUME ExternalInv, PackagesCounted, [ExternalNext]_allVars
    PROVE  PackagesCounted'
<1>1. CASE (Next /\ UNCHANGED <<order, received>>) \/ UNCHANGED allVars
  BY <1>1, NextConserves
     DEF allVars, PackagesCounted, References, PackagesDelivered, ExternalInv, MarketInv
<1>2. CASE OrderStep /\ ~ \E o \in Orders : FulfillListing(o) \/ FulfillPackage(o)
  <2>1. References' = References /\ UNCHANGED vars
    BY <1>2, OrderStepDelivers
  <2>2. TotalWorth' = TotalWorth
    BY <2>1, NextConserves DEF ExternalInv, MarketInv
  <2> QED
    BY <2>1, <2>2 DEF PackagesCounted
<1>3. ASSUME NEW o \in Orders, FulfillListing(o) PROVE PackagesCounted'
  <2>1. /\ UNCHANGED <<credits, hold>> /\ o \in ListingOrders
        /\ order' = [order EXCEPT ![o].status = "fulfilled"]
    BY <1>3 DEF FulfillListing, Deliverable, wallets
  <2>2. TotalWorth' = TotalWorth
    BY <2>1 DEF TotalWorth, Wealth
  <2>3. o \notin PackageOrders
    BY <2>1, BoundsAssumption DEF PackageOrders, ListingOrders, ListingIds
  <2>4. \A p \in PackageOrders : order'[p] = order[p]
    BY <2>1, <2>3 DEF Orders, ExternalInv, OrderInv, OrdersOK
  <2>5. References' = References
    BY <2>4 DEF References, PackagesDelivered
  <2> QED
    BY <2>2, <2>5 DEF PackagesCounted
<1> QED
  BY <1>1, <1>2, <1>3, PackageCounted DEF ExternalNext

\* No outside payment, sale, bid or hold makes or loses credits, but a package
\* does: its credits, once for each transaction.
THEOREM PackagesMakeCredits == ExternalSpec => []CreditsArePaidFor
<1>1. ASSUME ExternalInit PROVE PackagesCounted
  <2>1. PackagesDelivered = {}
    BY <1>1 DEF ExternalInit, PackagesDelivered, NoOrder, Orders
  <2>2. References = {}
    BY <2>1 DEF References
  <2>3. TotalWorth = SumFunctionOnSet(InitialCredits, Users)
    BY <1>1, InitWorth, SumSame, UsersAssumption DEF ExternalInit, TotalWorth
  <2>4. Package * 0 = 0 /\ SumFunctionOnSet(InitialCredits, Users) \in Int
    BY SumInt, UsersAssumption, AmountsAssumption, ExternalAssumption
  <2> QED
    BY <2>2, <2>3, <2>4, FS_EmptySet DEF PackagesCounted
<1>2. ExternalInv /\ PackagesCounted /\ [ExternalNext]_allVars => PackagesCounted'
  BY NextPackages
<1>3. PackagesCounted => CreditsArePaidFor
  <2>1. SumFunction([u \in Users |-> Wealth(u)]) = TotalWorth
    BY SumFunctionIs DEF TotalWorth
  <2>2. SumFunction(InitialCredits) = SumFunctionOnSet(InitialCredits, Users)
    BY SumFunctionIs, AmountsAssumption
  <2> QED
    BY <2>1, <2>2 DEF PackagesCounted, CreditsArePaidFor, References, PackagesDelivered
<1> QED
  BY <1>1, <1>2, <1>3, ExternalInvariant, PTL DEF ExternalSpec

-----------------------------------------------------------------------------
(* Escrow.  An order, its payment and its delivery touch no bid and no hold. *)

LEMMA OrdersLeaveBids == ASSUME ExternalInv, OrderStep PROVE UNCHANGED <<bid, hold>>
<1>1. CASE \E o \in Orders : FulfillListing(o) \/ FulfillPackage(o)
  BY <1>1 DEF FulfillListing, FulfillPackage, wallets
<1>2. CASE ~ \E o \in Orders : FulfillListing(o) \/ FulfillPackage(o)
  BY <1>2, OrderStepDelivers DEF vars
<1> QED
  BY <1>1, <1>2

\* Bids in the market stay funded, come back in full or buy, and are only
\* outbid, whatever is ordered, paid and delivered outside.
THEOREM EscrowWithPayments ==
    ExternalSpec => /\ [](FundedLeader /\ HoldsOnlyWhileOpen)
                    /\ HeldCreditsComeBack
                    /\ LeadingOfferRises
<1>1. ExternalInv => BooksOK /\ FundedLeader /\ HoldsOnlyWhileOpen
  BY DEF ExternalInv, MarketInv, BooksOK
<1>2. ExternalInv /\ [ExternalNext]_allVars =>
        [\A l \in ListingIds, u \in Users : hold[l][u] # 0 /\ hold'[l][u] = 0 =>
            \/ credits'[u] = credits[u] + hold[l][u]
            \/ owner'[listings[l].asset] = root[u]]_vars
  <2> SUFFICES ASSUME ExternalInv, [ExternalNext]_allVars,
                      NEW l \in ListingIds, NEW u \in Users,
                      hold[l][u] # 0, hold'[l][u] = 0
               PROVE  \/ credits'[u] = credits[u] + hold[l][u]
                      \/ owner'[listings[l].asset] = root[u]
    OBVIOUS
  <2>1. CASE [Next]_vars
    BY <1>1, <2>1, HoldsComeBack
  <2>2. CASE OrderStep
    BY <2>2, OrdersLeaveBids
  <2> QED
    BY <2>1, <2>2 DEF ExternalNext, allVars
<1>3. ExternalInv /\ [ExternalNext]_allVars =>
        [\A l \in ListingIds, u \in Users : Active(l) /\ Active(l)' =>
            \E v \in Users : bid'[l][v] >= bid[l][u]]_vars
  <2> SUFFICES ASSUME ExternalInv, [ExternalNext]_allVars,
                      NEW l \in ListingIds, NEW u \in Users, Active(l), Active(l)'
               PROVE  \E v \in Users : bid'[l][v] >= bid[l][u]
    OBVIOUS
  <2>1. CASE [Next]_vars
    BY <1>1, <2>1, OfferRises
  <2>2. CASE OrderStep
    <3>1. bid' = bid /\ bid[l][u] \in Nat
      BY <1>1, <2>2, OrdersLeaveBids DEF BooksOK, TypeOK
    <3> QED
      BY <3>1
  <2> QED
    BY <2>1, <2>2 DEF ExternalNext, allVars
<1> QED
  BY <1>1, <1>2, <1>3, ExternalInvariant, PTL
     DEF ExternalSpec, HeldCreditsComeBack, LeadingOfferRises

=============================================================================
