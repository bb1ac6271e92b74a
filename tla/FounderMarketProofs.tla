------------------------- MODULE FounderMarketProofs -------------------------
(***************************************************************************)
(* Proofs about FounderMarket for every set of users and properties, every *)
(* offer and every bound on the listings.                                  *)
(***************************************************************************)
EXTENDS FounderMarket, SumTheorems, SequenceTheorems

Statuses == {"active", "sold", "expired", "cancelled"}

\* A listing's row and what its columns hold.
LEMMA ListingRow ==
    ASSUME listings \in Seq(Listing), NEW l \in DOMAIN listings
    PROVE  /\ l \in 1..Len(listings)
           /\ listings[l] \in Listing
           /\ listings[l].asset \in Assets
           /\ listings[l].seller \in Users
           /\ listings[l].lane \in Lanes
           /\ listings[l].sale \in Sales
           /\ listings[l].price \in Nat
           /\ listings[l].ended \in BOOLEAN
<1>1. l \in 1..Len(listings)
  BY LenProperties
<1>2. listings[l] \in Listing
  BY <1>1, ElementOfSeq
<1> QED
  BY <1>1, <1>2 DEF Listing

\* Closing a listing changes its status and nothing else of any listing.
LEMMA ClosedListing ==
    ASSUME listings \in Seq(Listing), NEW l \in DOMAIN listings,
           NEW s \in Statuses, Close(l, s)
    PROVE  /\ listings' \in Seq(Listing)
           /\ Len(listings') = Len(listings)
           /\ DOMAIN listings' = DOMAIN listings
           /\ \A m \in DOMAIN listings : m # l => listings'[m] = listings[m]
           /\ listings'[l].status = s
           /\ listings'[l].asset = listings[l].asset
           /\ listings'[l].seller = listings[l].seller
           /\ listings'[l].sale = listings[l].sale
           /\ listings'[l].lane = listings[l].lane
           /\ listings'[l].price = listings[l].price
<1> DEFINE e == [listings[l] EXCEPT !.status = s]
<1>1. listings[l] \in Listing
  BY ListingRow
<1>2. e \in Listing
  BY <1>1 DEF Listing, Statuses
<1>3. listings' = [listings EXCEPT ![l] = e]
  BY DEF Close
<1> HIDE DEF e
<1>4. l \in 1..Len(listings)
  BY LenProperties
<1>5. /\ listings' \in Seq(Listing)
      /\ Len(listings') = Len(listings)
      /\ \A j \in 1..Len(listings) : listings'[j] = IF j = l THEN e ELSE listings[j]
  BY <1>2, <1>3, <1>4, ExceptSeq
<1>6. DOMAIN listings' = 1..Len(listings) /\ DOMAIN listings = 1..Len(listings)
  BY <1>5, LenProperties
<1>7. /\ e.status = s
      /\ e.asset = listings[l].asset
      /\ e.seller = listings[l].seller
      /\ e.sale = listings[l].sale
      /\ e.lane = listings[l].lane
      /\ e.price = listings[l].price
  BY <1>1 DEF e, Listing
<1> QED
  BY <1>4, <1>5, <1>6, <1>7

\* What the operations preserve: the type invariant, and facts that hold each
\* other up.  A close may settle one bid because there is at most one; a
\* listing may leave the market because no funded bid stays behind; and the
\* title may move with it because the property has no other active listing.
\* The books of bids and holds are kept whatever the statuses of the
\* properties are: vending changes those, so they come apart.
BooksOK ==
    /\ TypeOK
    /\ FundedLeader
    /\ HoldsOnlyWhileOpen

MarketInv ==
    /\ BooksOK
    /\ ListedMeansForSale

LEMMA InitMarketInv == Init => MarketInv
<1> SUFFICES ASSUME Init PROVE MarketInv
  OBVIOUS
<1>1. /\ listings = <<>> /\ listings \in Seq(Listing) /\ Len(listings) = 0
      /\ DOMAIN listings = {}
  BY EmptySeq, LenProperties DEF Init
<1>2. ledger \in Seq(Transfers)
  BY EmptySeq DEF Init
<1>3. status \in [Assets -> {"available", "owned", "treasury"}]
  BY DEF Init
<1>4. TypeOK
  BY <1>1, <1>2, <1>3, UsersAssumption, OwnersAssumption, AmountsAssumption,
     BoundsAssumption DEF TypeOK, Init
<1>5. FundedLeader /\ HoldsOnlyWhileOpen
  BY DEF FundedLeader, HoldsOnlyWhileOpen, Init
<1>6. ListedMeansForSale
  BY <1>1, <1>3 DEF ListedMeansForSale
<1> QED
  BY <1>4, <1>5, <1>6 DEF MarketInv, BooksOK

\* A listing l leaves the market: its property is not called listed any more,
\* the others are as they were, and no hold on l remains.
LEMMA ListingClosed ==
    ASSUME BooksOK,
           NEW l \in DOMAIN listings, Active(l),
           NEW s \in Statuses \ {"active"}, Close(l, s),
           status'[listings[l].asset] # "listed",
           \A b \in Assets : b # listings[l].asset =>
               status'[b] = status[b] /\ owner'[b] = owner[b],
           \A m \in ListingIds, u \in Users :
               hold'[m][u] # 0 => m # l /\ hold[m][u] # 0
    PROVE  /\ listings' \in Seq(Listing)
           /\ Len(listings') <= MaxListings
           /\ HoldsOnlyWhileOpen'
           /\ (ListedMeansForSale => ListedMeansForSale')
<1>1. \A m \in DOMAIN listings : listings[m].asset \in Assets
  BY ListingRow DEF BooksOK, TypeOK
<1>2. /\ listings' \in Seq(Listing)
      /\ Len(listings') = Len(listings)
      /\ DOMAIN listings' = DOMAIN listings
      /\ \A m \in DOMAIN listings : m # l => listings'[m] = listings[m]
      /\ listings'[l].status = s
      /\ listings'[l].asset = listings[l].asset
  BY ClosedListing DEF BooksOK, TypeOK
<1>3. \A m : Active(m)' <=> Active(m) /\ m # l
  BY <1>2 DEF Active
<1>4. HoldsOnlyWhileOpen'
  BY <1>2, <1>3 DEF BooksOK, HoldsOnlyWhileOpen, Active
<1>6. \A m \in DOMAIN listings : listings'[m].asset = listings[m].asset
  BY <1>2
<1>7. ASSUME ListedMeansForSale PROVE ListedMeansForSale'
  <2>0. \A m \in DOMAIN listings :
            Active(m)' => listings[m].asset # listings[l].asset
    BY <1>3, <1>7 DEF ListedMeansForSale
  <2>1. \A m, n \in DOMAIN listings' : Active(m)' /\ Active(n)'
            /\ listings'[m].asset = listings'[n].asset => m = n
    BY <1>2, <1>3, <1>6, <1>7 DEF ListedMeansForSale
  <2>2. ASSUME NEW b \in Assets
        PROVE  status'[b] = "listed" <=>
                  \E m \in DOMAIN listings' : Active(m)' /\ listings'[m].asset = b
    <3>1. CASE b = listings[l].asset
      BY <3>1, <1>2, <2>0, <1>6
    <3>2. CASE b # listings[l].asset
      <4>1. status[b] = "listed" <=>
               \E m \in DOMAIN listings : Active(m) /\ listings[m].asset = b
        BY <1>7 DEF ListedMeansForSale
      <4> QED
        BY <3>2, <4>1, <1>2, <1>3, <1>6
    <3> QED
      BY <3>1, <3>2
  <2>3. ASSUME NEW m \in DOMAIN listings', Active(m)'
        PROVE  owner'[listings'[m].asset] = listings'[m].seller
    <3>1. m \in DOMAIN listings /\ m # l /\ Active(m)
      BY <2>3, <1>2, <1>3
    <3>2. owner[listings[m].asset] = listings[m].seller
      BY <3>1, <1>7 DEF ListedMeansForSale
    <3>3. /\ listings[m].asset \in Assets
          /\ listings[m].asset # listings[l].asset
          /\ listings'[m] = listings[m]
      BY <2>3, <3>1, <1>1, <1>2, <2>0
    <3>4. owner'[listings[m].asset] = owner[listings[m].asset]
      BY <3>3
    <3> QED
      BY <3>2, <3>3, <3>4
  <2> QED
    BY <2>1, <2>2, <2>3 DEF ListedMeansForSale
<1> QED
  BY <1>2, <1>4, <1>7 DEF BooksOK, TypeOK

\* A sale of l: its title is conveyed, its listing closed and its bids gone.
LEMMA SoldListing ==
    ASSUME BooksOK,
           NEW l \in DOMAIN listings, Active(l),
           NEW seller \in Users, NEW buyer \in Users,
           NEW price \in Nat, NEW fee \in Nat,
           Convey(listings[l].asset, seller, buyer, price, fee),
           Close(l, "sold"),
           credits' \in [Users -> Nat],
           bid' \in [ListingIds -> [Users -> Nat]],
           hold' \in [ListingIds -> [Users -> Nat]],
           FundedLeader',
           \A m \in ListingIds, u \in Users :
               hold'[m][u] # 0 => m # l /\ hold[m][u] # 0,
           root' = root
    PROVE  BooksOK' /\ (ListedMeansForSale => ListedMeansForSale')
<1>1. listings[l].asset \in Assets
  BY ListingRow DEF BooksOK, TypeOK
<1>2. /\ status'[listings[l].asset] = "owned"
      /\ \A b \in Assets : b # listings[l].asset =>
            status'[b] = status[b] /\ owner'[b] = owner[b]
      /\ owner' \in [Assets -> Users \cup {NoUser}]
      /\ status' \in [Assets -> {"available", "owned", "listed", "reserved",
                                 "treasury"}]
  BY <1>1 DEF Convey, MoveTitle, BooksOK, TypeOK
<1>3. ledger' \in Seq(Transfers)
  <2> DEFINE t == [asset |-> listings[l].asset, seller |-> seller,
                   buyer |-> buyer, price |-> price, fee |-> fee]
  <2>1. t \in Transfers
    BY <1>1 DEF Transfers
  <2>2. ledger' = Append(ledger, t)
    BY DEF Convey
  <2> HIDE DEF t
  <2> QED
    BY <2>1, <2>2, AppendProperties DEF BooksOK, TypeOK
<1>4. /\ listings' \in Seq(Listing)
      /\ Len(listings') <= MaxListings
      /\ HoldsOnlyWhileOpen'
      /\ (ListedMeansForSale => ListedMeansForSale')
  BY <1>2, ListingClosed DEF Statuses
<1> QED
  BY <1>2, <1>3, <1>4 DEF BooksOK, TypeOK

\* Rows enter the market: active listings by their owners of distinct
\* properties that had none.
LEMMA ListingsAdded ==
    ASSUME BooksOK,
           NEW rows \in Seq(Listing),
           listings' = listings \o rows,
           Len(listings) + Len(rows) <= MaxListings,
           \A k \in DOMAIN rows :
               /\ rows[k].status = "active"
               /\ rows[k].seller = owner[rows[k].asset]
               /\ ~ HasActiveListing(rows[k].asset),
           \A j, k \in DOMAIN rows : rows[j].asset = rows[k].asset => j = k,
           status' = [a \in Assets |-> IF \E k \in DOMAIN rows : rows[k].asset = a
                                         THEN "listed" ELSE status[a]],
           UNCHANGED <<wallets, root, owner, ledger>>
    PROVE  BooksOK' /\ (ListedMeansForSale => ListedMeansForSale')
<1>0. PICK n \in Nat : n = Len(listings)
  BY LenProperties DEF BooksOK, TypeOK
<1>1. /\ DOMAIN listings = 1..n /\ n \in Nat
      /\ DOMAIN rows = 1..Len(rows) /\ Len(rows) \in Nat
  BY <1>0, LenProperties DEF BooksOK, TypeOK
<1>2. /\ listings' \in Seq(Listing)
      /\ Len(listings') = n + Len(rows)
      /\ \A i \in 1..n + Len(rows) :
            listings'[i] = IF i <= n THEN listings[i] ELSE rows[i - n]
  BY <1>0, ConcatProperties DEF BooksOK, TypeOK
<1>3. DOMAIN listings' = 1..n + Len(rows)
  BY <1>2, LenProperties
<1>4. \A m \in DOMAIN listings :
         m \in DOMAIN listings' /\ listings'[m] = listings[m]
  BY <1>1, <1>2, <1>3
<1>5. \A k \in DOMAIN rows :
         n + k \in DOMAIN listings' /\ listings'[n + k] = rows[k]
  BY <1>1, <1>2, <1>3
<1>6. \A m \in DOMAIN listings' :
         m \in DOMAIN listings \/ \E k \in DOMAIN rows : m = n + k
  <2> SUFFICES ASSUME NEW m \in DOMAIN listings', m \notin DOMAIN listings
               PROVE  \E k \in DOMAIN rows : m = n + k
    OBVIOUS
  <2>1. m - n \in DOMAIN rows /\ m = n + (m - n)
    BY <1>1, <1>3
  <2> QED
    BY <2>1
<1>7. \A m \in DOMAIN listings : Active(m)' <=> Active(m)
  BY <1>4 DEF Active
<1>8. ASSUME NEW k \in DOMAIN rows PROVE Active(n + k)'
  <2>1. n + k \in DOMAIN listings' /\ listings'[n + k] = rows[k]
    BY <1>5
  <2>2. rows[k].status = "active"
    OBVIOUS
  <2> QED
    BY <2>1, <2>2 DEF Active
<1>9. status' \in [Assets -> {"available", "owned", "listed", "reserved",
                              "treasury"}]
  BY DEF BooksOK, TypeOK
<1>10. TypeOK'
  BY <1>0, <1>1, <1>2, <1>9 DEF BooksOK, TypeOK, wallets
<1>11. FundedLeader'
  BY DEF BooksOK, FundedLeader, wallets
<1>12. HoldsOnlyWhileOpen'
  BY <1>4, <1>7 DEF BooksOK, HoldsOnlyWhileOpen, Active, wallets
<1>13. ASSUME ListedMeansForSale PROVE ListedMeansForSale'
  <2>1. \A m \in DOMAIN listings, k \in DOMAIN rows :
           Active(m) => listings[m].asset # rows[k].asset
    BY DEF HasActiveListing
  <2>2. ASSUME NEW m \in DOMAIN listings', NEW j \in DOMAIN listings',
               Active(m)', Active(j)', listings'[m].asset = listings'[j].asset
        PROVE  m = j
    <3>1. CASE m \in DOMAIN listings /\ j \in DOMAIN listings
      BY <2>2, <3>1, <1>4, <1>7, <1>13 DEF ListedMeansForSale
    <3>2. CASE m \in DOMAIN listings /\ j \notin DOMAIN listings
      BY <2>1, <2>2, <3>2, <1>4, <1>5, <1>6, <1>7
    <3>3. CASE m \notin DOMAIN listings /\ j \in DOMAIN listings
      BY <2>1, <2>2, <3>3, <1>4, <1>5, <1>6, <1>7
    <3>4. CASE m \notin DOMAIN listings /\ j \notin DOMAIN listings
      <4>1. PICK k \in DOMAIN rows : m = n + k
        BY <3>4, <1>6
      <4>2. PICK i \in DOMAIN rows : j = n + i
        BY <3>4, <1>6
      <4>3. rows[k].asset = rows[i].asset
        BY <2>2, <4>1, <4>2, <1>5
      <4> QED
        BY <4>1, <4>2, <4>3
    <3> QED
      BY <3>1, <3>2, <3>3, <3>4
  <2>3. ASSUME NEW a \in Assets
        PROVE  status'[a] = "listed" <=>
                  \E m \in DOMAIN listings' : Active(m)' /\ listings'[m].asset = a
    <3>1. status[a] = "listed" <=>
             \E m \in DOMAIN listings : Active(m) /\ listings[m].asset = a
      BY <1>13 DEF ListedMeansForSale
    <3>2. CASE \E k \in DOMAIN rows : rows[k].asset = a
      <4>1. PICK k \in DOMAIN rows : rows[k].asset = a
        BY <3>2
      <4>2. /\ n + k \in DOMAIN listings'
            /\ Active(n + k)'
            /\ listings'[n + k].asset = a
        BY <4>1, <1>5, <1>8
      <4>3. status'[a] = "listed"
        BY <4>1
      <4> QED
        BY <4>2, <4>3
    <3>3. CASE ~ \E k \in DOMAIN rows : rows[k].asset = a
      BY <3>1, <3>3, <1>4, <1>5, <1>6, <1>7
    <3> QED
      BY <3>2, <3>3
  <2>4. ASSUME NEW m \in DOMAIN listings', Active(m)'
        PROVE  owner'[listings'[m].asset] = listings'[m].seller
    <3>1. CASE m \in DOMAIN listings
      BY <2>4, <3>1, <1>4, <1>7, <1>13 DEF ListedMeansForSale
    <3>2. CASE m \notin DOMAIN listings
      BY <3>2, <1>5, <1>6
    <3> QED
      BY <3>1, <3>2
  <2> QED
    BY <2>2, <2>3, <2>4 DEF ListedMeansForSale
<1> QED
  BY <1>10, <1>11, <1>12, <1>13 DEF BooksOK

-----------------------------------------------------------------------------
(* One lemma per operation.                                                *)

LEMMA CreateListingStep ==
    ASSUME BooksOK, NEW a \in Assets, NEW u \in Users, NEW sale \in Sales,
           NEW price \in Offers, CreateListing(a, u, sale, price)
    PROVE  BooksOK' /\ (ListedMeansForSale => ListedMeansForSale')
<1> DEFINE row == NewListing(a, root[u], "none", sale, price)
<1>1. /\ row \in Listing
      /\ row.status = "active" /\ row.asset = a /\ row.seller = root[u]
  BY AmountsAssumption DEF NewListing, Listing, Lanes, BooksOK, TypeOK
<1>2. listings' = Append(listings, row)
  BY DEF CreateListing
<1> HIDE DEF row
<1>3. PICK r \in Listing : r = row
  BY <1>1
<1> DEFINE rows == <<r>>
<1>4. rows \in Seq(Listing) /\ Len(rows) = 1 /\ DOMAIN rows = {1} /\ rows[1] = r
  OBVIOUS
<1>5. listings' = listings \o rows
  BY <1>2, <1>3, AppendIsConcat DEF BooksOK, TypeOK
<1>6. Len(listings) + Len(rows) <= MaxListings
  BY <1>4, LenProperties, BoundsAssumption DEF CreateListing, BooksOK, TypeOK
<1>7. status' = [b \in Assets |-> IF \E k \in DOMAIN rows : rows[k].asset = b
                                    THEN "listed" ELSE status[b]]
  BY <1>1, <1>3, <1>4 DEF CreateListing, BooksOK, TypeOK
<1>8. /\ \A k \in DOMAIN rows :
            /\ rows[k].status = "active"
            /\ rows[k].seller = owner[rows[k].asset]
            /\ ~ HasActiveListing(rows[k].asset)
      /\ \A j, k \in DOMAIN rows : rows[j].asset = rows[k].asset => j = k
  BY <1>1, <1>3, <1>4 DEF CreateListing
<1>9. UNCHANGED <<wallets, root, owner, ledger>>
  BY DEF CreateListing
<1> HIDE DEF rows
<1> QED
  BY <1>4, <1>5, <1>6, <1>7, <1>8, <1>9, ListingsAdded

LEMMA CancelListingStep ==
    ASSUME BooksOK, NEW l \in DOMAIN listings, NEW u \in Users,
           CancelListing(l, u)
    PROVE  BooksOK' /\ (ListedMeansForSale => ListedMeansForSale')
<1>1. /\ listings[l].asset \in Assets
      /\ l \in ListingIds
  BY ListingRow, LenProperties, BoundsAssumption DEF BooksOK, TypeOK, ListingIds
<1>2. /\ status'[listings[l].asset] # "listed"
      /\ \A b \in Assets : b # listings[l].asset => status'[b] = status[b]
      /\ status' \in [Assets -> {"available", "owned", "listed", "reserved",
                                 "treasury"}]
      /\ UNCHANGED <<credits, bid, hold, root, owner, ledger>>
  BY <1>1 DEF CancelListing, BooksOK, TypeOK, wallets
<1>3. \A x \in Users : hold[l][x] = 0
  BY <1>1 DEF CancelListing, BooksOK, HoldsOnlyWhileOpen, FundedLeader, NoBids
<1>4. \A m \in ListingIds, x \in Users :
         hold'[m][x] # 0 => m # l /\ hold[m][x] # 0
  BY <1>2, <1>3
<1>5. Active(l) /\ Close(l, "cancelled")
  BY DEF CancelListing
<1>6. /\ listings' \in Seq(Listing) /\ Len(listings') <= MaxListings
      /\ HoldsOnlyWhileOpen'
      /\ (ListedMeansForSale => ListedMeansForSale')
  BY <1>2, <1>4, <1>5, ListingClosed DEF Statuses
<1>7. FundedLeader'
  BY <1>2 DEF BooksOK, FundedLeader
<1> QED
  BY <1>2, <1>6, <1>7 DEF BooksOK, TypeOK

\* A purchase takes no hold, and the listing it closes has none: it is fixed.
LEMMA FixedSaleHolds ==
    ASSUME BooksOK, NEW l \in DOMAIN listings, listings[l].sale = "fixed",
           UNCHANGED <<bid, hold>>
    PROVE  /\ \A m \in ListingIds, u \in Users :
                 hold'[m][u] # 0 => m # l /\ hold[m][u] # 0
           /\ FundedLeader'
           /\ bid' \in [ListingIds -> [Users -> Nat]]
           /\ hold' \in [ListingIds -> [Users -> Nat]]
BY DEF BooksOK, TypeOK, FundedLeader, HoldsOnlyWhileOpen

LEMMA FeeIsNat == ASSUME NEW price \in Nat
                  PROVE  Fee(price) \in Nat /\ price - Fee(price) \in Nat
BY DEF Fee

\* No wallet is negative after the proceeds and the fee are paid.
LEMMA PaidIsNat ==
    ASSUME NEW c \in [Users -> Nat], NEW seller \in Users,
           NEW price, NEW fee \in Nat, price - fee \in Nat
    PROVE  Paid(c, seller, price, fee) \in [Users -> Nat]
<1> DEFINE proceeds == price - fee
           d == [c EXCEPT ![seller] = @ + proceeds]
<1>1. d \in [Users -> Nat]
  <2>1. proceeds \in Nat
    OBVIOUS
  <2> HIDE DEF proceeds
  <2> QED
    BY <2>1
<1>2. Paid(c, seller, price, fee) = [d EXCEPT ![Plat] = @ + fee]
  BY DEF Paid
<1> HIDE DEF d
<1> QED
  BY <1>1, <1>2, UsersAssumption

LEMMA PurchaseP2PFixedStep ==
    ASSUME BooksOK, NEW l \in DOMAIN listings, NEW u \in Users,
           PurchaseP2PFixed(l, u)
    PROVE  BooksOK' /\ (ListedMeansForSale => ListedMeansForSale')
<1> DEFINE a == listings[l].asset
           price == listings[l].price
           seller == root[owner[a]]
           buyer == root[root[u]]
<1>1. a \in Assets /\ price \in Nat
  BY ListingRow DEF BooksOK, TypeOK
<1>2. TransferOwnership(a, root[u], price)
  BY DEF PurchaseP2PFixed
<1>3. owner[a] \in Users
  BY <1>1, <1>2 DEF TransferOwnership, BooksOK, TypeOK
<1>4. seller \in Users /\ buyer \in Users
  BY <1>3 DEF BooksOK, TypeOK
<1>5. Fee(price) \in Nat /\ price - Fee(price) \in Nat
  BY <1>1, FeeIsNat
<1>6. credits' \in [Users -> Nat]
  <2>1. /\ CanPay(buyer, price)
        /\ credits' = Paid([credits EXCEPT ![buyer] = @ - price], seller,
                           price, Fee(price))
    BY <1>2 DEF TransferOwnership
  <2>2. [credits EXCEPT ![buyer] = @ - price] \in [Users -> Nat]
    BY <1>1, <1>4, <2>1 DEF CanPay, BooksOK, TypeOK
  <2> QED
    BY <1>4, <1>5, <2>1, <2>2, PaidIsNat
<1>7. /\ Convey(a, seller, buyer, price, Fee(price))
      /\ Active(l) /\ Close(l, "sold") /\ root' = root
      /\ listings[l].sale = "fixed" /\ UNCHANGED <<bid, hold>>
  BY <1>2 DEF PurchaseP2PFixed, TransferOwnership
<1> HIDE DEF seller, buyer, price
<1> QED
  BY <1>1, <1>4, <1>5, <1>6, <1>7, FixedSaleHolds, SoldListing

LEMMA PurchaseTiendaFixedStep ==
    ASSUME BooksOK, NEW l \in DOMAIN listings, NEW u \in Users,
           PurchaseTiendaFixed(l, u)
    PROVE  BooksOK' /\ (ListedMeansForSale => ListedMeansForSale')
<1> DEFINE a == listings[l].asset
           price == listings[l].price
           buyer == root[u]
<1>1. a \in Assets /\ price \in Nat
  BY ListingRow DEF BooksOK, TypeOK
<1>2. buyer \in Users
  BY DEF BooksOK, TypeOK
<1>3. credits' \in [Users -> Nat]
  <2>1. /\ CanPay(buyer, price)
        /\ credits' = Paid([credits EXCEPT ![buyer] = @ - price], Plat, price, 0)
    BY DEF PurchaseTiendaFixed
  <2>2. [credits EXCEPT ![buyer] = @ - price] \in [Users -> Nat]
    BY <1>1, <1>2, <2>1 DEF CanPay, BooksOK, TypeOK
  <2>3. 0 \in Nat /\ price - 0 \in Nat
    BY <1>1
  <2> HIDE DEF price, buyer
  <2> QED
    BY <2>1, <2>2, <2>3, UsersAssumption, PaidIsNat
<1>4. /\ Convey(a, Plat, buyer, price, 0)
      /\ Active(l) /\ Close(l, "sold") /\ root' = root
      /\ listings[l].sale = "fixed" /\ UNCHANGED <<bid, hold>>
  BY DEF PurchaseTiendaFixed
<1> HIDE DEF buyer, price
<1> QED
  BY <1>1, <1>2, <1>3, <1>4, UsersAssumption, FixedSaleHolds, SoldListing

LEMMA MissingIsNat ==
    ASSUME listings \in Seq(Listing), NEW lane, NEW target \in Nat
    PROVE  Missing(lane, target) \in Nat
<1>1. DOMAIN listings = 1..Len(listings) /\ Len(listings) \in Nat
  BY LenProperties
<1>2. IsFiniteSet(1..Len(listings))
  BY <1>1, FS_Interval
<1>3. ActiveInLane(lane) \subseteq 1..Len(listings)
  BY <1>1 DEF ActiveInLane
<1>4. Cardinality(ActiveInLane(lane)) \in Nat
  BY <1>2, <1>3, FS_Subset, FS_CardinalityType
<1> QED
  BY <1>4 DEF Missing

\* What a run of the replenishment adds
LEMMA ReplenishRows ==
    ASSUME BooksOK,
           NEW fx \in [1..Missing("fixed", FixedTarget) -> Assets],
           NEW bl \in [1..Missing("blind", BlindTarget) -> Assets],
           NEW sw \in [1..Missing("swamp", SwampTarget) -> Assets],
           Replenish(fx, bl, sw)
    PROVE  /\ \E rows \in Seq(Listing) :
                 /\ listings' = listings \o rows
                 /\ Len(listings) + Len(rows) <= MaxListings
                 /\ \A k \in DOMAIN rows :
                       /\ rows[k].status = "active"
                       /\ rows[k].seller = owner[rows[k].asset]
                       /\ Eligible(rows[k].asset)
                       /\ rows[k].price \in SalePrices
                 /\ \A j, k \in DOMAIN rows : rows[j].asset = rows[k].asset => j = k
                 /\ status' = [a \in Assets |->
                                  IF \E k \in DOMAIN rows : rows[k].asset = a
                                  THEN "listed" ELSE status[a]]
           /\ UNCHANGED <<wallets, root, owner, ledger>>
<1> DEFINE picked == fx \o bl \o sw
           lane(i) == CASE i <= Len(fx) -> "fixed"
                        [] i > Len(fx) + Len(bl) -> "swamp"
                        [] OTHER -> "blind"
           added == [i \in DOMAIN picked |-> TiendaListing(picked[i], lane(i))]
<1>1. fx \in Seq(Assets) /\ bl \in Seq(Assets) /\ sw \in Seq(Assets)
  <2>1. \A n \in Nat : [1..n -> Assets] \subseteq Seq(Assets)
    OBVIOUS
  <2>2. listings \in Seq(Listing)
    BY DEF BooksOK, TypeOK
  <2>3. /\ Missing("fixed", FixedTarget) \in Nat
        /\ Missing("blind", BlindTarget) \in Nat
        /\ Missing("swamp", SwampTarget) \in Nat
    BY <2>2, MissingIsNat, BoundsAssumption
  <2> QED
    BY <2>1, <2>3
<1>2. picked \in Seq(Assets)
  BY <1>1, ConcatProperties
<1>3. DOMAIN picked = 1..Len(picked) /\ Len(picked) \in Nat
  BY <1>2, LenProperties
<1>4. \A i \in DOMAIN picked : picked[i] \in Assets
  BY <1>2, <1>3, ElementOfSeq
<1>5. /\ Len(listings) + Len(picked) <= MaxListings
      /\ \A i, j \in DOMAIN picked : picked[i] = picked[j] => i = j
      /\ \A i \in DOMAIN picked : Eligible(picked[i]) /\ owner[picked[i]] # NoUser
      /\ listings' = listings \o added
      /\ status' = [a \in Assets |-> IF \E i \in DOMAIN picked : picked[i] = a
                                       THEN "listed" ELSE status[a]]
      /\ UNCHANGED <<wallets, root, owner, ledger>>
  BY DEF Replenish
<1>6. \A i : lane(i) \in Lanes
  BY DEF Lanes
<1> HIDE DEF picked, lane
<1>7. ASSUME NEW i \in DOMAIN picked
      PROVE  /\ added[i] \in Listing
             /\ added[i].status = "active"
             /\ added[i].asset = picked[i]
             /\ added[i].seller = owner[picked[i]]
             /\ added[i].price \in SalePrices
  <2>1. owner[picked[i]] \in Users
    BY <1>4, <1>5 DEF BooksOK, TypeOK
  <2>2. Floor[picked[i]] \in Nat
    BY <1>4, AmountsAssumption
  <2>3. LanePrice(picked[i], lane(i)) \in Nat
    BY <2>2 DEF LanePrice, MinTransfer
  <2>4. LanePrice(picked[i], lane(i)) \in SalePrices
    BY <1>4, <1>6 DEF SalePrices
  <2> QED
    BY <1>4, <1>6, <2>1, <2>3, <2>4
       DEF TiendaListing, NewListing, Listing, Sales
<1>8. added \in Seq(Listing) /\ Len(added) = Len(picked) /\ DOMAIN added = DOMAIN picked
  BY <1>3, <1>7
<1> HIDE DEF added
<1>9. PICK rows \in Seq(Listing) : rows = added
  BY <1>8
<1>10. /\ \A k \in DOMAIN rows :
            /\ rows[k].status = "active"
            /\ rows[k].seller = owner[rows[k].asset]
            /\ Eligible(rows[k].asset)
            /\ rows[k].price \in SalePrices
       /\ \A j, k \in DOMAIN rows : rows[j].asset = rows[k].asset => j = k
  BY <1>5, <1>7, <1>8, <1>9
<1>11. status' = [a \in Assets |-> IF \E k \in DOMAIN rows : rows[k].asset = a
                                     THEN "listed" ELSE status[a]]
  <2>1. \A a \in Assets : (\E i \in DOMAIN picked : picked[i] = a)
                              <=> (\E k \in DOMAIN rows : rows[k].asset = a)
    BY <1>7, <1>8, <1>9
  <2> QED
    BY <1>5, <2>1
<1> QED
  BY <1>5, <1>8, <1>9, <1>10, <1>11

LEMMA ReplenishStep ==
    ASSUME BooksOK,
           NEW fx \in [1..Missing("fixed", FixedTarget) -> Assets],
           NEW bl \in [1..Missing("blind", BlindTarget) -> Assets],
           NEW sw \in [1..Missing("swamp", SwampTarget) -> Assets],
           Replenish(fx, bl, sw)
    PROVE  BooksOK' /\ (ListedMeansForSale => ListedMeansForSale')
BY ReplenishRows, ListingsAdded DEF Eligible

LEMMA PlaceBlindBidStep ==
    ASSUME BooksOK, NEW l \in DOMAIN listings, NEW b \in Users,
           NEW amount \in Offers, PlaceBlindBid(l, b, amount)
    PROVE  BooksOK' /\ (ListedMeansForSale => ListedMeansForSale')
<1> DEFINE r == root[b]
<1>1. l \in ListingIds /\ r \in Users /\ amount \in Nat
  <2>1. l \in 1..Len(listings)
    BY ListingRow DEF BooksOK, TypeOK
  <2>2. l \in ListingIds
    BY <2>1, LenProperties, BoundsAssumption DEF BooksOK, TypeOK, ListingIds
  <2>3. r \in Users
    BY DEF BooksOK, TypeOK
  <2> QED
    BY <2>2, <2>3, AmountsAssumption
<1>2. /\ Active(l) /\ listings[l].sale = "blind" /\ amount >= MinTransfer
      /\ Leads(l, r, amount)
      /\ CanPay(r, Additional(l, r, amount))
      /\ credits' = [u \in Users |->
                        IF u = r THEN credits[u] - Additional(l, r, amount)
                        ELSE credits[u] + Released(l, r, amount, u)]
      /\ bid' = AfterOffer(bid, l, r, amount)
      /\ hold' = AfterOffer(hold, l, r, amount)
      /\ UNCHANGED <<root, owner, status, listings, ledger>>
  BY DEF PlaceBlindBid, titles
<1> HIDE DEF r
<1>3. bid \in [ListingIds -> [Users -> Nat]] /\ hold \in [ListingIds -> [Users -> Nat]]
  BY DEF BooksOK, TypeOK
<1>4. \A u \in Users \ {r} : bid[l][u] # 0 => u \in Outbid(l, r, amount)
  BY <1>1, <1>2 DEF Leads, Outbid
<1>5. ASSUME NEW f \in [ListingIds -> [Users -> Nat]], f = bid \/ f = hold
      PROVE  /\ AfterOffer(f, l, r, amount) \in [ListingIds -> [Users -> Nat]]
             /\ \A m \in ListingIds : m # l =>
                   AfterOffer(f, l, r, amount)[m] = f[m]
             /\ \A u \in Users : AfterOffer(f, l, r, amount)[l][u] =
                                    IF u = r THEN amount ELSE 0
  <2>1. \A u \in Users \ {r} : u \notin Outbid(l, r, amount) => f[l][u] = 0
    BY <1>1, <1>3, <1>4, <1>5 DEF BooksOK, FundedLeader
  <2> QED
    BY <1>1, <2>1 DEF AfterOffer
<1>6. /\ bid' \in [ListingIds -> [Users -> Nat]]
      /\ hold' \in [ListingIds -> [Users -> Nat]]
      /\ \A m \in ListingIds : m # l => bid'[m] = bid[m] /\ hold'[m] = hold[m]
      /\ \A u \in Users : /\ bid'[l][u] = IF u = r THEN amount ELSE 0
                          /\ hold'[l][u] = IF u = r THEN amount ELSE 0
  BY <1>2, <1>3, <1>5
<1>7. credits' \in [Users -> Nat]
  <2>1. credits \in [Users -> Nat]
    BY DEF BooksOK, TypeOK
  <2>2. bid[l][r] \in Nat /\ bid[l][r] < amount /\ credits[r] >= amount - bid[l][r]
    BY <1>1, <1>2, <1>3 DEF Leads, CanPay, Additional
  <2>3. credits[r] - Additional(l, r, amount) \in Nat
    BY <1>1, <2>1, <2>2 DEF Additional
  <2>4. \A u \in Users : Released(l, r, amount, u) \in Nat
    BY <1>1, <1>3 DEF Released
  <2>5. \A u \in Users : credits[u] + Released(l, r, amount, u) \in Nat
    BY <2>1, <2>4
  <2> QED
    BY <1>2, <2>3, <2>5
<1>8. TypeOK'
  BY <1>2, <1>6, <1>7 DEF BooksOK, TypeOK
<1>9. FundedLeader' /\ HoldsOnlyWhileOpen'
  <2>1. \A m \in ListingIds : m = l \/ (bid'[m] = bid[m] /\ hold'[m] = hold[m])
    BY <1>6
  <2>2. FundedLeader'
    BY <1>6, <2>1 DEF BooksOK, FundedLeader
  <2>3. \A m : Active(m)' <=> Active(m)
    BY <1>2 DEF Active
  <2>4. HoldsOnlyWhileOpen'
    BY <1>2, <2>1, <2>3 DEF BooksOK, HoldsOnlyWhileOpen
  <2> QED
    BY <2>2, <2>4
<1>10. ListedMeansForSale => ListedMeansForSale'
  BY <1>2 DEF ListedMeansForSale, Active
<1> QED
  BY <1>8, <1>9, <1>10 DEF BooksOK

LEMMA CloseUnsoldStep ==
    ASSUME BooksOK, NEW l \in DOMAIN listings, CloseUnsold(l)
    PROVE  BooksOK' /\ (ListedMeansForSale => ListedMeansForSale')
<1>1. listings[l].asset \in Assets /\ l \in ListingIds
  BY ListingRow, LenProperties, BoundsAssumption DEF BooksOK, TypeOK, ListingIds
<1>2. /\ status'[listings[l].asset] # "listed"
      /\ \A b \in Assets : b # listings[l].asset => status'[b] = status[b]
      /\ status' \in [Assets -> {"available", "owned", "listed", "reserved",
                                 "treasury"}]
      /\ UNCHANGED <<credits, bid, hold, root, owner, ledger>>
      /\ Active(l) /\ Close(l, "expired")
  BY <1>1 DEF CloseUnsold, Closable, BooksOK, TypeOK, wallets
<1>3. \A m \in ListingIds, x \in Users :
         hold'[m][x] # 0 => m # l /\ hold[m][x] # 0
  BY <1>1, <1>2 DEF CloseUnsold, BooksOK, FundedLeader, NoBids
<1>4. /\ listings' \in Seq(Listing) /\ Len(listings') <= MaxListings
      /\ HoldsOnlyWhileOpen'
      /\ (ListedMeansForSale => ListedMeansForSale')
  BY <1>2, <1>3, ListingClosed DEF Statuses
<1>5. FundedLeader'
  BY <1>2 DEF BooksOK, FundedLeader
<1> QED
  BY <1>2, <1>4, <1>5 DEF BooksOK, TypeOK

LEMMA CloseSoldStep ==
    ASSUME BooksOK, NEW l \in DOMAIN listings, NEW w \in Users, CloseSold(l, w)
    PROVE  BooksOK' /\ (ListedMeansForSale => ListedMeansForSale')
<1> DEFINE price == bid[l][w]
           buyer == root[w]
           seller == root[listings[l].seller]
           fee == IF listings[l].lane = "none" THEN Fee(price) ELSE 0
<1>1. l \in ListingIds /\ listings[l].seller \in Users
  BY ListingRow, LenProperties, BoundsAssumption DEF BooksOK, TypeOK, ListingIds
<1>2. price \in Nat /\ buyer \in Users /\ seller \in Users
  BY <1>1 DEF BooksOK, TypeOK
<1>3. fee \in Nat /\ price - fee \in Nat
  <2> HIDE DEF price
  <2>1. Fee(price) \in Nat /\ price - Fee(price) \in Nat
    BY <1>2, FeeIsNat
  <2> QED
    BY <1>2, <2>1
<1>4. /\ Active(l) /\ Close(l, "sold") /\ root' = root
      /\ Convey(listings[l].asset, seller, buyer, price, fee)
      /\ credits' = Paid(credits, seller, price, fee)
      /\ bid' = [bid EXCEPT ![l][w] = 0]
      /\ hold' = [hold EXCEPT ![l][w] = 0]
      /\ bid[l][w] # 0
  BY DEF CloseSold, Closable
<1> HIDE DEF price, buyer, seller, fee
<1>5. credits' \in [Users -> Nat]
  BY <1>2, <1>3, <1>4, PaidIsNat DEF BooksOK, TypeOK
<1>6. \A u \in Users : u # w => bid[l][u] = 0 /\ hold[l][u] = 0
  BY <1>1, <1>4 DEF BooksOK, FundedLeader
<1>7. /\ bid' \in [ListingIds -> [Users -> Nat]]
      /\ hold' \in [ListingIds -> [Users -> Nat]]
      /\ \A m \in ListingIds : m # l => bid'[m] = bid[m] /\ hold'[m] = hold[m]
      /\ \A u \in Users : bid'[l][u] = 0 /\ hold'[l][u] = 0
  BY <1>1, <1>4, <1>6 DEF BooksOK, TypeOK
<1>8. FundedLeader'
  BY <1>7 DEF BooksOK, FundedLeader
<1>9. \A m \in ListingIds, u \in Users :
         hold'[m][u] # 0 => m # l /\ hold[m][u] # 0
  BY <1>7
<1> QED
  BY <1>2, <1>3, <1>4, <1>5, <1>7, <1>8, <1>9, SoldListing

LEMMA EndsAtPassesStep ==
    ASSUME BooksOK, NEW l \in DOMAIN listings, EndsAtPasses(l)
    PROVE  BooksOK' /\ (ListedMeansForSale => ListedMeansForSale')
<1> DEFINE e == [listings[l] EXCEPT !.ended = TRUE]
<1>1. /\ listings[l] \in Listing /\ l \in 1..Len(listings)
      /\ listings \in Seq(Listing) /\ DOMAIN listings = 1..Len(listings)
  BY ListingRow, LenProperties DEF BooksOK, TypeOK
<1>2. /\ e \in Listing
      /\ e.asset = listings[l].asset /\ e.seller = listings[l].seller
      /\ e.sale = listings[l].sale /\ e.status = listings[l].status
  BY <1>1 DEF Listing
<1>3. listings' = [listings EXCEPT ![l] = e]
  BY DEF EndsAtPasses
<1> HIDE DEF e
<1>4. /\ listings' \in Seq(Listing)
      /\ Len(listings') = Len(listings)
      /\ \A j \in 1..Len(listings) : listings'[j] = IF j = l THEN e ELSE listings[j]
  BY <1>1, <1>2, <1>3, ExceptSeq
<1>5. DOMAIN listings' = DOMAIN listings
  BY <1>1, <1>4, LenProperties
<1>6. \A m \in DOMAIN listings : /\ listings'[m].asset = listings[m].asset
                                 /\ listings'[m].seller = listings[m].seller
                                 /\ listings'[m].sale = listings[m].sale
                                 /\ listings'[m].status = listings[m].status
  BY <1>1, <1>2, <1>4
<1>7. \A m : Active(m)' <=> Active(m)
  BY <1>5, <1>6 DEF Active
<1>8. UNCHANGED <<credits, bid, hold, root, owner, status, ledger>>
  BY DEF EndsAtPasses, wallets
<1>9. TypeOK' /\ FundedLeader'
  BY <1>4, <1>8 DEF BooksOK, TypeOK, FundedLeader
<1>10. HoldsOnlyWhileOpen'
  BY <1>6, <1>7, <1>8 DEF BooksOK, HoldsOnlyWhileOpen, Active
<1>11. ListedMeansForSale => ListedMeansForSale'
  BY <1>5, <1>6, <1>7, <1>8 DEF ListedMeansForSale
<1> QED
  BY <1>9, <1>10, <1>11 DEF BooksOK

LEMMA AssignControlStep ==
    ASSUME BooksOK, NEW p \in ControlPairs, NEW moved \in SUBSET Users,
           AssignControl(p[1], p[2], moved)
    PROVE  BooksOK' /\ (ListedMeansForSale => ListedMeansForSale')
<1>1. p[1] \in Users
  BY BoundsAssumption
<1>2. /\ root' = [u \in Users |-> IF u \in moved THEN root[p[1]] ELSE root[u]]
      /\ UNCHANGED <<credits, bid, hold, owner, status, listings, ledger>>
  BY DEF AssignControl, wallets, titles
<1>3. TypeOK'
  BY <1>1, <1>2 DEF BooksOK, TypeOK
<1>4. FundedLeader' /\ HoldsOnlyWhileOpen'
      /\ (ListedMeansForSale => ListedMeansForSale')
  BY <1>2 DEF BooksOK, FundedLeader, HoldsOnlyWhileOpen, ListedMeansForSale, Active
<1> QED
  BY <1>3, <1>4 DEF BooksOK

LEMMA NextBooksOK ==
    ASSUME BooksOK, [Next]_vars
    PROVE  BooksOK' /\ (ListedMeansForSale => ListedMeansForSale')
<1> DEFINE Kept == BooksOK' /\ (ListedMeansForSale => ListedMeansForSale')
<1>1. ASSUME NEW a \in Assets, NEW u \in Users, NEW sale \in Sales,
             NEW price \in Offers, CreateListing(a, u, sale, price)
      PROVE  Kept
  BY <1>1, CreateListingStep
<1>2. ASSUME NEW l \in DOMAIN listings, NEW u \in Users, CancelListing(l, u)
      PROVE  Kept
  BY <1>2, CancelListingStep
<1>3. ASSUME NEW l \in DOMAIN listings, NEW u \in Users, PurchaseP2PFixed(l, u)
      PROVE  Kept
  BY <1>3, PurchaseP2PFixedStep
<1>4. ASSUME NEW l \in DOMAIN listings, NEW u \in Users, PurchaseTiendaFixed(l, u)
      PROVE  Kept
  BY <1>4, PurchaseTiendaFixedStep
<1>5. ASSUME NEW fx \in [1..Missing("fixed", FixedTarget) -> Assets],
             NEW bl \in [1..Missing("blind", BlindTarget) -> Assets],
             NEW sw \in [1..Missing("swamp", SwampTarget) -> Assets],
             Replenish(fx, bl, sw)
      PROVE  Kept
  BY <1>5, ReplenishStep
<1>6. ASSUME NEW l \in DOMAIN listings, NEW b \in Users, NEW amount \in Offers,
             PlaceBlindBid(l, b, amount)
      PROVE  Kept
  BY <1>6, PlaceBlindBidStep
<1>7. ASSUME NEW l \in DOMAIN listings, CloseUnsold(l)
      PROVE  Kept
  BY <1>7, CloseUnsoldStep
<1>8. ASSUME NEW l \in DOMAIN listings, NEW w \in Users, CloseSold(l, w)
      PROVE  Kept
  BY <1>8, CloseSoldStep
<1>9. ASSUME NEW l \in DOMAIN listings, EndsAtPasses(l)
      PROVE  Kept
  BY <1>9, EndsAtPassesStep
<1>10. ASSUME NEW p \in ControlPairs, NEW moved \in SUBSET Users,
              AssignControl(p[1], p[2], moved)
       PROVE  Kept
  BY <1>10, AssignControlStep
<1>11. CASE UNCHANGED vars
  BY <1>11 DEF vars, BooksOK, TypeOK, FundedLeader, HoldsOnlyWhileOpen,
               ListedMeansForSale, Active
<1> QED
  BY <1>1, <1>2, <1>3, <1>4, <1>5, <1>6, <1>7, <1>8, <1>9, <1>10, <1>11
     DEF Next, CustomerStep, AnyReplenish, CloseBlind

LEMMA NextMarketInv == MarketInv /\ [Next]_vars => MarketInv'
BY NextBooksOK DEF MarketInv

-----------------------------------------------------------------------------
(* The theorems.                                                           *)

\* Every behaviour of the market keeps the inductive invariant.
THEOREM MarketInvariant == Spec => []MarketInv
<1>1. Init => MarketInv
  BY InitMarketInv
<1>2. MarketInv /\ [Next]_vars => MarketInv'
  BY NextMarketInv
<1> QED
  BY <1>1, <1>2, PTL DEF Spec

\* No operation leaves a row with a value of the wrong kind: in particular no
\* wallet ever goes below zero, whatever is bought, bid or released.
THEOREM TypeCorrect == Spec => []TypeOK
<1>1. MarketInv => TypeOK
  BY DEF MarketInv, BooksOK
<1> QED
  BY <1>1, MarketInvariant, PTL

\* close_founder_blind_listing may settle one bid and forget the others: a
\* blind listing has at most one active bid, held for in full.
THEOREM OneFundedLeader == Spec => []FundedLeader
<1>1. MarketInv => FundedLeader
  BY DEF MarketInv, BooksOK
<1> QED
  BY <1>1, MarketInvariant, PTL

\* No cancellation, sale or expiry leaves a funded bid behind.
THEOREM NoHoldAbandoned == Spec => []HoldsOnlyWhileOpen
<1>1. MarketInv => HoldsOnlyWhileOpen
  BY DEF MarketInv, BooksOK
<1> QED
  BY <1>1, MarketInvariant, PTL

\* A property is listed exactly while it has its one active listing, by its
\* owner.
THEOREM ListedIffForSale == Spec => []ListedMeansForSale
<1>1. MarketInv => ListedMeansForSale
  BY DEF MarketInv, BooksOK
<1> QED
  BY <1>1, MarketInvariant, PTL

\* The books are kept.
LEMMA BooksKept == Spec => []BooksOK
<1>1. MarketInv => BooksOK
  BY DEF MarketInv
<1> QED
  BY <1>1, MarketInvariant, PTL

\* Bids and holds change in two operations only.
LEMMA BidsChange ==
    ASSUME [Next]_vars,
           ~ \E l \in DOMAIN listings, b \in Users, amount \in Offers :
                PlaceBlindBid(l, b, amount),
           ~ \E l \in DOMAIN listings, w \in Users : CloseSold(l, w)
    PROVE  UNCHANGED <<bid, hold>>
<1>1. \A a, u, sale, price : CreateListing(a, u, sale, price) => UNCHANGED <<bid, hold>>
  BY DEF CreateListing, wallets
<1>2. \A l, u : CancelListing(l, u) => UNCHANGED <<bid, hold>>
  BY DEF CancelListing, wallets
<1>3. \A l, u : PurchaseP2PFixed(l, u) => UNCHANGED <<bid, hold>>
  BY DEF PurchaseP2PFixed
<1>4. \A l, u : PurchaseTiendaFixed(l, u) => UNCHANGED <<bid, hold>>
  BY DEF PurchaseTiendaFixed
<1>5. \A fx, bl, sw : Replenish(fx, bl, sw) => UNCHANGED <<bid, hold>>
  BY DEF Replenish, wallets
<1>6. \A l : CloseUnsold(l) => UNCHANGED <<bid, hold>>
  BY DEF CloseUnsold, wallets
<1>7. \A l : EndsAtPasses(l) => UNCHANGED <<bid, hold>>
  BY DEF EndsAtPasses, wallets
<1>8. \A c, d, moved : AssignControl(c, d, moved) => UNCHANGED <<bid, hold>>
  BY DEF AssignControl, wallets
<1>9. CASE UNCHANGED vars
  BY <1>9 DEF vars
<1> QED
  BY <1>1, <1>2, <1>3, <1>4, <1>5, <1>6, <1>7, <1>8, <1>9 DEF Next, CustomerStep, AnyReplenish, CloseBlind

\* The rows of an offer r makes on l: r's own, and nobody else's.
LEMMA OfferRows ==
    ASSUME BooksOK, NEW l \in DOMAIN listings, NEW b \in Users,
           NEW amount \in Offers, PlaceBlindBid(l, b, amount)
    PROVE  /\ l \in ListingIds /\ root[b] \in Users /\ amount \in Nat /\ amount # 0
           /\ \A u \in Users : bid[l][u] < amount
           /\ \A u \in Users \ {root[b]} :
                 bid[l][u] # 0 => credits'[u] = credits[u] + hold[l][u]
           /\ \A m \in ListingIds : m # l => bid'[m] = bid[m] /\ hold'[m] = hold[m]
           /\ bid'[l][root[b]] = amount /\ hold'[l][root[b]] = amount
<1> DEFINE r == root[b]
<1>1. l \in ListingIds /\ r \in Users /\ amount \in Nat
  <2>1. l \in 1..Len(listings)
    BY ListingRow DEF BooksOK, TypeOK
  <2>2. l \in ListingIds
    BY <2>1, LenProperties, BoundsAssumption DEF BooksOK, TypeOK, ListingIds
  <2>3. r \in Users
    BY DEF BooksOK, TypeOK
  <2> QED
    BY <2>2, <2>3, AmountsAssumption
<1>2. /\ amount >= MinTransfer
      /\ Leads(l, r, amount)
      /\ credits' = [u \in Users |->
                        IF u = r THEN credits[u] - Additional(l, r, amount)
                        ELSE credits[u] + Released(l, r, amount, u)]
      /\ bid' = AfterOffer(bid, l, r, amount)
      /\ hold' = AfterOffer(hold, l, r, amount)
  BY DEF PlaceBlindBid
<1> HIDE DEF r
<1>3. amount # 0 /\ \A u \in Users : bid[l][u] < amount
  BY <1>1, <1>2 DEF MinTransfer, Leads
<1>4. \A u \in Users \ {r} : bid[l][u] # 0 => credits'[u] = credits[u] + hold[l][u]
  BY <1>1, <1>2, <1>3 DEF Released, Outbid
<1>5. /\ \A m \in ListingIds : m # l => bid'[m] = bid[m] /\ hold'[m] = hold[m]
      /\ bid'[l][r] = amount /\ hold'[l][r] = amount
  BY <1>1, <1>2 DEF AfterOffer, BooksOK, TypeOK
<1> QED
  BY <1>1, <1>3, <1>4, <1>5 DEF r

\* The rows of a sale of l to w: w's own are settled, the others are empty.
LEMMA SaleRows ==
    ASSUME BooksOK, NEW l \in DOMAIN listings, NEW w \in Users, CloseSold(l, w)
    PROVE  /\ l \in ListingIds
           /\ Active(l) /\ ~ Active(l)'
           /\ \A m \in ListingIds : m # l => bid'[m] = bid[m] /\ hold'[m] = hold[m]
           /\ \A u \in Users : u # w => hold[l][u] = 0
           /\ owner'[listings[l].asset] = root[w]
<1>1. l \in ListingIds /\ listings[l].asset \in Assets /\ listings \in Seq(Listing)
  <2>1. l \in 1..Len(listings) /\ listings[l].asset \in Assets
    BY ListingRow DEF BooksOK, TypeOK
  <2> QED
    BY <2>1, LenProperties, BoundsAssumption DEF BooksOK, TypeOK, ListingIds
<1>2. /\ Active(l) /\ Close(l, "sold") /\ bid[l][w] # 0
      /\ bid' = [bid EXCEPT ![l][w] = 0]
      /\ hold' = [hold EXCEPT ![l][w] = 0]
      /\ owner' = [owner EXCEPT ![listings[l].asset] = root[w]]
  BY DEF CloseSold, Closable, Convey, MoveTitle
<1>3. ~ Active(l)'
  BY <1>1, <1>2, ClosedListing DEF Active, Statuses
<1>4. \A m \in ListingIds : m # l => bid'[m] = bid[m] /\ hold'[m] = hold[m]
  BY <1>1, <1>2 DEF BooksOK, TypeOK
<1>5. \A u \in Users : u # w => hold[l][u] = 0
  BY <1>1, <1>2 DEF BooksOK, FundedLeader
<1>6. owner'[listings[l].asset] = root[w]
  BY <1>1, <1>2 DEF BooksOK, TypeOK
<1> QED
  BY <1>1, <1>2, <1>3, <1>4, <1>5, <1>6

LEMMA HoldsComeBack ==
    ASSUME BooksOK, [Next]_vars,
           NEW l \in ListingIds, NEW u \in Users, hold[l][u] # 0, hold'[l][u] = 0
    PROVE  \/ credits'[u] = credits[u] + hold[l][u]
           \/ owner'[listings[l].asset] = root[u]
<1>1. ASSUME NEW m \in DOMAIN listings, NEW b \in Users, NEW amount \in Offers,
             PlaceBlindBid(m, b, amount)
      PROVE  credits'[u] = credits[u] + hold[l][u]
  <2>1. m = l /\ u # root[b]
    BY <1>1, OfferRows
  <2>2. bid[l][u] # 0
    BY DEF BooksOK, FundedLeader
  <2> QED
    BY <1>1, <2>1, <2>2, OfferRows
<1>2. ASSUME NEW m \in DOMAIN listings, NEW w \in Users, CloseSold(m, w)
      PROVE  owner'[listings[l].asset] = root[u]
  <2>1. m = l /\ u = w
    BY <1>2, SaleRows
  <2> QED
    BY <1>2, <2>1, SaleRows
<1> QED
  BY <1>1, <1>2, BidsChange

\* Held credits come back to their wallet in full, or buy the property for the
\* root of the wallet they were taken from.
THEOREM HeldCreditsSafe == Spec => HeldCreditsComeBack
<1>1. BooksOK /\ [Next]_vars =>
        [\A l \in ListingIds, u \in Users : hold[l][u] # 0 /\ hold'[l][u] = 0 =>
            \/ credits'[u] = credits[u] + hold[l][u]
            \/ owner'[listings[l].asset] = root[u]]_vars
  BY HoldsComeBack
<1> QED
  BY <1>1, BooksKept, PTL DEF Spec, HeldCreditsComeBack

LEMMA OfferRises ==
    ASSUME BooksOK, [Next]_vars,
           NEW l \in ListingIds, NEW u \in Users, Active(l), Active(l)'
    PROVE  \E v \in Users : bid'[l][v] >= bid[l][u]
<1>1. ASSUME bid'[l] = bid[l] PROVE \E v \in Users : bid'[l][v] >= bid[l][u]
  <2>1. bid[l][u] \in Nat
    BY DEF BooksOK, TypeOK
  <2> QED
    BY <1>1, <2>1
<1>2. ASSUME NEW m \in DOMAIN listings, NEW b \in Users, NEW amount \in Offers,
             PlaceBlindBid(m, b, amount)
      PROVE  \E v \in Users : bid'[l][v] >= bid[l][u]
  <2>1. CASE m # l
    BY <1>1, <1>2, <2>1, OfferRows
  <2>2. CASE m = l
    <3>1. /\ bid[l][u] < amount /\ amount \in Nat
          /\ root[b] \in Users /\ bid'[l][root[b]] = amount
      BY <1>2, <2>2, OfferRows
    <3>2. bid[l][u] \in Nat
      BY DEF BooksOK, TypeOK
    <3> QED
      BY <3>1, <3>2
  <2> QED
    BY <2>1, <2>2
<1>3. ASSUME NEW m \in DOMAIN listings, NEW w \in Users, CloseSold(m, w)
      PROVE  \E v \in Users : bid'[l][v] >= bid[l][u]
  BY <1>1, <1>3, SaleRows
<1> QED
  BY <1>1, <1>2, <1>3, BidsChange

\* While a blind listing is open, its leading offer never falls.
THEOREM LeadNeverFalls == Spec => LeadingOfferRises
<1>1. BooksOK /\ [Next]_vars =>
        [\A l \in ListingIds, u \in Users : Active(l) /\ Active(l)' =>
            \E v \in Users : bid'[l][v] >= bid[l][u]]_vars
  BY OfferRises
<1> QED
  BY <1>1, BooksKept, PTL DEF Spec, LeadingOfferRises

-----------------------------------------------------------------------------
(* One conveyance per sale.                                                *)

SoldRows == {l \in DOMAIN listings : listings[l].status = "sold"}

\* Listings stay, each with its status, and those that come are active: none is
\* sold that was not.
LEMMA NoneSold ==
    ASSUME \A l \in DOMAIN listings :
               l \in DOMAIN listings' /\ listings'[l].status = listings[l].status,
           \A l \in DOMAIN listings' : l \notin DOMAIN listings =>
               listings'[l].status = "active"
    PROVE  SoldRows' = SoldRows
BY DEF SoldRows

\* A listing that is closed is sold if its close says so.
LEMMA ClosedRows ==
    ASSUME BooksOK, NEW l \in DOMAIN listings, Active(l),
           NEW s \in Statuses, Close(l, s)
    PROVE  SoldRows' = IF s = "sold" THEN SoldRows \cup {l} ELSE SoldRows
<1>1. /\ DOMAIN listings' = DOMAIN listings
      /\ \A m \in DOMAIN listings : m # l => listings'[m] = listings[m]
      /\ listings'[l].status = s
  BY ClosedListing DEF BooksOK, TypeOK
<1>2. listings[l].status = "active"
  BY DEF Active
<1> QED
  BY <1>1, <1>2 DEF SoldRows

\* A sale of l: its conveyance is recorded and the listing is marked.
Sells(l) ==
    /\ Active(l)
    /\ Len(ledger') = Len(ledger) + 1
    /\ SoldRows' = SoldRows \cup {l}

LEMMA ConveyedSale ==
    ASSUME BooksOK, NEW l \in DOMAIN listings, Active(l), Close(l, "sold"),
           NEW a, NEW seller, NEW buyer, NEW price, NEW fee,
           Convey(a, seller, buyer, price, fee)
    PROVE  Sells(l)
<1>1. SoldRows' = SoldRows \cup {l}
  BY ClosedRows DEF Statuses
<1>2. Len(ledger') = Len(ledger) + 1
  <2> DEFINE t == [asset |-> a, seller |-> seller, buyer |-> buyer,
                   price |-> price, fee |-> fee]
             T == Transfers \cup {t}
  <2>1. ledger \in Seq(Transfers)
    BY DEF BooksOK, TypeOK
  <2>2. ledger' = Append(ledger, t)
    BY DEF Convey
  <2> HIDE DEF t
  <2>3. ledger \in Seq(T) /\ t \in T
    BY <2>1
  <2> HIDE DEF T
  <2> QED
    BY <2>2, <2>3, AppendProperties
<1> QED
  BY <1>1, <1>2 DEF Sells

LEMMA SoldRowsChange ==
    ASSUME BooksOK, [Next]_vars
    PROVE  \/ ledger' = ledger /\ SoldRows' = SoldRows
           \/ \E l \in DOMAIN listings : Sells(l)
<1>1. ASSUME NEW a \in Assets, NEW u \in Users, NEW sale \in Sales,
             NEW price \in Offers, CreateListing(a, u, sale, price)
      PROVE  ledger' = ledger /\ SoldRows' = SoldRows
  <2> DEFINE row == NewListing(a, root[u], "none", sale, price)
  <2>1. row \in Listing /\ row.status = "active"
    BY AmountsAssumption DEF NewListing, Listing, Lanes, BooksOK, TypeOK
  <2>2. listings' = Append(listings, row) /\ listings \in Seq(Listing)
    BY <1>1 DEF CreateListing, BooksOK, TypeOK
  <2> HIDE DEF row
  <2>3. /\ listings' \in Seq(Listing)
        /\ Len(listings') = Len(listings) + 1
        /\ \A i \in 1..Len(listings) : listings'[i] = listings[i]
        /\ listings'[Len(listings) + 1] = row
    BY <2>1, <2>2, AppendProperties
  <2>4. /\ DOMAIN listings = 1..Len(listings) /\ Len(listings) \in Nat
        /\ DOMAIN listings' = 1..Len(listings) + 1
    BY <2>2, <2>3, LenProperties
  <2>5. SoldRows' = SoldRows
    BY <2>1, <2>3, <2>4, NoneSold
  <2> QED
    BY <1>1, <2>5 DEF CreateListing
<1>2. ASSUME NEW l \in DOMAIN listings, NEW u \in Users, CancelListing(l, u)
      PROVE  ledger' = ledger /\ SoldRows' = SoldRows
  BY <1>2, ClosedRows DEF CancelListing, Statuses
<1>3. ASSUME NEW l \in DOMAIN listings, NEW u \in Users, PurchaseP2PFixed(l, u)
      PROVE  Sells(l)
  BY <1>3, ConveyedSale DEF PurchaseP2PFixed, TransferOwnership
<1>4. ASSUME NEW l \in DOMAIN listings, NEW u \in Users, PurchaseTiendaFixed(l, u)
      PROVE  Sells(l)
  BY <1>4, ConveyedSale DEF PurchaseTiendaFixed
<1>5. ASSUME NEW fx \in [1..Missing("fixed", FixedTarget) -> Assets],
             NEW bl \in [1..Missing("blind", BlindTarget) -> Assets],
             NEW sw \in [1..Missing("swamp", SwampTarget) -> Assets],
             Replenish(fx, bl, sw)
      PROVE  ledger' = ledger /\ SoldRows' = SoldRows
  <2>1. PICK rows \in Seq(Listing) :
             /\ listings' = listings \o rows
             /\ \A k \in DOMAIN rows : rows[k].status = "active"
    BY <1>5, ReplenishRows
  <2>2. listings \in Seq(Listing)
    BY DEF BooksOK, TypeOK
  <2>3. PICK n \in Nat : n = Len(listings) /\ DOMAIN listings = 1..n
    BY <2>2, LenProperties
  <2>4. PICK k \in Nat : k = Len(rows) /\ DOMAIN rows = 1..k
    BY LenProperties
  <2>5. /\ listings' \in Seq(Listing)
        /\ Len(listings') = n + k
        /\ \A i \in 1..n + k : listings'[i] = IF i <= n THEN listings[i] ELSE rows[i - n]
    BY <2>1, <2>2, <2>3, <2>4, ConcatProperties
  <2>6. DOMAIN listings' = 1..n + k
    BY <2>5, LenProperties
  <2>7. \A i \in 1..n + k : i \notin 1..n => i - n \in 1..k
    OBVIOUS
  <2>8. SoldRows' = SoldRows
    BY <2>1, <2>3, <2>4, <2>5, <2>6, <2>7, NoneSold
  <2> QED
    BY <1>5, <2>8, ReplenishRows
<1>6. ASSUME NEW l \in DOMAIN listings, NEW b \in Users, NEW amount \in Offers,
             PlaceBlindBid(l, b, amount)
      PROVE  ledger' = ledger /\ SoldRows' = SoldRows
  BY <1>6 DEF PlaceBlindBid, titles, SoldRows
<1>7. ASSUME NEW l \in DOMAIN listings, CloseUnsold(l)
      PROVE  ledger' = ledger /\ SoldRows' = SoldRows
  BY <1>7, ClosedRows DEF CloseUnsold, Closable, Statuses
<1>8. ASSUME NEW l \in DOMAIN listings, NEW w \in Users, CloseSold(l, w)
      PROVE  Sells(l)
  BY <1>8, ConveyedSale DEF CloseSold, Closable
<1>9. ASSUME NEW l \in DOMAIN listings, EndsAtPasses(l)
      PROVE  ledger' = ledger /\ SoldRows' = SoldRows
  <2> DEFINE e == [listings[l] EXCEPT !.ended = TRUE]
  <2>1. /\ listings[l] \in Listing /\ l \in 1..Len(listings)
        /\ listings \in Seq(Listing) /\ DOMAIN listings = 1..Len(listings)
    BY ListingRow, LenProperties DEF BooksOK, TypeOK
  <2>2. e \in Listing /\ e.status = listings[l].status
    BY <2>1 DEF Listing
  <2>3. listings' = [listings EXCEPT ![l] = e] /\ ledger' = ledger
    BY <1>9 DEF EndsAtPasses
  <2> HIDE DEF e
  <2>4. /\ listings' \in Seq(Listing)
        /\ Len(listings') = Len(listings)
        /\ \A j \in 1..Len(listings) : listings'[j] = IF j = l THEN e ELSE listings[j]
    BY <2>1, <2>2, <2>3, ExceptSeq
  <2>5. DOMAIN listings' = DOMAIN listings
    BY <2>1, <2>4, LenProperties
  <2>6. SoldRows' = SoldRows
    BY <2>1, <2>2, <2>4, <2>5, NoneSold
  <2> QED
    BY <2>3, <2>6
<1>10. \A c, d, moved : AssignControl(c, d, moved) =>
          ledger' = ledger /\ SoldRows' = SoldRows
  BY DEF AssignControl, titles, SoldRows
<1>11. CASE UNCHANGED vars
  BY <1>11 DEF vars, SoldRows
<1> QED
  BY <1>1, <1>2, <1>3, <1>4, <1>5, <1>6, <1>7, <1>8, <1>9, <1>10, <1>11
     DEF Next, CustomerStep, AnyReplenish, CloseBlind

\* What is sold for the first time is counted once more.
LEMMA SalesCounted ==
    ASSUME BooksOK, OneConveyancePerSale,
           \/ ledger' = ledger /\ SoldRows' = SoldRows
           \/ \E l \in DOMAIN listings : Sells(l)
    PROVE  OneConveyancePerSale'
<1>1. IsFiniteSet(SoldRows)
  <2>1. DOMAIN listings = 1..Len(listings) /\ Len(listings) \in Nat
    BY LenProperties DEF BooksOK, TypeOK
  <2>2. IsFiniteSet(DOMAIN listings)
    BY <2>1, FS_Interval
  <2> QED
    BY <2>2, FS_Subset DEF SoldRows
<1>2. Len(ledger) = Cardinality(SoldRows)
  BY DEF OneConveyancePerSale, SoldRows
<1>3. CASE ledger' = ledger /\ SoldRows' = SoldRows
  BY <1>2, <1>3 DEF OneConveyancePerSale, SoldRows
<1>4. CASE \E l \in DOMAIN listings : Sells(l)
  <2>1. PICK l \in DOMAIN listings : Sells(l)
    BY <1>4
  <2>2. l \notin SoldRows
    BY <2>1 DEF Sells, SoldRows, Active
  <2>3. Cardinality(SoldRows') = Cardinality(SoldRows) + 1
    BY <1>1, <2>1, <2>2, FS_AddElement DEF Sells
  <2>4. Len(ledger') = Cardinality(SoldRows')
    BY <1>2, <2>1, <2>3 DEF Sells
  <2> QED
    BY <2>4 DEF OneConveyancePerSale, SoldRows
<1> QED
  BY <1>3, <1>4

LEMMA InitSales == Init => OneConveyancePerSale
<1> SUFFICES ASSUME Init PROVE OneConveyancePerSale
  OBVIOUS
<1>1. ledger = <<>> /\ DOMAIN listings = {}
  BY EmptySeq, LenProperties DEF Init
<1>2. Len(ledger) = 0 /\ SoldRows = {}
  BY <1>1, EmptySeq DEF SoldRows
<1> QED
  BY <1>2, FS_EmptySet DEF OneConveyancePerSale, SoldRows

\* Every sale has exactly one record in the ledger, on whichever path, for any
\* number of listings.
THEOREM OneRecordPerSale == Spec => []OneConveyancePerSale
<1>1. Init => OneConveyancePerSale
  BY InitSales
<1>2. BooksOK /\ OneConveyancePerSale /\ [Next]_vars => OneConveyancePerSale'
  BY SoldRowsChange, SalesCounted
<1> QED
  BY <1>1, <1>2, BooksKept, PTL DEF Spec

-----------------------------------------------------------------------------
(* What a step may do to the listings.                                     *)

\* The terms of a listing stay, and once closed it stays closed.
TermsKept(m) ==
    /\ m \in DOMAIN listings'
    /\ listings'[m].asset = listings[m].asset
    /\ listings'[m].seller = listings[m].seller
    /\ listings'[m].lane = listings[m].lane
    /\ listings'[m].price = listings[m].price
    /\ listings'[m].status = "active" => listings[m].status = "active"

\* A new row is its owner's, of a property that had no active listing, at a
\* price the market knows; a Tienda row is of a property it may take.
Enters(row) ==
    /\ row.asset \in Assets
    /\ ~ HasActiveListing(row.asset)
    /\ row.seller = owner[row.asset]
    /\ row.price \in SalePrices
    /\ \/ row.lane = "none" /\ status[row.asset] \in {"owned", "listed"}
       \/ status[row.asset] \in {"available", "treasury"}

ListingsChange ==
    /\ \A m \in DOMAIN listings : TermsKept(m)
    /\ \A m \in DOMAIN listings' : m \notin DOMAIN listings => Enters(listings'[m])
    /\ \A m, n \in DOMAIN listings' :
          m \notin DOMAIN listings /\ n \notin DOMAIN listings
          /\ listings'[m].asset = listings'[n].asset => m = n

LEMMA ListingsStay == ASSUME listings' = listings PROVE ListingsChange
BY DEF ListingsChange, TermsKept

LEMMA OneCloses ==
    ASSUME BooksOK, NEW l \in DOMAIN listings, Active(l), NEW s \in Statuses, Close(l, s)
    PROVE  ListingsChange
<1>1. /\ DOMAIN listings' = DOMAIN listings
      /\ \A m \in DOMAIN listings : m # l => listings'[m] = listings[m]
      /\ listings'[l].asset = listings[l].asset
      /\ listings'[l].seller = listings[l].seller
      /\ listings'[l].lane = listings[l].lane
      /\ listings'[l].price = listings[l].price
  BY ClosedListing DEF BooksOK, TypeOK
<1>2. listings[l].status = "active"
  BY DEF Active
<1>3. \A m \in DOMAIN listings : TermsKept(m)
  BY <1>1, <1>2 DEF TermsKept
<1> QED
  BY <1>1, <1>3 DEF ListingsChange

LEMMA OneAdded ==
    ASSUME BooksOK, NEW row \in Listing, listings' = Append(listings, row), Enters(row)
    PROVE  ListingsChange
<1>1. listings \in Seq(Listing)
  BY DEF BooksOK, TypeOK
<1>2. PICK n \in Nat : n = Len(listings) /\ DOMAIN listings = 1..n
  BY <1>1, LenProperties
<1>3. /\ listings' \in Seq(Listing)
      /\ Len(listings') = n + 1
      /\ \A i \in 1..n : listings'[i] = listings[i]
      /\ listings'[n + 1] = row
  BY <1>1, <1>2, AppendProperties
<1>4. DOMAIN listings' = 1..n + 1
  BY <1>3, LenProperties
<1>5. \A i \in 1..n + 1 : i \notin 1..n => i = n + 1
  OBVIOUS
<1>6. \A m \in DOMAIN listings : TermsKept(m)
  BY <1>2, <1>3, <1>4 DEF TermsKept
<1> QED
  BY <1>2, <1>3, <1>4, <1>5, <1>6 DEF ListingsChange

LEMMA ManyAdded ==
    ASSUME BooksOK, NEW rows \in Seq(Listing), listings' = listings \o rows,
           \A k \in DOMAIN rows : Enters(rows[k]),
           \A j, k \in DOMAIN rows : rows[j].asset = rows[k].asset => j = k
    PROVE  ListingsChange
<1>1. listings \in Seq(Listing)
  BY DEF BooksOK, TypeOK
<1>2. PICK n \in Nat : n = Len(listings) /\ DOMAIN listings = 1..n
  BY <1>1, LenProperties
<1>3. PICK k \in Nat : k = Len(rows) /\ DOMAIN rows = 1..k
  BY LenProperties
<1>4. /\ listings' \in Seq(Listing)
      /\ Len(listings') = n + k
      /\ \A i \in 1..n + k : listings'[i] = IF i <= n THEN listings[i] ELSE rows[i - n]
  BY <1>1, <1>2, <1>3, ConcatProperties
<1>5. DOMAIN listings' = 1..n + k
  BY <1>4, LenProperties
<1>6. \A i \in 1..n + k : i \notin 1..n => i - n \in 1..k /\ ~ (i <= n)
  OBVIOUS
<1>7. \A i \in 1..n : i \in 1..n + k /\ i <= n
  OBVIOUS
<1>8. \A m \in DOMAIN listings : TermsKept(m)
  BY <1>2, <1>4, <1>5, <1>7 DEF TermsKept
<1>9. \A m \in DOMAIN listings' : m \notin DOMAIN listings =>
         m - n \in DOMAIN rows /\ listings'[m] = rows[m - n]
  BY <1>2, <1>3, <1>4, <1>5, <1>6
<1>10. \A m, j \in DOMAIN listings' : m - n = j - n => m = j
  BY <1>5
<1>11. \A m \in DOMAIN listings' : m \notin DOMAIN listings => Enters(listings'[m])
  BY <1>9
<1>12. \A m, j \in DOMAIN listings' :
          m \notin DOMAIN listings /\ j \notin DOMAIN listings
          /\ listings'[m].asset = listings'[j].asset => m = j
  BY <1>9, <1>10
<1> QED
  BY <1>8, <1>11, <1>12 DEF ListingsChange

LEMMA NextListings ==
    ASSUME BooksOK, [Next]_vars
    PROVE  ListingsChange
<1>1. ASSUME NEW a \in Assets, NEW u \in Users, NEW sale \in Sales,
             NEW price \in Offers, CreateListing(a, u, sale, price)
      PROVE  ListingsChange
  <2> DEFINE row == NewListing(a, root[u], "none", sale, price)
  <2>1. row \in Listing
    BY AmountsAssumption DEF NewListing, Listing, Lanes, BooksOK, TypeOK
  <2>2. listings' = Append(listings, row)
    BY <1>1 DEF CreateListing
  <2>3. Enters(row)
    BY <1>1 DEF CreateListing, Enters, NewListing, SalePrices
  <2> HIDE DEF row
  <2> QED
    BY <2>1, <2>2, <2>3, OneAdded
<1>2. ASSUME NEW l \in DOMAIN listings, NEW u \in Users, CancelListing(l, u)
      PROVE  ListingsChange
  BY <1>2, OneCloses DEF CancelListing, Statuses
<1>3. ASSUME NEW l \in DOMAIN listings, NEW u \in Users, PurchaseP2PFixed(l, u)
      PROVE  ListingsChange
  BY <1>3, OneCloses DEF PurchaseP2PFixed, Statuses
<1>4. ASSUME NEW l \in DOMAIN listings, NEW u \in Users, PurchaseTiendaFixed(l, u)
      PROVE  ListingsChange
  BY <1>4, OneCloses DEF PurchaseTiendaFixed, Statuses
<1>5. ASSUME NEW fx \in [1..Missing("fixed", FixedTarget) -> Assets],
             NEW bl \in [1..Missing("blind", BlindTarget) -> Assets],
             NEW sw \in [1..Missing("swamp", SwampTarget) -> Assets],
             Replenish(fx, bl, sw)
      PROVE  ListingsChange
  <2>1. PICK rows \in Seq(Listing) :
             /\ listings' = listings \o rows
             /\ \A k \in DOMAIN rows :
                   /\ rows[k].seller = owner[rows[k].asset]
                   /\ Eligible(rows[k].asset)
                   /\ rows[k].price \in SalePrices
             /\ \A j, k \in DOMAIN rows : rows[j].asset = rows[k].asset => j = k
    BY <1>5, ReplenishRows
  <2>2. ASSUME NEW k \in DOMAIN rows PROVE rows[k].asset \in Assets
    <3>1. k \in 1..Len(rows)
      BY LenProperties
    <3>2. rows[k] \in Listing
      BY <3>1, ElementOfSeq
    <3> QED
      BY <3>2 DEF Listing
  <2>3. \A k \in DOMAIN rows : Enters(rows[k])
    BY <2>1, <2>2 DEF Enters, Eligible
  <2> QED
    BY <2>1, <2>3, ManyAdded
<1>6. ASSUME NEW l \in DOMAIN listings, NEW b \in Users, NEW amount \in Offers,
             PlaceBlindBid(l, b, amount)
      PROVE  ListingsChange
  BY <1>6, ListingsStay DEF PlaceBlindBid, titles
<1>7. ASSUME NEW l \in DOMAIN listings, CloseUnsold(l)
      PROVE  ListingsChange
  BY <1>7, OneCloses DEF CloseUnsold, Closable, Statuses
<1>8. ASSUME NEW l \in DOMAIN listings, NEW w \in Users, CloseSold(l, w)
      PROVE  ListingsChange
  BY <1>8, OneCloses DEF CloseSold, Closable, Statuses
<1>9. ASSUME NEW l \in DOMAIN listings, EndsAtPasses(l)
      PROVE  ListingsChange
  <2> DEFINE e == [listings[l] EXCEPT !.ended = TRUE]
  <2>1. /\ listings[l] \in Listing /\ l \in 1..Len(listings)
        /\ listings \in Seq(Listing) /\ DOMAIN listings = 1..Len(listings)
    BY ListingRow, LenProperties DEF BooksOK, TypeOK
  <2>2. /\ e \in Listing /\ e.status = listings[l].status
        /\ e.asset = listings[l].asset /\ e.seller = listings[l].seller
        /\ e.lane = listings[l].lane /\ e.price = listings[l].price
    BY <2>1 DEF Listing
  <2>3. listings' = [listings EXCEPT ![l] = e]
    BY <1>9 DEF EndsAtPasses
  <2> HIDE DEF e
  <2>4. /\ listings' \in Seq(Listing)
        /\ Len(listings') = Len(listings)
        /\ \A j \in 1..Len(listings) : listings'[j] = IF j = l THEN e ELSE listings[j]
    BY <2>1, <2>2, <2>3, ExceptSeq
  <2>5. DOMAIN listings' = DOMAIN listings
    BY <2>1, <2>4, LenProperties
  <2>6. \A m \in DOMAIN listings : TermsKept(m)
    BY <2>1, <2>2, <2>4, <2>5 DEF TermsKept
  <2> QED
    BY <2>5, <2>6 DEF ListingsChange
<1>10. \A c, d, moved : AssignControl(c, d, moved) => ListingsChange
  BY ListingsStay DEF AssignControl, titles
<1>11. CASE UNCHANGED vars
  BY <1>11, ListingsStay DEF vars
<1> QED
  BY <1>1, <1>2, <1>3, <1>4, <1>5, <1>6, <1>7, <1>8, <1>9, <1>10, <1>11
     DEF Next, CustomerStep, AnyReplenish, CloseBlind

-----------------------------------------------------------------------------
(* What a step does to the worth of the users.                             *)

\* What u has in holds, when H is what holds are
HeldIn(H, u) == SumFunctionOnSet([l \in ListingIds |-> H[l][u]], ListingIds)

LEMMA WealthIsCreditsAndHolds ==
    ASSUME NEW u
    PROVE  /\ Wealth(u) = credits[u] + HeldIn(hold, u)
           /\ Wealth(u)' = credits'[u] + HeldIn(hold', u)
BY SumFunctionIs DEF Wealth, HeldIn

LEMMA ListingIdsFinite == IsFiniteSet(ListingIds)
BY FS_Interval, BoundsAssumption DEF ListingIds

\* What a user holds is at least what the user holds on any listing.
LEMMA HeldInIsNat ==
    ASSUME NEW H \in [ListingIds -> [Users -> Nat]], NEW u \in Users
    PROVE  /\ HeldIn(H, u) \in Nat
           /\ \A l \in ListingIds : H[l][u] <= HeldIn(H, u)
<1> DEFINE f == [l \in ListingIds |-> H[l][u]]
<1>1. \A l \in ListingIds : f[l] \in Nat /\ f[l] = H[l][u]
  OBVIOUS
<1>2. HeldIn(H, u) = SumFunctionOnSet(f, ListingIds)
  BY DEF HeldIn
<1> HIDE DEF f
<1> QED
  BY <1>1, <1>2, SumNat, ListingIdsFinite

\* When the holds of one listing change, what u has in holds changes as much.
LEMMA HeldInChange ==
    ASSUME NEW H \in [ListingIds -> [Users -> Nat]],
           NEW G \in [ListingIds -> [Users -> Nat]],
           NEW l \in ListingIds, \A m \in ListingIds : m # l => G[m] = H[m],
           NEW u \in Users
    PROVE  HeldIn(G, u) = HeldIn(H, u) + (G[l][u] - H[l][u])
<1> DEFINE f == [m \in ListingIds |-> H[m][u]]
           g == [m \in ListingIds |-> G[m][u]]
<1>1. \A m \in ListingIds : f[m] \in Int /\ g[m] \in Int /\ (m # l => g[m] = f[m])
  OBVIOUS
<1>2. f[l] = H[l][u] /\ g[l] = G[l][u]
  OBVIOUS
<1>3. /\ HeldIn(H, u) = SumFunctionOnSet(f, ListingIds)
      /\ HeldIn(G, u) = SumFunctionOnSet(g, ListingIds)
  BY DEF HeldIn
<1> HIDE DEF f, g
<1>4. SumFunctionOnSet(g, ListingIds) = SumFunctionOnSet(f, ListingIds) + (g[l] - f[l])
  BY <1>1, SumChange, ListingIdsFinite
<1> QED
  BY <1>2, <1>3, <1>4

LEMMA WealthIsNat ==
    ASSUME TypeOK, NEW u \in Users
    PROVE  /\ Wealth(u) \in Nat
           /\ \A l \in ListingIds : hold[l][u] <= Wealth(u)
           /\ credits[u] <= Wealth(u)
<1>1. /\ HeldIn(hold, u) \in Nat /\ credits[u] \in Nat
      /\ \A l \in ListingIds : hold[l][u] \in Nat /\ hold[l][u] <= HeldIn(hold, u)
  BY HeldInIsNat DEF TypeOK
<1> QED
  BY <1>1, WealthIsCreditsAndHolds

WorthKept == \A u \in Users : Wealth(u)' = Wealth(u)

LEMMA WalletsKept == ASSUME UNCHANGED <<credits, hold>> PROVE WorthKept
BY DEF WorthKept, Wealth

\* A payment: the payer is poorer by the price, the seller richer by the price
\* less the fee, the platform by the fee.
Gains(seller, payer, price, fee) ==
    \A u \in Users : Wealth(u)' = Wealth(u) + Exchange!Gain(u, seller, payer, price, fee)

\* What u gets, and what u pays
Income(u, seller, price, fee) ==
    (IF u = seller THEN price - fee ELSE 0) + (IF u = Plat THEN fee ELSE 0)
Outlay(u, payer, price) == IF u = payer THEN price ELSE 0

LEMMA GainIsIncomeLessOutlay ==
    ASSUME NEW u, NEW seller, NEW payer, NEW price \in Nat, NEW fee \in Nat
    PROVE  /\ Exchange!Gain(u, seller, payer, price, fee)
                 = Income(u, seller, price, fee) - Outlay(u, payer, price)
           /\ Income(u, seller, price, fee) \in Int
           /\ Outlay(u, payer, price) \in Nat
BY DEF Exchange!Gain, Income, Outlay

LEMMA PaidAdds ==
    ASSUME NEW c \in [Users -> Nat], NEW seller \in Users, NEW price \in Nat,
           NEW fee \in Nat, NEW u \in Users
    PROVE  Paid(c, seller, price, fee)[u] = c[u] + Income(u, seller, price, fee)
<1> DEFINE proceeds == price - fee
           d == [c EXCEPT ![seller] = @ + proceeds]
<1>1. proceeds \in Int /\ proceeds = price - fee
  OBVIOUS
<1> HIDE DEF proceeds
<1>2. d \in [Users -> Int] /\ d[u] = c[u] + (IF u = seller THEN proceeds ELSE 0)
  BY <1>1
<1>3. Paid(c, seller, price, fee) = [d EXCEPT ![Plat] = @ + fee]
  BY DEF Paid, proceeds
<1> HIDE DEF d
<1>4. [d EXCEPT ![Plat] = @ + fee][u] = d[u] + (IF u = Plat THEN fee ELSE 0)
  BY <1>2, UsersAssumption
<1> QED
  BY <1>1, <1>2, <1>3, <1>4 DEF Income

\* A purchase pays from the wallet.
LEMMA WalletPays ==
    ASSUME TypeOK, NEW seller \in Users, NEW payer \in Users, NEW price \in Nat,
           NEW fee \in Nat, CanPay(payer, price),
           credits' = Paid([credits EXCEPT ![payer] = @ - price], seller, price, fee),
           hold' = hold
    PROVE  Gains(seller, payer, price, fee) /\ Wealth(payer) >= price
<1> DEFINE c == [credits EXCEPT ![payer] = @ - price]
<1>1. credits \in [Users -> Nat] /\ credits[payer] >= price
  BY DEF TypeOK, CanPay
<1>2. /\ c \in [Users -> Nat]
      /\ \A u \in Users : c[u] = credits[u] - Outlay(u, payer, price)
  BY <1>1 DEF Outlay
<1>3. credits' = Paid(c, seller, price, fee)
  OBVIOUS
<1> HIDE DEF c
<1>4. ASSUME NEW u \in Users
      PROVE  Wealth(u)' = Wealth(u) + Exchange!Gain(u, seller, payer, price, fee)
  <2>1. credits'[u] = c[u] + Income(u, seller, price, fee)
    BY <1>2, <1>3, PaidAdds
  <2>2. Wealth(u) = credits[u] + HeldIn(hold, u)
        /\ Wealth(u)' = credits'[u] + HeldIn(hold, u)
    BY WealthIsCreditsAndHolds
  <2>3. HeldIn(hold, u) \in Nat /\ credits[u] \in Nat
    BY <1>1, HeldInIsNat DEF TypeOK
  <2> QED
    BY <1>2, <2>1, <2>2, <2>3, GainIsIncomeLessOutlay
<1>5. Wealth(payer) >= price
  <2>1. Wealth(payer) \in Nat /\ credits[payer] <= Wealth(payer)
    BY WealthIsNat
  <2> QED
    BY <1>1, <2>1
<1> QED
  BY <1>4, <1>5 DEF Gains

\* The close of a blind sale pays from the winner's hold.
LEMMA HoldPays ==
    ASSUME TypeOK, NEW l \in ListingIds, NEW seller \in Users, NEW w \in Users,
           NEW fee \in Nat,
           credits' = Paid(credits, seller, hold[l][w], fee),
           hold' = [hold EXCEPT ![l][w] = 0]
    PROVE  Gains(seller, w, hold[l][w], fee) /\ Wealth(w) >= hold[l][w]
<1>1. credits \in [Users -> Nat] /\ hold \in [ListingIds -> [Users -> Nat]]
  BY DEF TypeOK
<1>2. PICK price \in Nat : price = hold[l][w]
  BY <1>1
<1>3. /\ hold' \in [ListingIds -> [Users -> Nat]]
      /\ \A m \in ListingIds : m # l => hold'[m] = hold[m]
      /\ \A u \in Users : hold'[l][u] = hold[l][u] - Outlay(u, w, price)
  BY <1>1, <1>2 DEF Outlay
<1>4. credits' = Paid(credits, seller, price, fee)
  BY <1>2
<1>5. ASSUME NEW u \in Users
      PROVE  Wealth(u)' = Wealth(u) + Exchange!Gain(u, seller, w, price, fee)
  <2>1. credits'[u] = credits[u] + Income(u, seller, price, fee)
    <3>1. \A c \in [Users -> Nat] :
             Paid(c, seller, price, fee)[u] = c[u] + Income(u, seller, price, fee)
      BY PaidAdds
    <3> QED
      BY <1>1, <1>4, <3>1
  <2>2. Wealth(u) = credits[u] + HeldIn(hold, u)
        /\ Wealth(u)' = credits'[u] + HeldIn(hold', u)
    BY WealthIsCreditsAndHolds
  <2>3. HeldIn(hold', u) = HeldIn(hold, u) + (hold'[l][u] - hold[l][u])
    BY <1>1, <1>3, HeldInChange
  <2>4. /\ HeldIn(hold, u) \in Nat /\ credits[u] \in Nat /\ hold[l][u] \in Nat
        /\ Outlay(u, w, price) \in Nat /\ Income(u, seller, price, fee) \in Int
    BY <1>1, HeldInIsNat, GainIsIncomeLessOutlay
  <2>5. HeldIn(hold', u) = HeldIn(hold, u) - Outlay(u, w, price)
    BY <1>3, <2>3, <2>4
  <2> QED
    BY <2>1, <2>2, <2>4, <2>5, GainIsIncomeLessOutlay
<1>6. Wealth(w) >= price
  <2>1. Wealth(w) \in Nat /\ hold[l][w] <= Wealth(w)
    BY WealthIsNat
  <2> QED
    BY <1>2, <2>1
<1> QED
  BY <1>2, <1>5, <1>6 DEF Gains

\* An offer moves credits between the wallet and the holds of each bidder.
LEMMA OfferKeepsWorth ==
    ASSUME BooksOK, NEW l \in DOMAIN listings, NEW b \in Users,
           NEW amount \in Offers, PlaceBlindBid(l, b, amount)
    PROVE  WorthKept
<1> DEFINE r == root[b]
<1>1. /\ l \in ListingIds /\ r \in Users /\ amount \in Nat
      /\ \A m \in ListingIds : m # l => hold'[m] = hold[m]
  BY OfferRows
<1>2. /\ credits \in [Users -> Nat]
      /\ hold \in [ListingIds -> [Users -> Nat]] /\ bid \in [ListingIds -> [Users -> Nat]]
      /\ hold' \in [ListingIds -> [Users -> Nat]]
      /\ bid[l][r] = hold[l][r]
  BY <1>1, NextBooksOK DEF BooksOK, TypeOK, FundedLeader, Next, CustomerStep
<1>3. /\ credits' = [u \in Users |->
                        IF u = r THEN credits[u] - Additional(l, r, amount)
                        ELSE credits[u] + Released(l, r, amount, u)]
      /\ hold' = AfterOffer(hold, l, r, amount)
  BY DEF PlaceBlindBid
<1> HIDE DEF r
<1>4. ASSUME NEW u \in Users
      PROVE  credits'[u] + (hold'[l][u] - hold[l][u]) = credits[u]
  <2>1. credits[u] \in Nat /\ hold[l][u] \in Nat /\ hold[l][r] \in Nat
    BY <1>1, <1>2
  <2>2. hold'[l][u] = IF u = r THEN amount
                      ELSE IF u \in Outbid(l, r, amount) THEN 0 ELSE hold[l][u]
    BY <1>1, <1>2, <1>3 DEF AfterOffer
  <2>3. CASE u = r
    <3>1. credits'[u] = credits[u] - Additional(l, r, amount)
      BY <1>3, <2>3
    <3>2. Additional(l, r, amount) = amount - hold[l][u]
      BY <1>2, <2>3 DEF Additional
    <3>3. hold'[l][u] = amount
      BY <2>2, <2>3
    <3> QED
      BY <1>1, <2>1, <3>1, <3>2, <3>3
  <2>4. CASE u # r
    <3> DEFINE back == IF u \in Outbid(l, r, amount) THEN hold[l][u] ELSE 0
    <3>1. credits'[u] = credits[u] + back
      BY <1>3, <2>4 DEF Released
    <3>2. hold'[l][u] = hold[l][u] - back /\ back \in Nat
      BY <2>1, <2>2, <2>4
    <3> HIDE DEF back
    <3> QED
      BY <2>1, <3>1, <3>2
  <2> QED
    BY <2>3, <2>4
<1>5. ASSUME NEW u \in Users PROVE Wealth(u)' = Wealth(u)
  <2>1. Wealth(u) = credits[u] + HeldIn(hold, u)
        /\ Wealth(u)' = credits'[u] + HeldIn(hold', u)
    BY WealthIsCreditsAndHolds
  <2>2. HeldIn(hold', u) = HeldIn(hold, u) + (hold'[l][u] - hold[l][u])
    BY <1>1, <1>2, HeldInChange
  <2>3. /\ HeldIn(hold, u) \in Nat /\ credits[u] \in Nat
        /\ hold[l][u] \in Nat /\ hold'[l][u] \in Nat
    BY <1>1, <1>2, HeldInIsNat
  <2>4. credits'[u] \in Int
    <3>1. Additional(l, r, amount) \in Int /\ Released(l, r, amount, u) \in Int
      BY <1>1, <1>2 DEF Additional, Released
    <3> QED
      BY <1>3, <2>3, <3>1
  <2> QED
    BY <1>4, <2>1, <2>2, <2>3, <2>4
<1> QED
  BY <1>5 DEF WorthKept


\* A payment between users of a finite platform leaves their total worth as it
\* was.
LEMMA PaymentsConserve ==
    ASSUME NEW W, NEW V, NEW seller \in Users, NEW payer \in Users,
           NEW price \in Nat, NEW fee \in Nat,
           \A u \in Users : /\ W[u] \in Int
                            /\ V[u] = W[u] + Exchange!Gain(u, seller, payer, price, fee)
    PROVE  SumFunctionOnSet(V, Users) = SumFunctionOnSet(W, Users)
<1> DEFINE proceeds == price - fee
           f == [u \in Users |-> IF u = seller THEN proceeds ELSE 0]
           g == [u \in Users |-> IF u = Plat THEN fee ELSE 0]
           i == [u \in Users |-> Income(u, seller, price, fee)]
           o == [u \in Users |-> Outlay(u, payer, price)]
           m == [u \in Users |-> V[u] + o[u]]
<1>0. IsFiniteSet(Users) /\ Plat \in Users
  BY UsersAssumption
<1>1. proceeds \in Int /\ proceeds + fee = price
  OBVIOUS
<1>2. \A u \in Users : i[u] = f[u] + g[u]
  BY DEF Income
<1>3. /\ \A u \in Users : f[u] \in Int /\ g[u] \in Int
      /\ f[seller] = proceeds /\ \A u \in Users \ {seller} : f[u] = 0
      /\ g[Plat] = fee /\ \A u \in Users \ {Plat} : g[u] = 0
  BY <1>0, <1>1
<1>4. \A u \in Users : o[u] \in Nat /\ o[u] = Outlay(u, payer, price)
  BY DEF Outlay
<1>5. o[payer] = price /\ \A u \in Users \ {payer} : o[u] = 0
  BY DEF Outlay
<1>6. \A u \in Users : i[u] = Income(u, seller, price, fee) /\ i[u] \in Int
  BY GainIsIncomeLessOutlay
<1>7. \A u \in Users : m[u] = V[u] + o[u]
  OBVIOUS
<1> HIDE DEF proceeds, f, g, i, o, m
<1>8. SumFunctionOnSet(f, Users) = proceeds /\ SumFunctionOnSet(g, Users) = fee
  BY <1>0, <1>1, <1>3, SumOne
<1>9. SumFunctionOnSet(i, Users) = price
  <2>1. SumFunctionOnSet(i, Users) = SumFunctionOnSet(f, Users) + SumFunctionOnSet(g, Users)
    BY <1>0, <1>2, <1>3, SumPlus
  <2> QED
    BY <1>1, <1>8, <2>1
<1>10. SumFunctionOnSet(o, Users) = price
  BY <1>0, <1>4, <1>5, SumOne
<1>11. ASSUME NEW u \in Users PROVE V[u] \in Int /\ m[u] = W[u] + i[u]
  <2>1. V[u] = W[u] + (i[u] - o[u])
    <3>1. Exchange!Gain(u, seller, payer, price, fee) = i[u] - o[u]
      BY <1>4, <1>6, GainIsIncomeLessOutlay
    <3> QED
      BY <3>1
  <2>2. W[u] \in Int /\ i[u] \in Int /\ o[u] \in Int
    BY <1>4, <1>6
  <2> QED
    BY <1>7, <2>1, <2>2
<1>12. SumFunctionOnSet(m, Users) = SumFunctionOnSet(W, Users) + price
  BY <1>0, <1>6, <1>9, <1>11, SumPlus
<1>13. SumFunctionOnSet(m, Users) = SumFunctionOnSet(V, Users) + price
  BY <1>0, <1>4, <1>7, <1>10, <1>11, SumPlus
<1>14. SumFunctionOnSet(V, Users) \in Int /\ SumFunctionOnSet(W, Users) \in Int
  BY <1>0, <1>11, SumInt
<1>15. PICK w \in Int, v \in Int : /\ w = SumFunctionOnSet(W, Users)
                                   /\ v = SumFunctionOnSet(V, Users)
  BY <1>14
<1>16. w + price = v + price
  BY <1>12, <1>13, <1>15
<1>17. w = v
  BY <1>16
<1> QED
  BY <1>15, <1>17

-----------------------------------------------------------------------------
(* Sales: the only steps that move title, records or worth.                *)

SettlesSale(l, seller, payer, buyer, price, fee) ==
    LET a == listings[l].asset
    IN /\ Active(l) /\ Close(l, "sold")
       /\ Convey(a, seller, buyer, price, fee)
       /\ Gains(seller, payer, price, fee)
       /\ Wealth(payer) >= price
       /\ seller # buyer
       /\ buyer = Plat => listings[l].lane = "none"
       /\ fee = Exchange!FeeOn(seller, price)
       /\ owner[a] \in {listings[l].seller, root[listings[l].seller]}
       /\ seller \in {owner[a], root[owner[a]]}
       /\ buyer \in {payer, root[payer]}
       /\ price = listings[l].price \/ (price = bid[l][payer] /\ price # 0)

LEMMA P2PSettles ==
    ASSUME BooksOK, NEW l \in DOMAIN listings, NEW u \in Users, PurchaseP2PFixed(l, u)
    PROVE  \E seller, payer, buyer \in Users, price, fee \in Nat :
              SettlesSale(l, seller, payer, buyer, price, fee)
<1> DEFINE a == listings[l].asset
           price == listings[l].price
           seller == root[owner[a]]
           buyer == root[root[u]]
<1>1. /\ a \in Assets /\ price \in Nat /\ listings[l].seller \in Users
      /\ owner[a] = root[listings[l].seller]
      /\ TypeOK
  BY ListingRow DEF BooksOK, TypeOK, PurchaseP2PFixed
<1>2. /\ Active(l) /\ Close(l, "sold") /\ UNCHANGED <<root, bid, hold>>
      /\ seller # buyer /\ buyer # Plat /\ seller # Plat
      /\ CanPay(buyer, price)
      /\ credits' = Paid([credits EXCEPT ![buyer] = @ - price], seller,
                         price, Fee(price))
      /\ Convey(a, seller, buyer, price, Fee(price))
  BY DEF PurchaseP2PFixed, TransferOwnership
<1>3. owner[a] \in Users /\ seller \in Users /\ buyer \in Users
  BY <1>1 DEF TypeOK
<1>4. seller \in {owner[a], root[owner[a]]}
  OBVIOUS
<1> HIDE DEF seller, buyer, price
<1>5. Fee(price) \in Nat /\ Fee(price) = Exchange!FeeOn(seller, price)
  BY <1>1, <1>2, FeeIsNat DEF Fee, Exchange!FeeOn
<1>6. Gains(seller, buyer, price, Fee(price)) /\ Wealth(buyer) >= price
  BY <1>1, <1>2, <1>3, <1>5, WalletPays
<1>7. SettlesSale(l, seller, buyer, buyer, price, Fee(price))
  BY <1>1, <1>2, <1>4, <1>5, <1>6 DEF SettlesSale, price
<1> QED
  BY <1>1, <1>3, <1>5, <1>7

LEMMA TiendaSettles ==
    ASSUME BooksOK, NEW l \in DOMAIN listings, NEW u \in Users, PurchaseTiendaFixed(l, u)
    PROVE  \E seller, payer, buyer \in Users, price, fee \in Nat :
              SettlesSale(l, seller, payer, buyer, price, fee)
<1> DEFINE a == listings[l].asset
           price == listings[l].price
           buyer == root[u]
<1>1. a \in Assets /\ price \in Nat /\ TypeOK /\ buyer \in Users /\ Plat \in Users
  BY ListingRow, UsersAssumption DEF BooksOK, TypeOK
<1>2. /\ Active(l) /\ Close(l, "sold") /\ UNCHANGED <<root, bid, hold>>
      /\ owner[a] = Plat /\ listings[l].seller = Plat
      /\ buyer # Plat
      /\ CanPay(buyer, price)
      /\ credits' = Paid([credits EXCEPT ![buyer] = @ - price], Plat, price, 0)
      /\ Convey(a, Plat, buyer, price, 0)
  BY DEF PurchaseTiendaFixed
<1> HIDE DEF buyer, price
<1>3. 0 = Exchange!FeeOn(Plat, price)
  BY DEF Exchange!FeeOn
<1>4. Gains(Plat, buyer, price, 0) /\ Wealth(buyer) >= price
  BY <1>1, <1>2, WalletPays
<1>5. SettlesSale(l, Plat, buyer, buyer, price, 0)
  BY <1>1, <1>2, <1>3, <1>4 DEF SettlesSale, price
<1> QED
  BY <1>1, <1>5

LEMMA BlindSettles ==
    ASSUME BooksOK, NEW l \in DOMAIN listings, NEW w \in Users, CloseSold(l, w)
    PROVE  \E seller, payer, buyer \in Users, price, fee \in Nat :
              SettlesSale(l, seller, payer, buyer, price, fee)
<1> DEFINE a == listings[l].asset
           price == bid[l][w]
           buyer == root[w]
           seller == root[listings[l].seller]
           fee == IF listings[l].lane = "none" THEN Fee(price) ELSE 0
<1>1. /\ l \in ListingIds /\ listings[l].seller \in Users /\ TypeOK
      /\ listings[l].lane \in Lanes
  <2>1. /\ TypeOK /\ listings \in Seq(Listing)
        /\ Len(listings) <= MaxListings /\ Len(listings) \in Nat
    BY LenProperties DEF BooksOK, TypeOK
  <2>2. /\ l \in 1..Len(listings) /\ listings[l].seller \in Users
        /\ listings[l].lane \in Lanes
    BY <2>1, ListingRow
  <2> QED
    BY <2>1, <2>2, BoundsAssumption DEF ListingIds
<1>2. price \in Nat /\ buyer \in Users /\ seller \in Users
  BY <1>1 DEF TypeOK
<1>3. /\ Active(l) /\ Close(l, "sold") /\ root' = root
      /\ Convey(a, seller, buyer, price, fee)
      /\ credits' = Paid(credits, seller, price, fee)
      /\ hold' = [hold EXCEPT ![l][w] = 0]
      /\ price = hold[l][w] /\ price # 0
      /\ buyer # seller
      /\ (listings[l].lane = "none") = (seller # Plat)
      /\ owner[a] = listings[l].seller
  BY DEF CloseSold, Closable
<1>4. seller = root[owner[a]] /\ buyer = root[w]
  BY <1>3
<1> HIDE DEF seller, buyer
<1>5. fee \in Nat /\ fee = Exchange!FeeOn(seller, price)
  <2>1. Fee(price) \in Nat
    BY <1>2, FeeIsNat
  <2> QED
    BY <1>3, <2>1 DEF Fee, Exchange!FeeOn
<1>6. price = bid[l][w]
  OBVIOUS
<1> HIDE DEF price, fee
<1>7. Gains(seller, w, price, fee) /\ Wealth(w) >= price
  BY <1>1, <1>2, <1>3, <1>5, HoldPays
<1>8. buyer = Plat => listings[l].lane = "none"
  BY <1>3
<1>9. SettlesSale(l, seller, w, buyer, price, fee)
  BY <1>3, <1>4, <1>5, <1>6, <1>7, <1>8 DEF SettlesSale
<1> QED
  BY <1>2, <1>5, <1>9

LEMMA EverySale ==
    ASSUME BooksOK, [Next]_vars
    PROVE  \/ UNCHANGED <<owner, ledger>> /\ WorthKept
           \/ \E l \in DOMAIN listings, seller, payer, buyer \in Users,
                 price, fee \in Nat : SettlesSale(l, seller, payer, buyer, price, fee)
<1>1. \A a, u, sale, price : CreateListing(a, u, sale, price) =>
         UNCHANGED <<owner, ledger, credits, hold>>
  BY DEF CreateListing, wallets
<1>2. \A l, u : CancelListing(l, u) => UNCHANGED <<owner, ledger, credits, hold>>
  BY DEF CancelListing, wallets
<1>3. \A fx, bl, sw : Replenish(fx, bl, sw) => UNCHANGED <<owner, ledger, credits, hold>>
  BY DEF Replenish, wallets
<1>4. \A l : CloseUnsold(l) => UNCHANGED <<owner, ledger, credits, hold>>
  BY DEF CloseUnsold, wallets
<1>5. \A l : EndsAtPasses(l) => UNCHANGED <<owner, ledger, credits, hold>>
  BY DEF EndsAtPasses, wallets
<1>6. \A c, d, moved : AssignControl(c, d, moved) =>
         UNCHANGED <<owner, ledger, credits, hold>>
  BY DEF AssignControl, wallets, titles
<1>7. UNCHANGED vars => UNCHANGED <<owner, ledger, credits, hold>>
  BY DEF vars
<1>8. ASSUME NEW l \in DOMAIN listings, NEW b \in Users, NEW amount \in Offers,
             PlaceBlindBid(l, b, amount)
      PROVE  UNCHANGED <<owner, ledger>> /\ WorthKept
  BY <1>8, OfferKeepsWorth DEF PlaceBlindBid, titles
<1> QED
  BY <1>1, <1>2, <1>3, <1>4, <1>5, <1>6, <1>7, <1>8, WalletsKept,
     P2PSettles, TiendaSettles, BlindSettles
     DEF Next, CustomerStep, AnyReplenish, CloseBlind

LEMMA InitWorth == ASSUME Init, NEW u \in Users PROVE Wealth(u) = InitialCredits[u]
<1> DEFINE none == [l \in ListingIds |-> hold[l][u]]
<1>1. \A l \in ListingIds : none[l] = 0
  BY DEF Init
<1>2. HeldIn(hold, u) = SumFunctionOnSet(none, ListingIds)
  BY DEF HeldIn
<1> HIDE DEF none
<1>3. SumFunctionOnSet(none, ListingIds) = 0
  BY <1>1, SumZero, ListingIdsFinite
<1>4. InitialCredits[u] \in Nat /\ credits[u] = InitialCredits[u]
  BY AmountsAssumption DEF Init
<1> QED
  BY <1>2, <1>3, <1>4, WealthIsCreditsAndHolds

\* The worth of all the users together.
TotalWorth == SumFunctionOnSet([u \in Users |-> Wealth(u)], Users)

LEMMA NextConserves ==
    ASSUME BooksOK, [Next]_vars
    PROVE  TotalWorth' = TotalWorth
<1> DEFINE W == [u \in Users |-> Wealth(u)]
           V == [u \in Users |-> Wealth(u)']
<1>1. TotalWorth = SumFunctionOnSet(W, Users) /\ TotalWorth' = SumFunctionOnSet(V, Users)
  BY DEF TotalWorth
<1>2. \A u \in Users : W[u] = Wealth(u) /\ W[u] \in Int /\ V[u] = Wealth(u)'
  BY WealthIsNat DEF BooksOK
<1> HIDE DEF W, V
<1>3. CASE WorthKept
  BY <1>1, <1>2, <1>3, SumSame, UsersAssumption DEF WorthKept
<1>4. ASSUME NEW l \in DOMAIN listings, NEW seller \in Users, NEW payer \in Users,
             NEW buyer \in Users, NEW price \in Nat, NEW fee \in Nat,
             SettlesSale(l, seller, payer, buyer, price, fee)
      PROVE  TotalWorth' = TotalWorth
  <2>1. \A u \in Users : /\ W[u] \in Int
                         /\ V[u] = W[u] + Exchange!Gain(u, seller, payer, price, fee)
    BY <1>2, <1>4 DEF SettlesSale, Gains
  <2> QED
    BY <1>1, <2>1, PaymentsConserve
<1> QED
  BY <1>3, <1>4, EverySale

\* The total worth of the users never changes: no operation makes or loses
\* credits, whatever is bought, bid, raised, released or closed.
THEOREM CreditsNeverMadeNorLost == Spec => []CreditsConserved
<1>1. CreditsConserved <=> TotalWorth = SumFunctionOnSet(InitialCredits, Users)
  BY SumFunctionIs, AmountsAssumption DEF CreditsConserved, TotalWorth
<1>2. ASSUME Init PROVE CreditsConserved
  BY <1>1, <1>2, InitWorth, SumSame, UsersAssumption DEF TotalWorth
<1>3. CreditsConserved' <=> TotalWorth' = SumFunctionOnSet(InitialCredits, Users)
  BY SumFunctionIs, AmountsAssumption DEF CreditsConserved, TotalWorth
<1>4. ASSUME BooksOK, CreditsConserved, [Next]_vars PROVE CreditsConserved'
  BY <1>1, <1>3, <1>4, NextConserves
<1> QED
  BY <1>2, <1>4, BooksKept, PTL DEF Spec

-----------------------------------------------------------------------------
(* The market as an exchange of titles.  The ledger and the title both name *)
(* the root of the account that a listing or a claim names, so the exchange *)
(* is what the market does while no account controls another.               *)

RootsFixed == root = [u \in Users |-> u]

LEMMA RootsStay ==
    ASSUME ControlPairs = {}, RootsFixed, [Next]_vars
    PROVE  RootsFixed'
<1>1. \A a, u, sale, price : CreateListing(a, u, sale, price) => root' = root
  BY DEF CreateListing
<1>2. \A l, u : CancelListing(l, u) \/ PurchaseP2PFixed(l, u)
                   \/ PurchaseTiendaFixed(l, u) => root' = root
  BY DEF CancelListing, PurchaseP2PFixed, PurchaseTiendaFixed
<1>3. \A fx, bl, sw : Replenish(fx, bl, sw) => root' = root
  BY DEF Replenish
<1>4. \A l, b, amount : PlaceBlindBid(l, b, amount) => root' = root
  BY DEF PlaceBlindBid
<1>5. \A l, w : CloseUnsold(l) \/ CloseSold(l, w) => root' = root
  BY DEF CloseUnsold, CloseSold
<1>6. \A l : EndsAtPasses(l) => root' = root
  BY DEF EndsAtPasses
<1>7. UNCHANGED vars => root' = root
  BY DEF vars
<1>8. root' = root
  BY <1>1, <1>2, <1>3, <1>4, <1>5, <1>6, <1>7
     DEF Next, CustomerStep, AnyReplenish, CloseBlind
<1> QED
  BY <1>8 DEF RootsFixed

\* A property is listed at a sale price, and bid for at an offer.
PricesKnown ==
    /\ \A l \in DOMAIN listings : listings[l].price \in SalePrices
    /\ \A l \in ListingIds, u \in Users : bid[l][u] # 0 => bid[l][u] \in Offers

LEMMA PricesStayKnown ==
    ASSUME BooksOK, PricesKnown, [Next]_vars
    PROVE  PricesKnown'
<1>1. \A l \in DOMAIN listings' : listings'[l].price \in SalePrices
  BY NextListings DEF PricesKnown, ListingsChange, TermsKept, Enters
<1>2. ASSUME NEW m \in DOMAIN listings, NEW b \in Users, NEW amount \in Offers,
             PlaceBlindBid(m, b, amount),
             NEW l \in ListingIds, NEW u \in Users, bid'[l][u] # 0
      PROVE  bid'[l][u] \in Offers
  <2>1. CASE l # m
    BY <1>2, <2>1, OfferRows DEF PricesKnown
  <2>2. CASE l = m
    <3>1. bid'[l] = AfterOffer(bid, m, root[b], amount)[m]
      BY <1>2, <2>2 DEF PlaceBlindBid
    <3>2. bid'[l][u] \in {amount, 0, bid[l][u]}
      BY <1>2, <2>2, <3>1 DEF AfterOffer, BooksOK, TypeOK
    <3> QED
      BY <1>2, <3>2 DEF PricesKnown
  <2> QED
    BY <2>1, <2>2
<1>3. ASSUME NEW m \in DOMAIN listings, NEW w \in Users, CloseSold(m, w),
             NEW l \in ListingIds, NEW u \in Users, bid'[l][u] # 0
      PROVE  bid'[l][u] \in Offers
  <2>1. bid' = [bid EXCEPT ![m][w] = 0]
    BY <1>3 DEF CloseSold
  <2>2. bid'[l][u] = bid[l][u]
    BY <1>3, <2>1 DEF BooksOK, TypeOK
  <2> QED
    BY <1>3, <2>2 DEF PricesKnown
<1>4. ASSUME bid' = bid, NEW l \in ListingIds, NEW u \in Users, bid'[l][u] # 0
      PROVE  bid'[l][u] \in Offers
  BY <1>4 DEF PricesKnown
<1> QED
  BY <1>1, <1>2, <1>3, <1>4, BidsChange DEF PricesKnown

\* A sale between roots: the seller is the owner and the buyer pays.
LEMMA SaleBetweenRoots ==
    ASSUME BooksOK, RootsFixed, PricesKnown,
           NEW l \in DOMAIN listings, NEW seller \in Users, NEW payer \in Users,
           NEW buyer \in Users, NEW price \in Nat, NEW fee \in Nat,
           SettlesSale(l, seller, payer, buyer, price, fee)
    PROVE  LET a == listings[l].asset
           IN /\ a \in Assets
              /\ owner[a] = seller /\ Exchange!Holder(a) = seller
              /\ listings[l].seller = seller
              /\ payer = buyer
              /\ price \in SalePrices /\ price >= 200
              /\ owner' = [owner EXCEPT ![a] = buyer]
              /\ Exchange!Record(a, buyer, price, fee)
<1> DEFINE a == listings[l].asset
<1>1. a \in Assets /\ listings[l].seller \in Users
  BY ListingRow DEF BooksOK, TypeOK
<1>2. root[listings[l].seller] = listings[l].seller /\ root[payer] = payer
  BY <1>1 DEF RootsFixed
<1>3. owner[a] = listings[l].seller
  BY <1>2 DEF SettlesSale
<1>4. root[owner[a]] = owner[a]
  BY <1>2, <1>3
<1>5. owner[a] = seller /\ payer = buyer
  BY <1>2, <1>4 DEF SettlesSale
<1>6. Exchange!Holder(a) = seller
  BY <1>5, UsersAssumption DEF Exchange!Holder
<1>7. price \in SalePrices
  <2>1. l \in ListingIds
    <3>1. /\ listings \in Seq(Listing) /\ Len(listings) <= MaxListings
          /\ Len(listings) \in Nat /\ l \in 1..Len(listings)
      BY ListingRow, LenProperties DEF BooksOK, TypeOK
    <3> QED
      BY <3>1, BoundsAssumption DEF ListingIds
  <2> QED
    BY <2>1 DEF SettlesSale, PricesKnown, SalePrices
<1>8. Convey(a, seller, buyer, price, fee)
  BY DEF SettlesSale
<1> QED
  BY <1>1, <1>3, <1>5, <1>6, <1>7, <1>8
     DEF Convey, MoveTitle, MinTransfer, Exchange!Record

\* Every sale of the market is one of the exchange's.
LEMMA SettlesIsTrade ==
    ASSUME BooksOK, RootsFixed, PricesKnown,
           NEW l \in DOMAIN listings, NEW seller \in Users, NEW payer \in Users,
           NEW buyer \in Users, NEW price \in Nat, NEW fee \in Nat,
           SettlesSale(l, seller, payer, buyer, price, fee)
    PROVE  Exchange!Trade
<1> DEFINE a == listings[l].asset
<1>1. /\ a \in Assets /\ Exchange!Holder(a) = seller /\ payer = buyer
      /\ price \in SalePrices /\ price >= 200
      /\ owner' = [owner EXCEPT ![a] = buyer]
      /\ Exchange!Record(a, buyer, price, fee)
  BY SaleBetweenRoots
<1>2. /\ seller # buyer /\ Wealth(payer) >= price
      /\ fee = Exchange!FeeOn(seller, price)
      /\ \A u \in Users : Wealth(u)' = Wealth(u) + Exchange!Gain(u, seller, payer, price, fee)
  BY DEF SettlesSale, Gains
<1>3. [u \in Users |-> Wealth(u)]' =
         [u \in Users |-> [v \in Users |-> Wealth(v)][u]
                            + Exchange!Gain(u, seller, buyer, price, fee)]
  BY <1>1, <1>2
<1>4. Exchange!Sell(a, buyer, price)
  BY <1>1, <1>2, <1>3 DEF Exchange!Sell
<1> QED
  BY <1>1, <1>4 DEF Exchange!Trade

LEMMA NextIsTrade ==
    ASSUME BooksOK, RootsFixed, PricesKnown, [Next]_vars
    PROVE  [Exchange!Trade]_(Exchange!vars)
<1>1. ASSUME UNCHANGED <<owner, ledger>>, WorthKept
      PROVE  UNCHANGED Exchange!vars
  <2>1. [u \in Users |-> Wealth(u)]' = [u \in Users |-> Wealth(u)]
    BY <1>1 DEF WorthKept
  <2> QED
    BY <1>1, <2>1 DEF Exchange!vars
<1> QED
  BY <1>1, EverySale, SettlesIsTrade

\* What the exchange needs of the books
ExchangeInv == BooksOK /\ RootsFixed /\ PricesKnown

LEMMA ExchangeKept ==
    ASSUME ControlPairs = {}
    PROVE  Spec => []ExchangeInv
<1>1. Init => ExchangeInv
  BY InitMarketInv, EmptySeq DEF MarketInv, ExchangeInv, Init, RootsFixed, PricesKnown
<1>2. ExchangeInv /\ [Next]_vars => ExchangeInv'
  BY NextBooksOK, RootsStay, PricesStayKnown DEF ExchangeInv
<1> QED
  BY <1>1, <1>2, PTL DEF Spec

LEMMA InitExchange == Init => Exchange!Init
<1> SUFFICES ASSUME Init PROVE Exchange!Init
  OBVIOUS
<1>1. \A u \in Users : Wealth(u) = InitialCredits[u]
  BY InitWorth
<1>2. [u \in Users |-> Wealth(u)] = InitialCredits
  BY <1>1, AmountsAssumption
<1> QED
  BY <1>2 DEF Init, Exchange!Init

\* A property changes hands only against its price, whichever of the sale paths
\* is taken and whatever bids, raises and cancellations come between: the
\* market implements the exchange of titles, when no account controls another.
THEOREM MarketIsExchange ==
    ASSUME ControlPairs = {}
    PROVE  Spec => TitleIsTraded
<1>1. ExchangeInv /\ [Next]_vars => [Exchange!Trade]_(Exchange!vars)
  BY NextIsTrade DEF ExchangeInv
<1> QED
  BY <1>1, InitExchange, ExchangeKept, PTL DEF Spec, TitleIsTraded, Exchange!TradeSpec

-----------------------------------------------------------------------------
(* The chain of conveyances.                                               *)

\* A conveyance by the holder, to the new owner, continues the chain.
LEMMA ChainGrows ==
    ASSUME TypeOK, TitleChain, NEW a \in Assets, NEW b \in Users, NEW row \in Transfers,
           row.asset = a, row.seller = Exchange!Holder(a), row.buyer = b,
           ledger' = Append(ledger, row), owner' = [owner EXCEPT ![a] = b]
    PROVE  TitleChain'
<1> DEFINE n == Len(ledger)
           first == IF InitialOwner[a] = NoUser THEN Plat ELSE InitialOwner[a]
<1>1. /\ n \in Nat /\ DOMAIN ledger = 1..n /\ DOMAIN ledger' = 1..(n + 1)
      /\ \A i \in 1..n : ledger'[i] = ledger[i]
      /\ ledger'[n + 1] = row
  BY AppendProperties, LenProperties DEF TypeOK
<1>2. owner'[a] = b /\ \A c \in Assets : c # a => owner'[c] = owner[c]
  BY DEF TypeOK
<1>rows. \A i \in 1..n : ledger[i] \in Transfers
  BY ElementOfSeq DEF TypeOK
<1> HIDE DEF n
<1>3. ASSUME NEW c \in Assets PROVE Exchange!Of(c) \subseteq 1..n
  BY <1>1 DEF Exchange!Of
<1>4. ASSUME NEW c \in Assets, c # a PROVE Exchange!Of(c)' = Exchange!Of(c)
  BY <1>1, <1>4 DEF Exchange!Of
<1>5. Exchange!Of(a)' = Exchange!Of(a) \cup {n + 1}
  BY <1>1 DEF Exchange!Of
<1>6. ASSUME NEW c \in Assets, c # a
      PROVE  /\ Exchange!Of(c)' = {} => owner'[c] = InitialOwner[c]
             /\ \A i \in Exchange!Of(c)' : (\A j \in Exchange!Of(c)' : i <= j) =>
                   ledger'[i].seller = (IF InitialOwner[c] = NoUser THEN Plat ELSE InitialOwner[c])
             /\ \A i, j \in Exchange!Of(c)' :
                   i < j /\ (\A k \in Exchange!Of(c)' : k <= i \/ j <= k) =>
                   ledger'[i].buyer = ledger'[j].seller
             /\ \A i \in Exchange!Of(c)' : (\A j \in Exchange!Of(c)' : j <= i) =>
                   owner'[c] = ledger'[i].buyer
  <2>1. /\ \A i \in Exchange!Of(c) : ledger'[i] = ledger[i]
        /\ owner'[c] = owner[c] /\ Exchange!Of(c)' = Exchange!Of(c)
    BY <1>1, <1>2, <1>3, <1>4, <1>6
  <2> DEFINE K == Exchange!Of(c)
  <2>2. /\ K = {} => owner[c] = InitialOwner[c]
        /\ \A i \in K : (\A j \in K : i <= j) =>
              ledger[i].seller = (IF InitialOwner[c] = NoUser THEN Plat ELSE InitialOwner[c])
        /\ \A i, j \in K : i < j /\ (\A k \in K : k <= i \/ j <= k) =>
              ledger[i].buyer = ledger[j].seller
        /\ \A i \in K : (\A j \in K : j <= i) => owner[c] = ledger[i].buyer
    BY DEF TitleChain, Exchange!TitleChain
  <2>3. PICK L : L = Exchange!Of(c)' /\ L = K
    BY <2>1
  <2>4. \A i \in L : ledger'[i] = ledger[i]
    BY <2>1, <2>3
  <2> HIDE DEF K
  <2>5. /\ owner'[c] = owner[c]
        /\ L = {} => owner[c] = InitialOwner[c]
        /\ \A i \in L : (\A j \in L : i <= j) =>
              ledger[i].seller = (IF InitialOwner[c] = NoUser THEN Plat ELSE InitialOwner[c])
        /\ \A i, j \in L : i < j /\ (\A k \in L : k <= i \/ j <= k) =>
              ledger[i].buyer = ledger[j].seller
        /\ \A i \in L : (\A j \in L : j <= i) => owner[c] = ledger[i].buyer
    BY <2>1, <2>2, <2>3, Zenon
  <2>6. L = {} => owner'[c] = InitialOwner[c]
    BY <2>5
  <2>7. ASSUME NEW i \in L, \A j \in L : i <= j
        PROVE  ledger'[i].seller = (IF InitialOwner[c] = NoUser THEN Plat ELSE InitialOwner[c])
    BY <2>4, <2>5, <2>7, Zenon
  <2>8. ASSUME NEW i \in L, NEW j \in L, i < j, \A k \in L : k <= i \/ j <= k
        PROVE  ledger'[i].buyer = ledger'[j].seller
    BY <2>4, <2>5, <2>8, Zenon
  <2>9. ASSUME NEW i \in L, \A j \in L : j <= i
        PROVE  owner'[c] = ledger'[i].buyer
    BY <2>4, <2>5, <2>9, Zenon
  <2> QED
    BY <2>3, <2>6, <2>7, <2>8, <2>9, Zenon
<1>7. Exchange!Of(a)' # {} /\ n + 1 \in Exchange!Of(a)'
  BY <1>5
<1>8. ASSUME NEW i \in Exchange!Of(a)', \A j \in Exchange!Of(a)' : i <= j
      PROVE  ledger'[i].seller = first
  <2>1. CASE i \in Exchange!Of(a)
    <3>1. ledger[i].seller = first
      BY <1>5, <1>8, <2>1 DEF TitleChain, Exchange!TitleChain
    <3> QED
      BY <1>1, <1>3, <2>1, <3>1
  <2>2. CASE i \notin Exchange!Of(a)
    <3>1. i = n + 1
      BY <1>5, <1>8, <2>2
    <3>2. Exchange!Of(a) = {}
      BY <1>1, <1>3, <1>5, <1>8, <3>1
    <3>3. owner[a] = InitialOwner[a]
      BY <3>2 DEF TitleChain, Exchange!TitleChain
    <3> QED
      BY <1>1, <3>1, <3>3 DEF Exchange!Holder
  <2> QED
    BY <2>1, <2>2
<1>9. ASSUME NEW i \in Exchange!Of(a)', NEW j \in Exchange!Of(a)', i < j,
             \A k \in Exchange!Of(a)' : k <= i \/ j <= k
      PROVE  ledger'[i].buyer = ledger'[j].seller
  <2>1. i \in Exchange!Of(a)
    BY <1>1, <1>3, <1>5, <1>9
  <2>2. i \in 1..n /\ ledger'[i] = ledger[i]
    BY <1>1, <1>3, <2>1
  <2>3. CASE j \in Exchange!Of(a)
    <3>1. ledger[i].buyer = ledger[j].seller
      BY <1>5, <1>9, <2>1, <2>3 DEF TitleChain, Exchange!TitleChain
    <3> QED
      BY <1>1, <1>3, <2>2, <2>3, <3>1
  <2>4. CASE j \notin Exchange!Of(a)
    <3>1. j = n + 1
      BY <1>5, <1>9, <2>4
    <3>2. \A k \in Exchange!Of(a) : k <= i
      BY <1>1, <1>3, <1>5, <1>9, <3>1
    <3>3. owner[a] = ledger[i].buyer
      BY <2>1, <3>2 DEF TitleChain, Exchange!TitleChain
    <3>4. ledger[i].buyer \in Users
      BY <1>rows, <2>2 DEF Transfers
    <3>5. Exchange!Holder(a) = owner[a]
      BY <3>3, <3>4, UsersAssumption DEF Exchange!Holder
    <3>6. ledger'[j].seller = owner[a]
      BY <1>1, <3>1, <3>5
    <3> QED
      BY <2>2, <3>3, <3>6
  <2> QED
    BY <2>3, <2>4
<1>10. ASSUME NEW i \in Exchange!Of(a)', \A j \in Exchange!Of(a)' : j <= i
       PROVE  owner'[a] = ledger'[i].buyer
  <2>1. i = n + 1
    BY <1>1, <1>3, <1>5, <1>7, <1>10
  <2> QED
    BY <1>1, <1>2, <2>1
<1>11. /\ Exchange!Of(a)' = {} => owner'[a] = InitialOwner[a]
       /\ \A i \in Exchange!Of(a)' : (\A j \in Exchange!Of(a)' : i <= j) =>
             ledger'[i].seller = first
       /\ \A i, j \in Exchange!Of(a)' :
             i < j /\ (\A k \in Exchange!Of(a)' : k <= i \/ j <= k) =>
             ledger'[i].buyer = ledger'[j].seller
       /\ \A i \in Exchange!Of(a)' : (\A j \in Exchange!Of(a)' : j <= i) =>
             owner'[a] = ledger'[i].buyer
  BY <1>7, <1>8, <1>9, <1>10
<1> SUFFICES ASSUME NEW c \in Assets
             PROVE  /\ Exchange!Of(c)' = {} => owner'[c] = InitialOwner[c]
                    /\ \A i \in Exchange!Of(c)' : (\A j \in Exchange!Of(c)' : i <= j) =>
                          ledger'[i].seller =
                             (IF InitialOwner[c] = NoUser THEN Plat ELSE InitialOwner[c])
                    /\ \A i, j \in Exchange!Of(c)' :
                          i < j /\ (\A k \in Exchange!Of(c)' : k <= i \/ j <= k) =>
                          ledger'[i].buyer = ledger'[j].seller
                    /\ \A i \in Exchange!Of(c)' : (\A j \in Exchange!Of(c)' : j <= i) =>
                          owner'[c] = ledger'[i].buyer
  BY DEF TitleChain, Exchange!TitleChain
<1>12. CASE c # a
  BY <1>6, <1>12
<1>13. CASE c = a
  <2>1. Exchange!Of(c)' = Exchange!Of(a)'
    BY <1>13 DEF Exchange!Of
  <2>2. PICK L : L = Exchange!Of(a)' /\ L = Exchange!Of(c)'
    BY <2>1
  <2>3. /\ L = {} => owner'[c] = InitialOwner[c]
        /\ \A i \in L : (\A j \in L : i <= j) =>
              ledger'[i].seller = (IF InitialOwner[c] = NoUser THEN Plat ELSE InitialOwner[c])
        /\ \A i, j \in L : i < j /\ (\A k \in L : k <= i \/ j <= k) =>
              ledger'[i].buyer = ledger'[j].seller
        /\ \A i \in L : (\A j \in L : j <= i) => owner'[c] = ledger'[i].buyer
    BY <1>11, <1>13, <2>2
  <2> QED
    BY <2>2, <2>3
<1> QED
  BY <1>12, <1>13

LEMMA ChainStays == ASSUME TitleChain, UNCHANGED <<owner, ledger>> PROVE TitleChain'
BY DEF TitleChain, Exchange!TitleChain, Exchange!Of

LEMMA InitChain == Init => TitleChain
<1> SUFFICES ASSUME Init PROVE \A a \in Assets : Exchange!Of(a) = {}
  BY DEF Init, TitleChain, Exchange!TitleChain
<1> QED
  BY EmptySeq, LenProperties DEF Init, Exchange!Of

LEMMA NextChain ==
    ASSUME ExchangeInv, TitleChain, [Next]_vars
    PROVE  TitleChain'
<1>1. CASE UNCHANGED <<owner, ledger>>
  BY <1>1, ChainStays
<1>2. ASSUME NEW l \in DOMAIN listings, NEW seller \in Users, NEW payer \in Users,
             NEW buyer \in Users, NEW price \in Nat, NEW fee \in Nat,
             SettlesSale(l, seller, payer, buyer, price, fee)
      PROVE  TitleChain'
  <2> DEFINE a == listings[l].asset
             row == [asset |-> a, seller |-> seller, buyer |-> buyer,
                     price |-> price, fee |-> fee]
  <2>1. /\ a \in Assets /\ Exchange!Holder(a) = seller
        /\ owner' = [owner EXCEPT ![a] = buyer]
        /\ Exchange!Record(a, buyer, price, fee)
    BY <1>2, SaleBetweenRoots DEF ExchangeInv
  <2>2. row \in Transfers /\ ledger' = Append(ledger, row)
    BY <2>1 DEF Transfers, Exchange!Record
  <2>3. row.asset = a /\ row.seller = seller /\ row.buyer = buyer
    OBVIOUS
  <2> HIDE DEF row
  <2> QED
    BY <2>1, <2>2, <2>3, ChainGrows DEF ExchangeInv, BooksOK
<1> QED
  BY <1>1, <1>2, EverySale DEF ExchangeInv

\* The provenance of a property is unbroken, from its first owner to its
\* present one, when no account controls another.
THEOREM ProvenanceUnbroken ==
    ASSUME ControlPairs = {}
    PROVE  Spec => []TitleChain
BY NextChain, InitChain, ExchangeKept, PTL DEF Spec

==============================================================================
