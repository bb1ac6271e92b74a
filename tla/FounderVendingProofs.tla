------------------------ MODULE FounderVendingProofs ------------------------
(***************************************************************************)
(* What is proved of vending beside the market: that reservations, market  *)
(* and gifts keep each other's books, that nobody is vended what another   *)
(* has bought, and that together they implement the exchange of titles.    *)
(* The scheduler adds no step of its own to them, so that all of it holds  *)
(* under the scheduler, too.                                               *)
(***************************************************************************)
EXTENDS AuctionTasks, FounderMarketProofs

-----------------------------------------------------------------------------
(* The inductive invariant.                                                *)

OneActive ==
    \A l, m \in DOMAIN listings :
        Active(l) /\ Active(m) /\ listings[l].asset = listings[m].asset => l = m

\* The Tienda sells what the platform owns, and what is back on the shelf is
\* the platform's or nobody's.
PlatformStock ==
    /\ \A l \in DOMAIN listings :
          Active(l) /\ listings[l].lane # "none" => listings[l].seller = Plat
    /\ \A a \in Assets : status[a] \in {"available", "treasury"} => owner[a] \in {NoUser, Plat}

ItemsTyped ==
    /\ item \in [Users -> [Assets -> Item]]
    /\ budget \in [Users -> [Assets -> Nat]]
    /\ request \in [Users -> {NoRequest} \cup [asset : Assets, item : Item]]

\* A reservation in the making is still what its checks found: its customer has
\* no item of the handle, and the credits its budget asks for.
RequestsKept ==
    \A u \in Users : request[u] # NoRequest =>
        /\ u # Plat
        /\ item[u][request[u].asset] = NoItem
        /\ \E b \in Budgets, payment \in {"credits", "unopened"},
              gift \in Customers \cup {NoUser} :
              /\ request[u].item = NewItem(b, payment, gift)
              /\ QuotedBudget(b)
              /\ payment = "credits" => credits[u] >= b

\* An item is a customer's, quoted for its budget, and claimed only if it was
\* bought as a gift.
ItemsKept ==
    \A u \in Users, a \in Assets : item[u][a] # NoItem =>
        /\ u # Plat
        /\ item[u][a].status # "none"
        /\ \E b \in Budgets : /\ QuotedBudget(b)
                              /\ item[u][a].budget = b
                              /\ item[u][a].price = ListPrice(b)
        /\ item[u][a].gift # Plat
        /\ item[u][a].claim # "none" =>
              item[u][a].status = "purchased" /\ item[u][a].gift # NoUser

InLane(a) == \E l \in DOMAIN listings :
                Active(l) /\ listings[l].asset = a /\ listings[l].lane # "none"

\* What has been vended has an owner, and is not reserved or on the shelf
\* again: not even when the platform buys it back on the market.
VendedTitle ==
    \A u \in Users, a \in Assets : item[u][a].status = "purchased" =>
        /\ owner[a] \in Users
        /\ status[a] \in {"owned", "listed"}
        /\ owner[a] = Plat => ~ InLane(a)

Vended == VendedTitle /\ VendedOnce

MarketSide == BooksOK /\ RootsFixed /\ PricesKnown /\ OneActive

VendingInv ==
    /\ MarketSide
    /\ PlatformStock
    /\ ItemsTyped
    /\ RequestsKept
    /\ ItemsKept
    /\ Vended
    /\ BudgetHeldWhileQuoted
    /\ ConveyancesAccounted

-----------------------------------------------------------------------------
(* Lemmas about items.                                                     *)

LEMMA ListPriceIsNat == ASSUME NEW b \in Nat PROVE ListPrice(b) \in Nat
BY DEF ListPrice

LEMMA NewItemIs ==
    ASSUME NEW b \in Budgets, NEW payment \in {"credits", "unopened"},
           NEW gift \in Customers \cup {NoUser}
    PROVE  /\ NewItem(b, payment, gift) \in Item
           /\ NewItem(b, payment, gift).status = "quoted"
           /\ NewItem(b, payment, gift).budget = b
           /\ NewItem(b, payment, gift).price = ListPrice(b)
           /\ NewItem(b, payment, gift).payment = payment
           /\ NewItem(b, payment, gift).gift = gift
           /\ NewItem(b, payment, gift).claim = "none"
           /\ b \in Nat /\ ListPrice(b) \in Nat
           /\ gift # Plat
<1>1. b \in Nat /\ ListPrice(b) \in Nat
  BY ListPriceIsNat, VendingAssumption
<1>2. PICK p \in Nat : p = ListPrice(b)
  BY <1>1
<1>3. gift \in Users \cup {NoUser} /\ gift # Plat
  BY UsersAssumption DEF Customers
<1>4. NoItem \in Item
  BY DEF NoItem, Item, Payments
<1>5. NewItem(b, payment, gift) =
         [NoItem EXCEPT !.status = "quoted", !.budget = b, !.price = p,
                        !.payment = payment, !.gift = gift]
  BY <1>2 DEF NewItem
<1>6. NoItem.claim = "none"
  BY DEF NoItem
<1>7. PICK none \in Item : none = NoItem
  BY <1>4
<1>8. NewItem(b, payment, gift) =
         [none EXCEPT !.status = "quoted", !.budget = b, !.price = p,
                      !.payment = payment, !.gift = gift]
  BY <1>5, <1>7
<1>9. NewItem(b, payment, gift) \in Item
  BY <1>1, <1>2, <1>3, <1>8 DEF Item, Payments
<1>10. /\ NewItem(b, payment, gift).status = "quoted"
       /\ NewItem(b, payment, gift).budget = b
       /\ NewItem(b, payment, gift).price = p
       /\ NewItem(b, payment, gift).payment = payment
       /\ NewItem(b, payment, gift).gift = gift
       /\ NewItem(b, payment, gift).claim = none.claim
  BY <1>8 DEF Item
<1> QED
  BY <1>1, <1>2, <1>3, <1>6, <1>7, <1>9, <1>10

LEMMA ItemRow ==
    ASSUME ItemsTyped, NEW u \in Users, NEW a \in Assets
    PROVE  /\ item[u][a] \in Item
           /\ item[u][a].budget \in Nat /\ item[u][a].price \in Nat
           /\ item[u][a].gift \in Users \cup {NoUser}
           /\ item[u][a].payment \in Payments
           /\ budget[u][a] \in Nat
<1>1. item[u][a] \in Item /\ budget[u][a] \in Nat
  BY DEF ItemsTyped
<1> QED
  BY <1>1 DEF Item

\* An item that has a status is one.
LEMMA ItemIs ==
    ASSUME NEW u \in Users, NEW a \in Assets,
           item[u][a].status # "none" \/ item[u][a].payment # "credits"
             \/ item[u][a].claim # "none"
    PROVE  item[u][a] # NoItem
BY DEF NoItem

\* One item moves on: its budget, price and recipient stay.
LEMMA ItemMoves ==
    ASSUME ItemsTyped, RequestsKept, ItemsKept, WalletsLocked, request' = request,
           NEW u \in Users, NEW a \in Assets, item[u][a] # NoItem,
           NEW new \in Item, item' = [item EXCEPT ![u][a] = new],
           new.budget = item[u][a].budget, new.price = item[u][a].price,
           new.gift = item[u][a].gift, new.status # "none",
           new.claim # "none" => new.status = "purchased" /\ new.gift # NoUser,
           budget' \in [Users -> [Assets -> Nat]]
    PROVE  /\ ItemsTyped' /\ RequestsKept' /\ ItemsKept'
           /\ item'[u][a] = new
           /\ \A v \in Users, b \in Assets : v # u \/ b # a => item'[v][b] = item[v][b]
<1>1. /\ item'[u][a] = new
      /\ \A v \in Users, b \in Assets : v # u \/ b # a => item'[v][b] = item[v][b]
      /\ item' \in [Users -> [Assets -> Item]]
  BY DEF ItemsTyped
<1>2. ItemsTyped'
  BY <1>1 DEF ItemsTyped
<1>3. ItemsKept'
  <2>1. ASSUME NEW v \in Users, NEW b \in Assets, item'[v][b] # NoItem
        PROVE  /\ v # Plat
               /\ item'[v][b].status # "none"
               /\ \E q \in Budgets : /\ QuotedBudget(q)
                                     /\ item'[v][b].budget = q
                                     /\ item'[v][b].price = ListPrice(q)
               /\ item'[v][b].gift # Plat
               /\ item'[v][b].claim # "none" =>
                     item'[v][b].status = "purchased" /\ item'[v][b].gift # NoUser
    <3>1. CASE v = u /\ b = a
      BY <1>1, <3>1 DEF ItemsKept
    <3>2. CASE v # u \/ b # a
      BY <1>1, <2>1, <3>2 DEF ItemsKept
    <3> QED
      BY <3>1, <3>2
  <2> QED
    BY <2>1 DEF ItemsKept
<1>4. RequestsKept'
  <2>1. ASSUME NEW v \in Users, request[v] # NoRequest
        PROVE  /\ item'[v][request[v].asset] = NoItem
               /\ request[v].item.payment = "credits" => credits'[v] = credits[v]
    <3>1. request[v].asset \in Assets
      BY <2>1 DEF ItemsTyped
    <3>2. item[v][request[v].asset] = NoItem
      BY <2>1 DEF RequestsKept
    <3> QED
      BY <1>1, <2>1, <3>1, <3>2 DEF WalletsLocked
  <2>2. ASSUME NEW v \in Users, request[v] # NoRequest
        PROVE  \E b \in Budgets, payment \in {"credits", "unopened"},
                  gift \in Customers \cup {NoUser} :
                  /\ request[v].item = NewItem(b, payment, gift)
                  /\ QuotedBudget(b)
                  /\ payment = "credits" => credits'[v] >= b
    BY <2>1, <2>2, NewItemIs DEF RequestsKept
  <2> QED
    BY <2>1, <2>2 DEF RequestsKept
<1> QED
  BY <1>1, <1>2, <1>3, <1>4

\* No item changes, and no wallet a reservation has locked.
LEMMA ItemsStay ==
    ASSUME ItemsTyped, RequestsKept, ItemsKept, WalletsLocked, UNCHANGED vendingVars
    PROVE  ItemsTyped' /\ RequestsKept' /\ ItemsKept'
<1>1. ItemsTyped' /\ ItemsKept'
  BY DEF ItemsTyped, ItemsKept, vendingVars
<1>2. ASSUME NEW v \in Users, request[v] # NoRequest
      PROVE  \E b \in Budgets, payment \in {"credits", "unopened"},
                gift \in Customers \cup {NoUser} :
                /\ request[v].item = NewItem(b, payment, gift)
                /\ QuotedBudget(b)
                /\ payment = "credits" => credits'[v] >= b
  BY <1>2, NewItemIs DEF RequestsKept, WalletsLocked
<1>3. RequestsKept'
  BY <1>2 DEF RequestsKept, vendingVars
<1> QED
  BY <1>1, <1>3

-----------------------------------------------------------------------------
(* Lemmas about titles and the market's side.                              *)

LEMMA MarketSideStays ==
    ASSUME MarketSide, UNCHANGED <<root, listings, bid, hold>>,
           credits' \in [Users -> Nat],
           owner' \in [Assets -> Users \cup {NoUser}],
           status' \in [Assets -> {"available", "owned", "listed", "reserved", "treasury"}],
           ledger' \in Seq(Transfers)
    PROVE  MarketSide'
<1>1. BooksOK'
  BY DEF MarketSide, BooksOK, TypeOK, FundedLeader, HoldsOnlyWhileOpen, Active
<1>2. RootsFixed' /\ PricesKnown' /\ OneActive'
  BY DEF MarketSide, RootsFixed, PricesKnown, OneActive, Active
<1> QED
  BY <1>1, <1>2 DEF MarketSide

\* What vending does to the title of a property
TitleSame(a) == status'[a] = status[a] /\ owner'[a] = owner[a]
TitleFreed(a) == status'[a] = "available" /\ owner'[a] = owner[a] /\ owner[a] = NoUser
TitleReserved(a) == status'[a] = "reserved" /\ owner'[a] = owner[a] /\ Vendable(a)
TitleConveyed(a) == status'[a] = "owned" /\ owner'[a] \in Customers

LEMMA TitlesKept ==
    ASSUME PlatformStock, Vended, listings' = listings,
           \A a \in Assets : TitleSame(a) \/ TitleFreed(a) \/ TitleReserved(a) \/ TitleConveyed(a),
           \A u \in Users, a \in Assets :
              item'[u][a].status = "purchased" =>
                 \/ item[u][a].status = "purchased"
                 \/ /\ TitleConveyed(a) /\ status[a] = "reserved"
                    /\ \A v \in Users : v # u => item'[v][a].status = item[v][a].status
    PROVE  PlatformStock' /\ Vended'
<1>1. \A l : Active(l)' <=> Active(l)
  BY DEF Active
<1>2. \A a : InLane(a)' <=> InLane(a)
  BY DEF InLane, Active
<1>3. NoUser \notin Users /\ Customers \subseteq Users /\ Plat \notin Customers
  BY UsersAssumption DEF Customers
<1>4. PlatformStock'
  <2>1. \A l \in DOMAIN listings' :
           Active(l)' /\ listings'[l].lane # "none" => listings'[l].seller = Plat
    BY <1>1 DEF PlatformStock
  <2>2. \A a \in Assets : status'[a] \in {"available", "treasury"} => owner'[a] \in {NoUser, Plat}
    BY DEF PlatformStock, TitleSame, TitleFreed, TitleReserved, TitleConveyed
  <2> QED
    BY <2>1, <2>2 DEF PlatformStock
<1>5. ASSUME NEW u \in Users, NEW a \in Assets, item'[u][a].status = "purchased"
      PROVE  /\ owner'[a] \in Users
             /\ status'[a] \in {"owned", "listed"}
             /\ owner'[a] = Plat => ~ InLane(a)'
  <2>1. CASE TitleConveyed(a)
    BY <1>3, <2>1 DEF TitleConveyed
  <2>2. CASE item[u][a].status = "purchased" /\ ~ TitleConveyed(a)
    <3>1. /\ owner[a] \in Users /\ status[a] \in {"owned", "listed"}
          /\ owner[a] = Plat => ~ InLane(a)
      BY <2>2 DEF Vended, VendedTitle
    <3>2. ~ Vendable(a)
      BY <1>3, <3>1 DEF Vendable, InTienda, InLane
    <3>3. TitleSame(a)
      BY <1>3, <2>2, <3>1, <3>2 DEF TitleFreed, TitleReserved
    <3> QED
      BY <1>2, <3>1, <3>3 DEF TitleSame
  <2> QED
    BY <1>5, <2>1, <2>2
<1>6. VendedOnce'
  <2>1. ASSUME NEW u \in Users, NEW v \in Users, NEW a \in Assets, u # v,
               item'[u][a].status = "purchased", item'[v][a].status = "purchased"
        PROVE  FALSE
    <3>1. item[u][a].status = "purchased" \/ item[v][a].status = "purchased"
      BY <2>1
    <3>2. status[a] # "reserved"
      BY <3>1 DEF Vended, VendedTitle
    <3>3. item[u][a].status = "purchased" /\ item[v][a].status = "purchased"
      BY <2>1, <3>2
    <3> QED
      BY <2>1, <3>3 DEF Vended, VendedOnce
  <2> QED
    BY <2>1 DEF VendedOnce
<1>7. Vended'
  BY <1>5, <1>6 DEF Vended, VendedTitle
<1> QED
  BY <1>4, <1>7

-----------------------------------------------------------------------------
(* Lemmas about the books.                                                 *)

Purchased == {i \in Users \X Assets : item[i[1]][i[2]].status = "purchased"}
Claimed == {i \in Users \X Assets : item[i[1]][i[2]].claim = "claimed"}

LEMMA AccountsAre ==
    /\ ConveyancesAccounted <=>
          Len(ledger) = Cardinality(SoldRows) + Cardinality(Purchased) + Cardinality(Claimed)
    /\ ConveyancesAccounted' <=>
          Len(ledger') = Cardinality(SoldRows') + Cardinality(Purchased') + Cardinality(Claimed')
BY DEF ConveyancesAccounted, SoldRows, Purchased, Claimed

LEMMA AccountsFinite ==
    ASSUME BooksOK
    PROVE  /\ IsFiniteSet(SoldRows) /\ IsFiniteSet(Purchased) /\ IsFiniteSet(Claimed)
           /\ Cardinality(SoldRows) \in Nat /\ Cardinality(Purchased) \in Nat
           /\ Cardinality(Claimed) \in Nat
<1>1. DOMAIN listings = 1..Len(listings) /\ Len(listings) \in Nat
  BY LenProperties DEF BooksOK, TypeOK
<1>2. IsFiniteSet(DOMAIN listings)
  BY <1>1, FS_Interval
<1>3. IsFiniteSet(Users \X Assets)
  BY FS_Product, UsersAssumption, VendingAssumption
<1>4. IsFiniteSet(SoldRows)
  BY <1>2, FS_Subset DEF SoldRows
<1>5. IsFiniteSet(Purchased) /\ IsFiniteSet(Claimed)
  <2>1. Purchased \in SUBSET (Users \X Assets) /\ Claimed \in SUBSET (Users \X Assets)
    BY DEF Purchased, Claimed
  <2> QED
    BY <1>3, <2>1, FS_Subset
<1> QED
  BY <1>4, <1>5, FS_CardinalityType

\* One cause more and one record more, or neither
LEMMA AccountsKept ==
    ASSUME BooksOK, ConveyancesAccounted,
           \/ /\ ledger' = ledger /\ SoldRows' = SoldRows
              /\ Purchased' = Purchased /\ Claimed' = Claimed
           \/ /\ \E l \in DOMAIN listings : Sells(l)
              /\ Purchased' = Purchased /\ Claimed' = Claimed
           \/ /\ Len(ledger') = Len(ledger) + 1 /\ SoldRows' = SoldRows
              /\ \E i : i \notin Purchased /\ Purchased' = Purchased \cup {i}
              /\ Claimed' = Claimed
           \/ /\ Len(ledger') = Len(ledger) + 1 /\ SoldRows' = SoldRows
              /\ Purchased' = Purchased
              /\ \E i : i \notin Claimed /\ Claimed' = Claimed \cup {i}
    PROVE  ConveyancesAccounted'
<1>1. Len(ledger) = Cardinality(SoldRows) + Cardinality(Purchased) + Cardinality(Claimed)
  BY AccountsAre
<1>2. CASE /\ ledger' = ledger /\ SoldRows' = SoldRows
           /\ Purchased' = Purchased /\ Claimed' = Claimed
  BY <1>1, <1>2, AccountsAre
<1>3. CASE /\ \E l \in DOMAIN listings : Sells(l)
           /\ Purchased' = Purchased /\ Claimed' = Claimed
  <2>1. PICK l \in DOMAIN listings : Sells(l)
    BY <1>3
  <2>2. l \notin SoldRows
    BY <2>1 DEF Sells, SoldRows, Active
  <2>3. Cardinality(SoldRows') = Cardinality(SoldRows) + 1
    BY <2>1, <2>2, AccountsFinite, FS_AddElement DEF Sells
  <2>4. Len(ledger') = Len(ledger) + 1
    BY <2>1 DEF Sells
  <2> QED
    BY <1>1, <1>3, <2>3, <2>4, AccountsFinite, AccountsAre
<1>4. CASE /\ Len(ledger') = Len(ledger) + 1 /\ SoldRows' = SoldRows
           /\ \E i : i \notin Purchased /\ Purchased' = Purchased \cup {i}
           /\ Claimed' = Claimed
  <2>1. Cardinality(Purchased') = Cardinality(Purchased) + 1
    BY <1>4, AccountsFinite, FS_AddElement
  <2> QED
    BY <1>1, <1>4, <2>1, AccountsFinite, AccountsAre
<1>5. CASE /\ Len(ledger') = Len(ledger) + 1 /\ SoldRows' = SoldRows
           /\ Purchased' = Purchased
           /\ \E i : i \notin Claimed /\ Claimed' = Claimed \cup {i}
  <2>1. Cardinality(Claimed') = Cardinality(Claimed) + 1
    BY <1>5, AccountsFinite, FS_AddElement
  <2> QED
    BY <1>1, <1>5, <2>1, AccountsFinite, AccountsAre
<1> QED
  BY <1>2, <1>3, <1>4, <1>5

\* Items that are neither bought nor claimed now change no account.
LEMMA CausesStay ==
    ASSUME \A u \in Users, a \in Assets :
              /\ (item'[u][a].status = "purchased") = (item[u][a].status = "purchased")
              /\ (item'[u][a].claim = "claimed") = (item[u][a].claim = "claimed")
    PROVE  Purchased' = Purchased /\ Claimed' = Claimed
<1>1. \A i \in Users \X Assets : i[1] \in Users /\ i[2] \in Assets
  OBVIOUS
<1> QED
  BY <1>1 DEF Purchased, Claimed

\* No step of the vending's closes a listing.
LEMMA SalesStay == ASSUME listings' = listings PROVE SoldRows' = SoldRows
BY DEF SoldRows

LEMMA InitVending == VendingInit => VendingInv
<1> SUFFICES ASSUME VendingInit PROVE VendingInv
  OBVIOUS
<1>1. Init
  BY DEF VendingInit
<1>2. DOMAIN listings = {} /\ ledger = <<>> /\ Len(ledger) = 0
  BY <1>1, EmptySeq, LenProperties DEF Init
<1>3. MarketSide
  <2>1. BooksOK
    BY <1>1, InitMarketInv DEF MarketInv
  <2>2. RootsFixed /\ PricesKnown /\ OneActive
    BY <1>1, <1>2 DEF Init, RootsFixed, PricesKnown, OneActive
  <2> QED
    BY <2>1, <2>2 DEF MarketSide
<1>4. \A a \in Assets : status[a] \in {"available", "treasury"} => owner[a] \in {NoUser, Plat}
  BY <1>1 DEF Init
<1>5. PlatformStock
  BY <1>2, <1>4 DEF PlatformStock
<1>6. \A u \in Users, a \in Assets : item[u][a] = NoItem /\ budget[u][a] = 0
  BY DEF VendingInit
<1>7. NoItem \in Item
  BY DEF NoItem, Item, Payments
<1>8. ItemsTyped
  BY <1>7 DEF VendingInit, ItemsTyped
<1>9. RequestsKept /\ ItemsKept
  BY <1>6 DEF VendingInit, RequestsKept, ItemsKept
<1>10. NoItem.status = "none" /\ NoItem.claim = "none"
  BY DEF NoItem
<1>11. Vended /\ BudgetHeldWhileQuoted
  BY <1>6, <1>10 DEF Vended, VendedTitle, VendedOnce, BudgetHeldWhileQuoted, Quoted
<1>12. SoldRows = {} /\ Purchased = {} /\ Claimed = {}
  <2>1. \A i \in Users \X Assets : item[i[1]][i[2]] = NoItem
    BY <1>6
  <2> QED
    BY <1>2, <1>10, <2>1 DEF SoldRows, Purchased, Claimed
<1>13. ConveyancesAccounted
  BY <1>2, <1>12, FS_EmptySet, AccountsAre
<1> QED
  BY <1>3, <1>5, <1>8, <1>9, <1>11, <1>13 DEF VendingInv

-----------------------------------------------------------------------------
(* Steps of a reservation.                                                 *)

\* A step that leaves the market as it is and buys or claims nothing
LEMMA MarketRests ==
    ASSUME VendingInv, UNCHANGED vars,
           \A u \in Users, a \in Assets :
              /\ (item'[u][a].status = "purchased") = (item[u][a].status = "purchased")
              /\ (item'[u][a].claim = "claimed") = (item[u][a].claim = "claimed")
    PROVE  MarketSide' /\ PlatformStock' /\ Vended' /\ ConveyancesAccounted'
<1>1. /\ MarketSide /\ BooksOK /\ UNCHANGED <<root, listings, bid, hold>>
      /\ credits' = credits /\ owner' = owner /\ status' = status /\ ledger' = ledger
  BY DEF VendingInv, MarketSide, vars
<1>2. MarketSide'
  BY <1>1, MarketSideStays DEF BooksOK, TypeOK
<1>3. PlatformStock' /\ Vended'
  <2>1. \A a \in Assets : TitleSame(a)
    BY <1>1 DEF TitleSame
  <2> QED
    BY <1>1, <2>1, TitlesKept DEF VendingInv
<1>4. ConveyancesAccounted'
  BY <1>1, CausesStay, SalesStay, AccountsKept DEF VendingInv
<1> QED
  BY <1>2, <1>3, <1>4

LEMMA ReserveChecksStep ==
    ASSUME VendingInv, NEW u \in Customers, NEW a \in Assets, NEW b \in Budgets,
           NEW payment \in {"credits", "unopened"}, NEW gift \in Customers \cup {NoUser},
           ReserveChecks(u, a, b, payment, gift)
    PROVE  VendingInv'
<1> DEFINE new == NewItem(b, payment, gift)
<1>1. /\ UNCHANGED vars /\ item' = item /\ budget' = budget
      /\ credits' = credits
      /\ request' = [request EXCEPT ![u] = [asset |-> a, item |-> new]]
      /\ item[u][a] = NoItem /\ QuotedBudget(b)
      /\ payment = "credits" => credits[u] >= b
      /\ ItemsTyped /\ RequestsKept
  BY DEF ReserveChecks, VendingInv, vars, CanPay
<1>2. u \in Users /\ u # Plat
  BY DEF Customers
<1>3. new \in Item
  BY NewItemIs
<1>4. MarketSide' /\ PlatformStock' /\ Vended' /\ ConveyancesAccounted'
  BY <1>1, MarketRests
<1>5. ItemsKept' /\ BudgetHeldWhileQuoted'
  BY <1>1 DEF VendingInv, ItemsKept, BudgetHeldWhileQuoted, Quoted, InCredits
<1>6. new = NewItem(b, payment, gift)
  OBVIOUS
<1> HIDE DEF new
<1>7. /\ request'[u] = [asset |-> a, item |-> new]
      /\ \A v \in Users : v # u => request'[v] = request[v]
      /\ request' \in [Users -> {NoRequest} \cup [asset : Assets, item : Item]]
  BY <1>1, <1>2, <1>3 DEF ItemsTyped
<1>8. ItemsTyped'
  BY <1>1, <1>7 DEF ItemsTyped
<1>9. request'[u].asset = a /\ request'[u].item = new
  BY <1>7
<1>10. RequestsKept'
  BY <1>1, <1>2, <1>6, <1>7, <1>9 DEF RequestsKept
<1> QED
  BY <1>4, <1>5, <1>8, <1>10 DEF VendingInv

LEMMA ReserveFailsStep ==
    ASSUME VendingInv, NEW u \in Users, ReserveFails(u)
    PROVE  VendingInv'
<1>1. /\ UNCHANGED vars /\ item' = item /\ budget' = budget /\ credits' = credits
      /\ request' = [request EXCEPT ![u] = NoRequest]
      /\ ItemsTyped /\ RequestsKept
  BY DEF ReserveFails, VendingInv, vars
<1>2. MarketSide' /\ PlatformStock' /\ Vended' /\ ConveyancesAccounted'
  BY <1>1, MarketRests
<1>3. ItemsKept' /\ BudgetHeldWhileQuoted'
  BY <1>1 DEF VendingInv, ItemsKept, BudgetHeldWhileQuoted, Quoted, InCredits
<1>4. /\ request'[u] = NoRequest
      /\ \A v \in Users : v # u => request'[v] = request[v]
      /\ ItemsTyped'
  BY <1>1 DEF ItemsTyped
<1>5. RequestsKept'
  BY <1>1, <1>4 DEF RequestsKept
<1> QED
  BY <1>2, <1>3, <1>4, <1>5 DEF VendingInv

LEMMA ReserveCommitsStep ==
    ASSUME VendingInv, NEW u \in Users, ReserveCommits(u)
    PROVE  VendingInv'
<1>1. /\ ItemsTyped /\ RequestsKept /\ MarketSide /\ BooksOK /\ TypeOK
      /\ request[u] # NoRequest
  BY DEF VendingInv, MarketSide, BooksOK, ReserveCommits
<1>2. PICK a \in Assets, new \in Item : a = request[u].asset /\ new = request[u].item
  BY <1>1 DEF ItemsTyped
<1>3. PICK b \in Budgets, payment \in {"credits", "unopened"},
           gift \in Customers \cup {NoUser} :
           /\ new = NewItem(b, payment, gift)
           /\ QuotedBudget(b)
           /\ payment = "credits" => credits[u] >= b
  BY <1>1, <1>2 DEF RequestsKept
<1>4. u # Plat /\ item[u][a] = NoItem
  BY <1>1, <1>2 DEF RequestsKept
<1>5. /\ new.status = "quoted" /\ new.budget = b /\ new.price = ListPrice(b)
      /\ new.payment = payment /\ new.gift = gift /\ new.claim = "none"
      /\ b \in Nat /\ gift # Plat
  BY <1>3, NewItemIs
<1>6. PICK held \in Nat : held = IF payment = "credits" THEN b ELSE 0
  BY <1>5
<1>7. /\ Vendable(a)
      /\ credits' = [credits EXCEPT ![u] = @ - held]
      /\ item' = [item EXCEPT ![u][a] = new]
      /\ budget' = [budget EXCEPT ![u][a] = held]
      /\ status' = [status EXCEPT ![a] = "reserved"]
      /\ request' = [request EXCEPT ![u] = NoRequest]
      /\ UNCHANGED <<root, owner, listings, bid, hold, ledger>>
  BY <1>2, <1>5, <1>6 DEF ReserveCommits
<1>8. /\ credits' \in [Users -> Nat]
      /\ \A v \in Users : v # u => credits'[v] = credits[v]
  <2>1. credits[u] \in Nat /\ held <= credits[u]
    BY <1>1, <1>3, <1>6 DEF TypeOK
  <2> QED
    BY <1>1, <1>7, <2>1 DEF TypeOK
<1>9. /\ item'[u][a] = new /\ budget'[u][a] = held
      /\ \A v \in Users, c \in Assets : v # u \/ c # a =>
            item'[v][c] = item[v][c] /\ budget'[v][c] = budget[v][c]
      /\ request'[u] = NoRequest
      /\ \A v \in Users : v # u => request'[v] = request[v]
      /\ ItemsTyped'
  BY <1>1, <1>7 DEF ItemsTyped
<1>10. MarketSide'
  <2>1. status' \in [Assets -> {"available", "owned", "listed", "reserved", "treasury"}]
    BY <1>1, <1>7 DEF TypeOK
  <2> QED
    BY <1>1, <1>7, <1>8, <2>1, MarketSideStays DEF TypeOK
<1>11. NoItem.status = "none" /\ NoItem.claim = "none"
  BY DEF NoItem
<1>12. \A v \in Users, c \in Assets :
          /\ (item'[v][c].status = "purchased") = (item[v][c].status = "purchased")
          /\ (item'[v][c].claim = "claimed") = (item[v][c].claim = "claimed")
  BY <1>4, <1>5, <1>9, <1>11
<1>13. PlatformStock' /\ Vended'
  <2>1. \A c \in Assets : TitleSame(c) \/ TitleReserved(c)
    BY <1>1, <1>7 DEF TitleSame, TitleReserved, TypeOK
  <2> QED
    BY <1>7, <1>12, <2>1, TitlesKept DEF VendingInv
<1>14. ConveyancesAccounted'
  BY <1>1, <1>7, <1>12, CausesStay, SalesStay, AccountsKept DEF VendingInv
<1>15. BudgetHeldWhileQuoted'
  <2>1. ASSUME NEW v \in Users, NEW c \in Assets
        PROVE  budget'[v][c] = IF Quoted(v, c)' /\ InCredits(v, c)'
                                 THEN item'[v][c].budget ELSE 0
    <3>1. CASE v = u /\ c = a
      BY <1>5, <1>6, <1>9, <3>1 DEF Quoted, InCredits
    <3>2. CASE v # u \/ c # a
      BY <1>9, <3>2 DEF VendingInv, BudgetHeldWhileQuoted, Quoted, InCredits
    <3> QED
      BY <3>1, <3>2
  <2> QED
    BY <2>1 DEF BudgetHeldWhileQuoted
<1>16. ItemsKept'
  <2>1. ASSUME NEW v \in Users, NEW c \in Assets, item'[v][c] # NoItem
        PROVE  /\ v # Plat
               /\ item'[v][c].status # "none"
               /\ \E q \in Budgets : /\ QuotedBudget(q)
                                     /\ item'[v][c].budget = q
                                     /\ item'[v][c].price = ListPrice(q)
               /\ item'[v][c].gift # Plat
               /\ item'[v][c].claim # "none" =>
                     item'[v][c].status = "purchased" /\ item'[v][c].gift # NoUser
    <3>1. CASE v = u /\ c = a
      BY <1>3, <1>4, <1>5, <1>9, <3>1
    <3>2. CASE v # u \/ c # a
      BY <1>9, <2>1, <3>2 DEF VendingInv, ItemsKept
    <3> QED
      BY <3>1, <3>2
  <2> QED
    BY <2>1 DEF ItemsKept
<1>17. RequestsKept'
  <2>1. ASSUME NEW v \in Users, request'[v] # NoRequest
        PROVE  /\ v # u /\ request'[v] = request[v] /\ credits'[v] = credits[v]
               /\ item'[v][request[v].asset] = item[v][request[v].asset]
    BY <1>1, <1>8, <1>9, <2>1 DEF ItemsTyped
  <2> QED
    BY <1>1, <2>1 DEF RequestsKept
<1> QED
  BY <1>9, <1>10, <1>13, <1>14, <1>15, <1>16, <1>17 DEF VendingInv


\* A step that moves one item on, with nothing bought, claimed or paid
LEMMA OnlyItemMoves ==
    ASSUME VendingInv, UNCHANGED <<vars, budget, request>>,
           NEW u \in Users, NEW a \in Assets, item[u][a] # NoItem,
           NEW new \in Item, item' = [item EXCEPT ![u][a] = new],
           new.budget = item[u][a].budget, new.price = item[u][a].price,
           new.gift = item[u][a].gift, new.status = item[u][a].status,
           new.claim = item[u][a].claim,
           (new.payment = "credits") = (item[u][a].payment = "credits")
    PROVE  VendingInv'
<1>1. /\ ItemsTyped /\ RequestsKept /\ ItemsKept /\ credits' = credits
      /\ request' = request /\ budget' = budget /\ UNCHANGED vars
      /\ budget' \in [Users -> [Assets -> Nat]]
  BY DEF VendingInv, ItemsTyped, vars
<1>2. WalletsLocked
  BY <1>1 DEF WalletsLocked
<1>3. /\ new.status # "none"
      /\ new.claim # "none" => new.status = "purchased" /\ new.gift # NoUser
  BY <1>1 DEF ItemsKept
<1>4. /\ ItemsTyped' /\ RequestsKept' /\ ItemsKept'
      /\ item'[u][a] = new
      /\ \A v \in Users, b \in Assets : v # u \/ b # a => item'[v][b] = item[v][b]
  BY <1>1, <1>2, <1>3, ItemMoves
<1>5. \A v \in Users, b \in Assets :
         /\ item'[v][b].status = item[v][b].status
         /\ item'[v][b].claim = item[v][b].claim
         /\ item'[v][b].budget = item[v][b].budget
         /\ (item'[v][b].payment = "credits") = (item[v][b].payment = "credits")
  BY <1>4
<1>6. MarketSide' /\ PlatformStock' /\ Vended' /\ ConveyancesAccounted'
  BY <1>1, <1>5, MarketRests
<1>7. BudgetHeldWhileQuoted'
  BY <1>1, <1>5 DEF VendingInv, BudgetHeldWhileQuoted, Quoted, InCredits
<1> QED
  BY <1>4, <1>6, <1>7 DEF VendingInv

LEMMA ReservationLapsesStep ==
    ASSUME VendingInv, NEW u \in Users, NEW a \in Assets, ReservationLapses(u, a)
    PROVE  VendingInv'
<1>1. item[u][a] \in Item /\ item[u][a] # NoItem
  BY ItemRow, ItemIs DEF VendingInv, ReservationLapses, Live, Quoted
<1>2. PICK old \in Item : old = item[u][a]
  BY <1>1
<1> DEFINE new == [old EXCEPT !.lapsed = TRUE]
<1>3. /\ new \in Item /\ new.budget = old.budget /\ new.price = old.price
      /\ new.gift = old.gift /\ new.status = old.status /\ new.claim = old.claim
      /\ new.payment = old.payment
  BY DEF Item
<1>4. /\ item' = [item EXCEPT ![u][a] = new]
      /\ UNCHANGED <<vars, budget, request>>
  BY <1>2 DEF ReservationLapses, VendingInv, ItemsTyped
<1> HIDE DEF new
<1> QED
  BY <1>1, <1>2, <1>3, <1>4, OnlyItemMoves

LEMMA PaymentMovesStep ==
    ASSUME VendingInv, NEW u \in Users, NEW a \in Assets,
           OpenPayment(u, a) \/ PaymentSettles(u, a)
    PROVE  VendingInv'
<1>1. PICK old \in Item, to \in {"open", "settled"} :
         /\ old = item[u][a] /\ old.payment \in {"unopened", "open"}
         /\ item' = [item EXCEPT ![u][a].payment = to]
         /\ UNCHANGED <<vars, budget, request>>
  BY ItemRow DEF VendingInv, OpenPayment, PaymentSettles
<1>2. item[u][a] # NoItem
  BY <1>1, ItemIs
<1> DEFINE new == [old EXCEPT !.payment = to]
<1>3. /\ new \in Item /\ new.budget = old.budget /\ new.price = old.price
      /\ new.gift = old.gift /\ new.status = old.status /\ new.claim = old.claim
      /\ new.payment = to
  BY DEF Item, Payments
<1>4. item' = [item EXCEPT ![u][a] = new]
  BY <1>1 DEF VendingInv, ItemsTyped
<1> HIDE DEF new
<1>5. new.payment # "credits" /\ item[u][a].payment # "credits"
  BY <1>1, <1>3
<1>6. (new.payment = "credits") = (item[u][a].payment = "credits")
  BY <1>5
<1>7. /\ new.budget = item[u][a].budget /\ new.price = item[u][a].price
      /\ new.gift = item[u][a].gift /\ new.status = item[u][a].status
      /\ new.claim = item[u][a].claim
  BY <1>1, <1>3
<1> QED
  BY <1>1, <1>2, <1>3, <1>4, <1>6, <1>7, OnlyItemMoves

-----------------------------------------------------------------------------
(* Holds released.                                                         *)

\* A freed property is nobody's, and nothing else moves.
LEMMA FreedTitles ==
    ASSUME VendingInv, NEW S, Freed(S), owner' = owner
    PROVE  /\ \A a \in Assets : TitleSame(a) \/ TitleFreed(a)
           /\ status' \in [Assets -> {"available", "owned", "listed", "reserved", "treasury"}]
<1>1. /\ TypeOK
      /\ status' = [a \in Assets |-> IF a \in S /\ status[a] = "reserved" /\ owner[a] = NoUser
                                       THEN "available" ELSE status[a]]
  BY DEF VendingInv, MarketSide, BooksOK, Freed
<1> QED
  BY <1>1 DEF TypeOK, TitleSame, TitleFreed

LEMMA ReleaseHoldStep ==
    ASSUME VendingInv, WalletsLocked, NEW u \in Users, NEW a \in Assets, Quoted(u, a),
           NEW final \in {"expired", "cancelled"}, ReleaseHold(u, a, final)
    PROVE  VendingInv'
<1>1. item[u][a] \in Item /\ item[u][a] # NoItem
  BY ItemRow, ItemIs DEF VendingInv, Quoted
<1>2. PICK old \in Item : old = item[u][a]
  BY <1>1
<1> DEFINE new == [old EXCEPT !.status = final]
<1>3. /\ ItemsTyped /\ RequestsKept /\ ItemsKept /\ TypeOK /\ BooksOK /\ MarketSide
      /\ old.status = "quoted"
  BY <1>2 DEF VendingInv, MarketSide, BooksOK, Quoted
<1>4. old.claim = "none"
  BY <1>1, <1>2, <1>3 DEF ItemsKept
<1>5. /\ new \in Item /\ new.budget = old.budget /\ new.price = old.price
      /\ new.gift = old.gift /\ new.status = final /\ new.claim = old.claim
      /\ new.payment = old.payment
  BY DEF Item
<1>6. /\ item' = [item EXCEPT ![u][a] = new]
      /\ credits' = [credits EXCEPT ![u] = @ + budget[u][a]]
      /\ budget' = [budget EXCEPT ![u][a] = 0]
      /\ Freed({a})
      /\ UNCHANGED <<request, root, owner, listings, bid, hold, ledger>>
  BY <1>2, <1>3 DEF ReleaseHold, Refunded, HoldGone, ItemsTyped
<1> HIDE DEF new
<1>7. /\ budget' \in [Users -> [Assets -> Nat]] /\ budget'[u][a] = 0
      /\ \A v \in Users, b \in Assets : v # u \/ b # a => budget'[v][b] = budget[v][b]
      /\ credits' \in [Users -> Nat]
  BY <1>3, <1>6 DEF ItemsTyped, TypeOK
<1>8. /\ ItemsTyped' /\ RequestsKept' /\ ItemsKept'
      /\ item'[u][a] = new
      /\ \A v \in Users, b \in Assets : v # u \/ b # a => item'[v][b] = item[v][b]
  <2>1. /\ new.budget = item[u][a].budget /\ new.price = item[u][a].price
        /\ new.gift = item[u][a].gift /\ new.status # "none" /\ new.claim = "none"
    BY <1>2, <1>4, <1>5
  <2>2. /\ new \in Item /\ request' = request
        /\ item' = [item EXCEPT ![u][a] = new]
        /\ budget' \in [Users -> [Assets -> Nat]]
        /\ ItemsTyped /\ RequestsKept /\ ItemsKept /\ item[u][a] # NoItem
    BY <1>1, <1>3, <1>5, <1>6, <1>7
  <2>3. PICK to \in Item : to = new
    BY <2>2
  <2>4. /\ to.budget = item[u][a].budget /\ to.price = item[u][a].price
        /\ to.gift = item[u][a].gift /\ to.status # "none"
        /\ to.claim # "none" => to.status = "purchased" /\ to.gift # NoUser
        /\ item' = [item EXCEPT ![u][a] = to]
    BY <2>1, <2>2, <2>3
  <2>5. /\ ItemsTyped' /\ RequestsKept' /\ ItemsKept'
        /\ item'[u][a] = to
        /\ \A v \in Users, b \in Assets : v # u \/ b # a => item'[v][b] = item[v][b]
    BY <2>2, <2>4, ItemMoves
  <2> QED
    BY <2>3, <2>5
<1>9. \A v \in Users, c \in Assets :
         /\ (item'[v][c].status = "purchased") = (item[v][c].status = "purchased")
         /\ (item'[v][c].claim = "claimed") = (item[v][c].claim = "claimed")
  BY <1>2, <1>3, <1>5, <1>8
<1>10. MarketSide' /\ PlatformStock' /\ Vended'
  <2>1. /\ \A c \in Assets : TitleSame(c) \/ TitleFreed(c)
        /\ status' \in [Assets -> {"available", "owned", "listed", "reserved", "treasury"}]
    BY <1>6, FreedTitles
  <2>2. MarketSide'
    BY <1>3, <1>6, <1>7, <2>1, MarketSideStays DEF TypeOK
  <2> QED
    BY <1>6, <1>9, <2>1, <2>2, TitlesKept DEF VendingInv
<1>11. ConveyancesAccounted'
  BY <1>3, <1>6, <1>9, CausesStay, SalesStay, AccountsKept DEF VendingInv
<1>12. BudgetHeldWhileQuoted'
  BY <1>5, <1>7, <1>8 DEF VendingInv, BudgetHeldWhileQuoted, Quoted, InCredits
<1> QED
  BY <1>8, <1>10, <1>11, <1>12 DEF VendingInv

LEMMA ExpireStep ==
    ASSUME VendingInv, WalletsLocked, ExpireReservations
    PROVE  VendingInv'
<1>1. /\ ItemsTyped /\ RequestsKept /\ ItemsKept /\ TypeOK /\ BooksOK /\ MarketSide
  BY DEF VendingInv, MarketSide, BooksOK
<1>2. \A u \in Users, a \in Assets : <<u, a>> \in Lapsed => item[u][a].status = "quoted"
  BY DEF Lapsed, Quoted
<1>3. /\ budget' = [u \in Users |-> [a \in Assets |->
                      IF <<u, a>> \in Lapsed THEN 0 ELSE budget[u][a]]]
      /\ item' = [u \in Users |-> [a \in Assets |->
                   IF <<u, a>> \in Lapsed THEN [item[u][a] EXCEPT !.status = "expired"]
                   ELSE item[u][a]]]
      /\ Freed({i[2] : i \in Lapsed})
      /\ UNCHANGED <<request, root, owner, listings, bid, hold, ledger>>
  BY DEF ExpireReservations
<1>4. credits' \in [Users -> Nat]
  <2>1. ASSUME NEW u \in Users
        PROVE  credits[u] + SumFunction(
                  [a \in Assets |-> IF <<u, a>> \in Lapsed THEN budget[u][a] ELSE 0]) \in Nat
    <3> DEFINE back == [a \in Assets |-> IF <<u, a>> \in Lapsed THEN budget[u][a] ELSE 0]
    <3>1. \A a \in Assets : back[a] \in Nat
      BY <1>1, ItemRow
    <3>2. DOMAIN back = Assets
      OBVIOUS
    <3> HIDE DEF back
    <3>3. SumFunction(back) \in Nat
      BY <3>1, <3>2, SumFunctionIs, SumNat, VendingAssumption
    <3> QED
      BY <1>1, <3>3 DEF TypeOK, back
  <2> QED
    BY <2>1 DEF ExpireReservations
<1>5. \A u \in Users, a \in Assets :
         /\ item'[u][a] = IF <<u, a>> \in Lapsed THEN [item[u][a] EXCEPT !.status = "expired"]
                          ELSE item[u][a]
         /\ budget'[u][a] = IF <<u, a>> \in Lapsed THEN 0 ELSE budget[u][a]
  BY <1>3
<1>6. \A u \in Users, a \in Assets :
         /\ item'[u][a] \in Item
         /\ item'[u][a].budget = item[u][a].budget /\ item'[u][a].price = item[u][a].price
         /\ item'[u][a].gift = item[u][a].gift /\ item'[u][a].claim = item[u][a].claim
         /\ item'[u][a].payment = item[u][a].payment
         /\ item'[u][a].status = IF <<u, a>> \in Lapsed THEN "expired" ELSE item[u][a].status
  <2> SUFFICES ASSUME NEW u \in Users, NEW a \in Assets
               PROVE  /\ item'[u][a] \in Item
                      /\ item'[u][a].budget = item[u][a].budget
                      /\ item'[u][a].price = item[u][a].price
                      /\ item'[u][a].gift = item[u][a].gift
                      /\ item'[u][a].claim = item[u][a].claim
                      /\ item'[u][a].payment = item[u][a].payment
                      /\ item'[u][a].status = IF <<u, a>> \in Lapsed THEN "expired"
                                              ELSE item[u][a].status
    OBVIOUS
  <2>1. PICK old \in Item : old = item[u][a]
    BY <1>1, ItemRow
  <2>2. CASE <<u, a>> \in Lapsed
    <3> DEFINE new == [old EXCEPT !.status = "expired"]
    <3>1. item'[u][a] = new
      BY <1>5, <2>1, <2>2
    <3>2. /\ new \in Item /\ new.budget = old.budget /\ new.price = old.price
          /\ new.gift = old.gift /\ new.status = "expired" /\ new.claim = old.claim
          /\ new.payment = old.payment
      BY DEF Item
    <3> HIDE DEF new
    <3> QED
      BY <2>1, <2>2, <3>1, <3>2
  <2>3. CASE <<u, a>> \notin Lapsed
    BY <1>5, <2>1, <2>3
  <2> QED
    BY <2>2, <2>3
<1>7. ItemsTyped'
  <2>1. ASSUME NEW u \in Users, NEW a \in Assets
        PROVE  (IF <<u, a>> \in Lapsed THEN 0 ELSE budget[u][a]) \in Nat
    <3>1. budget[u][a] \in Nat
      BY <1>1 DEF ItemsTyped
    <3> QED
      BY <3>1
  <2>2. budget' \in [Users -> [Assets -> Nat]]
    BY <1>3, <2>1
  <2>3. item' \in [Users -> [Assets -> Item]]
    BY <1>3, <1>6
  <2> QED
    BY <1>1, <1>3, <2>2, <2>3 DEF ItemsTyped
<1>8. \A u \in Users, a \in Assets : <<u, a>> \notin Lapsed => item'[u][a] = item[u][a]
  BY <1>5
<1>9. \A u \in Users, a \in Assets : <<u, a>> \in Lapsed => item[u][a] # NoItem
  BY <1>2, ItemIs
<1>10. ItemsKept'
  <2>1. \A u \in Users, a \in Assets : item'[u][a] # NoItem => item[u][a] # NoItem
    BY <1>8, <1>9
  <2>2. \A u \in Users, a \in Assets : <<u, a>> \in Lapsed => item[u][a].claim = "none"
    BY <1>1, <1>2, <1>9 DEF ItemsKept
  <2>3. ASSUME NEW u \in Users, NEW a \in Assets, item'[u][a] # NoItem
        PROVE  /\ item'[u][a].status # "none"
               /\ item'[u][a].claim # "none" =>
                     item'[u][a].status = "purchased" /\ item'[u][a].gift # NoUser
    <3>1. /\ item[u][a] # NoItem /\ item[u][a].status # "none"
          /\ item[u][a].claim # "none" =>
                item[u][a].status = "purchased" /\ item[u][a].gift # NoUser
      BY <1>1, <2>1, <2>3 DEF ItemsKept
    <3>2. CASE <<u, a>> \in Lapsed
      <4>1. item'[u][a].status = "expired" /\ item'[u][a].claim = "none"
        BY <1>6, <2>2, <3>2
      <4> QED
        BY <4>1
    <3>3. CASE <<u, a>> \notin Lapsed
      BY <1>8, <3>1, <3>3
    <3> QED
      BY <3>2, <3>3
  <2>4. ASSUME NEW u \in Users, NEW a \in Assets, item'[u][a] # NoItem
        PROVE  /\ u # Plat
               /\ \E b \in Budgets : /\ QuotedBudget(b)
                                     /\ item'[u][a].budget = b
                                     /\ item'[u][a].price = ListPrice(b)
               /\ item'[u][a].gift # Plat
    <3>1. /\ item'[u][a].budget = item[u][a].budget /\ item'[u][a].price = item[u][a].price
          /\ item'[u][a].gift = item[u][a].gift
      BY <1>6
    <3>2. item[u][a] # NoItem
      BY <2>1, <2>4
    <3> QED
      BY <1>1, <3>1, <3>2 DEF ItemsKept
  <2> QED
    BY <2>3, <2>4 DEF ItemsKept
<1>11. RequestsKept'
  <2>1. ASSUME NEW v \in Users, request[v] # NoRequest
        PROVE  /\ item'[v][request[v].asset] = NoItem
               /\ request[v].item.payment = "credits" => credits'[v] = credits[v]
    <3>1. request[v].asset \in Assets /\ item[v][request[v].asset] = NoItem
      BY <1>1, <2>1 DEF ItemsTyped, RequestsKept
    <3> QED
      BY <1>8, <1>9, <2>1, <3>1 DEF WalletsLocked
  <2>2. ASSUME NEW v \in Users, request[v] # NoRequest
        PROVE  \E b \in Budgets, payment \in {"credits", "unopened"},
                  gift \in Customers \cup {NoUser} :
                  /\ request[v].item = NewItem(b, payment, gift)
                  /\ QuotedBudget(b)
                  /\ payment = "credits" => credits'[v] >= b
    BY <1>1, <2>1, <2>2, NewItemIs DEF RequestsKept
  <2> QED
    BY <1>1, <1>3, <2>1, <2>2 DEF RequestsKept
<1>12. \A v \in Users, c \in Assets :
          /\ (item'[v][c].status = "purchased") = (item[v][c].status = "purchased")
          /\ (item'[v][c].claim = "claimed") = (item[v][c].claim = "claimed")
  BY <1>2, <1>6
<1>13. MarketSide' /\ PlatformStock' /\ Vended'
  <2>1. /\ \A c \in Assets : TitleSame(c) \/ TitleFreed(c)
        /\ status' \in [Assets -> {"available", "owned", "listed", "reserved", "treasury"}]
    BY <1>3, FreedTitles
  <2>2. MarketSide'
    BY <1>1, <1>3, <1>4, <2>1, MarketSideStays DEF TypeOK
  <2> QED
    BY <1>3, <1>12, <2>1, <2>2, TitlesKept DEF VendingInv
<1>14. ConveyancesAccounted'
  BY <1>1, <1>3, <1>12, CausesStay, SalesStay, AccountsKept DEF VendingInv
<1>15. BudgetHeldWhileQuoted'
  <2>1. ASSUME NEW u \in Users, NEW a \in Assets
        PROVE  budget'[u][a] = IF Quoted(u, a)' /\ InCredits(u, a)'
                                 THEN item'[u][a].budget ELSE 0
    <3>1. CASE <<u, a>> \in Lapsed
      <4>1. item'[u][a].status = "expired" /\ budget'[u][a] = 0
        BY <1>5, <1>6, <3>1
      <4> QED
        BY <4>1 DEF Quoted
    <3>2. CASE <<u, a>> \notin Lapsed
      <4>1. item'[u][a] = item[u][a] /\ budget'[u][a] = budget[u][a]
        BY <1>5, <3>2
      <4> QED
        BY <4>1 DEF VendingInv, BudgetHeldWhileQuoted, Quoted, InCredits
    <3> QED
      BY <3>1, <3>2
  <2> QED
    BY <2>1 DEF BudgetHeldWhileQuoted
<1> QED
  BY <1>7, <1>10, <1>11, <1>13, <1>14, <1>15 DEF VendingInv

-----------------------------------------------------------------------------
(* Purchases and claims.                                                   *)

LEMMA OneCauseMore ==
    ASSUME NEW u \in Users, NEW a \in Assets,
           \A v \in Users, b \in Assets : v # u \/ b # a => item'[v][b] = item[v][b]
    PROVE  /\ (/\ item[u][a].status # "purchased" /\ item'[u][a].status = "purchased"
               /\ item[u][a].claim # "claimed" /\ item'[u][a].claim # "claimed")
              => /\ \E i : i \notin Purchased /\ Purchased' = Purchased \cup {i}
                 /\ Claimed' = Claimed
           /\ (/\ item[u][a].status = "purchased" /\ item'[u][a].status = "purchased"
               /\ item[u][a].claim # "claimed" /\ item'[u][a].claim = "claimed")
              => /\ Purchased' = Purchased
                 /\ \E i : i \notin Claimed /\ Claimed' = Claimed \cup {i}
<1>1. \A i \in Users \X Assets :
         /\ i[1] \in Users /\ i[2] \in Assets
         /\ i # <<u, a>> => i[1] # u \/ i[2] # a
  OBVIOUS
<1>2. \A i \in Users \X Assets : i # <<u, a>> => item'[i[1]][i[2]] = item[i[1]][i[2]]
  BY <1>1
<1>3. PICK p : p = <<u, a>>
  OBVIOUS
<1>4. p \in Users \X Assets /\ p[1] = u /\ p[2] = a
  BY <1>3
<1>5. ASSUME item[u][a].status # "purchased", item'[u][a].status = "purchased",
             item[u][a].claim # "claimed", item'[u][a].claim # "claimed"
      PROVE  p \notin Purchased /\ Purchased' = Purchased \cup {p} /\ Claimed' = Claimed
  BY <1>2, <1>3, <1>4, <1>5 DEF Purchased, Claimed
<1>6. ASSUME item[u][a].status = "purchased", item'[u][a].status = "purchased",
             item[u][a].claim # "claimed", item'[u][a].claim = "claimed"
      PROVE  p \notin Claimed /\ Claimed' = Claimed \cup {p} /\ Purchased' = Purchased
  BY <1>2, <1>3, <1>4, <1>6 DEF Purchased, Claimed
<1> QED
  BY <1>5, <1>6

\* A quoted item is bought, its title conveyed and its budget released.
LEMMA ItemBought ==
    ASSUME VendingInv, WalletsLocked, NEW u \in Users, NEW a \in Assets,
           Quoted(u, a), Purchasable(a),
           NEW new \in Item, item' = [item EXCEPT ![u][a] = new],
           new.budget = item[u][a].budget, new.price = item[u][a].price,
           new.gift = item[u][a].gift, new.status = "purchased",
           new.claim \in {"none", "pending"}, new.claim = "pending" => new.gift # NoUser,
           owner' = [owner EXCEPT ![a] = u], status' = [status EXCEPT ![a] = "owned"],
           ledger' \in Seq(Transfers), Len(ledger') = Len(ledger) + 1,
           credits' \in [Users -> Nat],
           budget' \in [Users -> [Assets -> Nat]], budget'[u][a] = 0,
           \A v \in Users, b \in Assets : v # u \/ b # a => budget'[v][b] = budget[v][b],
           UNCHANGED <<request, root, listings, bid, hold>>
    PROVE  VendingInv'
<1>1. /\ ItemsTyped /\ RequestsKept /\ ItemsKept /\ TypeOK /\ BooksOK /\ MarketSide
      /\ item[u][a].status = "quoted" /\ item[u][a] # NoItem
  BY ItemIs DEF VendingInv, MarketSide, BooksOK, Quoted
<1>2. /\ u # Plat /\ item[u][a].claim = "none"
  BY <1>1 DEF ItemsKept
<1>3. /\ new.status # "none"
      /\ new.claim # "none" => new.status = "purchased" /\ new.gift # NoUser
  OBVIOUS
<1>4. /\ ItemsTyped' /\ RequestsKept' /\ ItemsKept'
      /\ item'[u][a] = new
      /\ \A v \in Users, b \in Assets : v # u \/ b # a => item'[v][b] = item[v][b]
  BY <1>1, <1>3, ItemMoves
<1>5. new.claim # "claimed"
  OBVIOUS
<1>6. /\ status[a] = "reserved" /\ TitleConveyed(a)
      /\ \A b \in Assets : b # a => TitleSame(b)
      /\ owner' \in [Assets -> Users \cup {NoUser}]
      /\ status' \in [Assets -> {"available", "owned", "listed", "reserved", "treasury"}]
  BY <1>1, <1>2 DEF TypeOK, Purchasable, TitleConveyed, TitleSame, Customers
<1>7. MarketSide'
  BY <1>1, <1>6, MarketSideStays
<1>8. PlatformStock' /\ Vended'
  <2>1. \A v \in Users, b \in Assets :
           item'[v][b].status = "purchased" =>
              \/ item[v][b].status = "purchased"
              \/ /\ TitleConveyed(b) /\ status[b] = "reserved"
                 /\ \A w \in Users : w # v => item'[w][b].status = item[w][b].status
    BY <1>4, <1>6
  <2>2. \A b \in Assets : TitleSame(b) \/ TitleConveyed(b)
    BY <1>6
  <2> QED
    BY <2>1, <2>2, TitlesKept DEF VendingInv
<1>9. ConveyancesAccounted'
  <2>1. /\ \E i : i \notin Purchased /\ Purchased' = Purchased \cup {i}
        /\ Claimed' = Claimed
    BY <1>1, <1>2, <1>4, <1>5, OneCauseMore
  <2> QED
    BY <1>1, <2>1, SalesStay, AccountsKept DEF VendingInv
<1>10. BudgetHeldWhileQuoted'
  BY <1>4 DEF VendingInv, BudgetHeldWhileQuoted, Quoted, InCredits
<1> QED
  BY <1>4, <1>7, <1>8, <1>9, <1>10 DEF VendingInv

\* A record of the ledger, and the ledger with it
LEMMA LedgerGrows ==
    ASSUME TypeOK, NEW row \in Transfers, ledger' = Append(ledger, row)
    PROVE  ledger' \in Seq(Transfers) /\ Len(ledger') = Len(ledger) + 1
BY AppendProperties DEF TypeOK

LEMMA BoughtIs ==
    ASSUME ItemsTyped, NEW u \in Users, NEW a \in Assets
    PROVE  /\ Bought(u, a) \in Item
           /\ Bought(u, a).budget = item[u][a].budget
           /\ Bought(u, a).price = item[u][a].price
           /\ Bought(u, a).gift = item[u][a].gift
           /\ Bought(u, a).status = "purchased"
           /\ Bought(u, a).payment = item[u][a].payment
           /\ Bought(u, a).claim = IF item[u][a].gift = NoUser THEN "none" ELSE "pending"
<1>1. PICK old \in Item : old = item[u][a]
  BY ItemRow
<1>2. PICK claim \in {"none", "pending"} :
         claim = IF item[u][a].gift = NoUser THEN "none" ELSE "pending"
  OBVIOUS
<1> DEFINE new == [old EXCEPT !.status = "purchased", !.claim = claim]
<1>3. Bought(u, a) = new
  BY <1>1, <1>2 DEF Bought
<1>4. /\ new \in Item /\ new.budget = old.budget /\ new.price = old.price
      /\ new.gift = old.gift /\ new.status = "purchased" /\ new.payment = old.payment
      /\ new.claim = claim
  BY DEF Item
<1> HIDE DEF new
<1> QED
  BY <1>1, <1>2, <1>3, <1>4

\* The record of a conveyance
LEMMA ConveyRecords ==
    ASSUME TypeOK, NEW a \in Assets, NEW seller \in Users, NEW buyer \in Users,
           NEW price \in Nat, NEW fee \in Nat,
           Convey(a, seller, buyer, price, fee)
    PROVE  /\ ledger' \in Seq(Transfers) /\ Len(ledger') = Len(ledger) + 1
           /\ owner' = [owner EXCEPT ![a] = buyer]
           /\ status' = [status EXCEPT ![a] = "owned"]
           /\ price >= 200
<1> DEFINE row == [asset |-> a, seller |-> seller, buyer |-> buyer,
                   price |-> price, fee |-> fee]
<1>1. row \in Transfers
  BY DEF Transfers
<1>2. ledger' = Append(ledger, row)
  BY DEF Convey
<1> HIDE DEF row
<1>3. ledger' \in Seq(Transfers) /\ Len(ledger') = Len(ledger) + 1
  BY <1>1, <1>2, LedgerGrows
<1> QED
  BY <1>3 DEF Convey, MoveTitle, MinTransfer

LEMMA PurchaseInCreditsStep ==
    ASSUME VendingInv, WalletsLocked, NEW u \in Users, NEW a \in Assets,
           PurchaseInCredits(u, a)
    PROVE  VendingInv'
<1>1. /\ ItemsTyped /\ TypeOK
      /\ Quoted(u, a) /\ Purchasable(a) /\ u # Plat
      /\ item' = [item EXCEPT ![u][a] = Bought(u, a)]
      /\ budget' = [budget EXCEPT ![u][a] = 0]
      /\ UNCHANGED <<request, root, listings, bid, hold>>
  BY DEF VendingInv, MarketSide, BooksOK, PurchaseInCredits, Live, HoldGone
<1>2. PICK price \in Nat, held \in Nat : price = item[u][a].price /\ held = budget[u][a]
  BY <1>1, ItemRow
<1>3. /\ held >= price
      /\ credits' = [credits EXCEPT ![Plat] = @ + price, ![u] = @ + (held - price)]
      /\ Convey(a, Plat, u, price, 0)
  BY <1>2 DEF PurchaseInCredits
<1>4. credits' \in [Users -> Nat]
  <2>1. credits[u] + (held - price) \in Nat /\ credits[Plat] + price \in Nat
    BY <1>1, <1>3, UsersAssumption DEF TypeOK
  <2> QED
    BY <1>1, <1>3, <2>1 DEF TypeOK
<1>5. /\ ledger' \in Seq(Transfers) /\ Len(ledger') = Len(ledger) + 1
      /\ owner' = [owner EXCEPT ![a] = u] /\ status' = [status EXCEPT ![a] = "owned"]
  BY <1>1, <1>3, ConveyRecords, UsersAssumption
<1>6. /\ budget' \in [Users -> [Assets -> Nat]] /\ budget'[u][a] = 0
      /\ \A v \in Users, b \in Assets : v # u \/ b # a => budget'[v][b] = budget[v][b]
  BY <1>1 DEF ItemsTyped
<1>7. PICK new \in Item : new = Bought(u, a)
  BY <1>1, BoughtIs
<1>8. /\ new.budget = item[u][a].budget /\ new.price = item[u][a].price
      /\ new.gift = item[u][a].gift /\ new.status = "purchased"
      /\ new.claim \in {"none", "pending"} /\ (new.claim = "pending" => new.gift # NoUser)
  BY <1>1, <1>7, BoughtIs
<1>9. item' = [item EXCEPT ![u][a] = new]
  BY <1>1, <1>7
<1>10. /\ Quoted(u, a) /\ Purchasable(a)
       /\ UNCHANGED <<request, root, listings, bid, hold>>
  BY <1>1
<1> QED
  BY <1>4, <1>5, <1>6, <1>8, <1>9, <1>10, ItemBought

LEMMA FulfillExternalStep ==
    ASSUME VendingInv, NEW u \in Users, NEW a \in Assets, FulfillExternal(u, a)
    PROVE  VendingInv'
<1>1. /\ ItemsTyped /\ TypeOK
      /\ Quoted(u, a) /\ Purchasable(a) /\ u # Plat
      /\ item' = [item EXCEPT ![u][a] = [Bought(u, a) EXCEPT !.payment = "fulfilled"]]
      /\ credits' = credits /\ budget' = budget
      /\ UNCHANGED <<request, root, listings, bid, hold>>
      /\ item[u][a].payment = "settled"
  BY DEF VendingInv, MarketSide, BooksOK, FulfillExternal, wallets
<1>2. PICK price \in Nat : price = item[u][a].price
  BY <1>1, ItemRow
<1>3. Convey(a, Plat, u, price, 0)
  BY <1>2 DEF FulfillExternal
<1>4. /\ credits' \in [Users -> Nat] /\ WalletsLocked
      /\ budget' \in [Users -> [Assets -> Nat]] /\ budget'[u][a] = 0
      /\ \A v \in Users, b \in Assets : v # u \/ b # a => budget'[v][b] = budget[v][b]
  BY <1>1 DEF VendingInv, BudgetHeldWhileQuoted, InCredits, WalletsLocked, TypeOK, ItemsTyped
<1>5. /\ ledger' \in Seq(Transfers) /\ Len(ledger') = Len(ledger) + 1
      /\ owner' = [owner EXCEPT ![a] = u] /\ status' = [status EXCEPT ![a] = "owned"]
  BY <1>1, <1>3, ConveyRecords, UsersAssumption
<1>6. PICK bought \in Item : bought = Bought(u, a)
  BY <1>1, BoughtIs
<1>7. /\ bought.budget = item[u][a].budget /\ bought.price = item[u][a].price
      /\ bought.gift = item[u][a].gift /\ bought.status = "purchased"
      /\ bought.claim = IF item[u][a].gift = NoUser THEN "none" ELSE "pending"
  BY <1>1, <1>6, BoughtIs
<1> DEFINE fulfilled == [bought EXCEPT !.payment = "fulfilled"]
<1>8. /\ fulfilled \in Item
      /\ fulfilled.budget = bought.budget /\ fulfilled.price = bought.price
      /\ fulfilled.gift = bought.gift /\ fulfilled.status = bought.status
      /\ fulfilled.claim = bought.claim
  BY DEF Item, Payments
<1>9. item' = [item EXCEPT ![u][a] = fulfilled]
  BY <1>1, <1>6
<1> HIDE DEF fulfilled
<1>10. PICK new \in Item : new = fulfilled
  BY <1>8
<1>11. /\ new.budget = item[u][a].budget /\ new.price = item[u][a].price
       /\ new.gift = item[u][a].gift /\ new.status = "purchased"
       /\ new.claim \in {"none", "pending"} /\ (new.claim = "pending" => new.gift # NoUser)
       /\ item' = [item EXCEPT ![u][a] = new]
  BY <1>7, <1>8, <1>9, <1>10
<1> QED
  BY <1>1, <1>4, <1>5, <1>11, ItemBought

LEMMA ClaimGiftStep ==
    ASSUME VendingInv, NEW u \in Users, NEW a \in Assets, ClaimGift(u, a)
    PROVE  VendingInv'
<1>1. /\ ItemsTyped /\ RequestsKept /\ ItemsKept /\ TypeOK /\ BooksOK /\ MarketSide
      /\ item[u][a].claim = "pending" /\ item[u][a] # NoItem
      /\ status[a] = "owned" /\ owner[a] = u
  BY ItemIs DEF VendingInv, MarketSide, BooksOK, ClaimGift, Claimable
<1>2. PICK v \in Users : v = item[u][a].gift /\ v # Plat
  BY <1>1, ItemRow DEF ItemsKept
<1>3. PICK old \in Item : old = item[u][a]
  BY <1>1, ItemRow
<1> DEFINE row == [asset |-> a, seller |-> u, buyer |-> v, price |-> 0, fee |-> 0]
<1>4. /\ owner' = [owner EXCEPT ![a] = v]
      /\ ledger' = Append(ledger, row)
      /\ item' = [item EXCEPT ![u][a] = [old EXCEPT !.claim = "claimed"]]
      /\ UNCHANGED <<wallets, root, status, listings, budget, request>>
  BY <1>1, <1>2, <1>3 DEF ClaimGift, MoveTitle, ItemsTyped
<1>5. row \in Transfers
  BY DEF Transfers
<1> HIDE DEF row
<1>6. ledger' \in Seq(Transfers) /\ Len(ledger') = Len(ledger) + 1
  BY <1>1, <1>4, <1>5, LedgerGrows
<1> DEFINE claimed == [old EXCEPT !.claim = "claimed"]
<1>7. /\ claimed \in Item
       /\ claimed.budget = old.budget /\ claimed.price = old.price
       /\ claimed.gift = old.gift /\ claimed.status = old.status
       /\ claimed.claim = "claimed" /\ claimed.payment = old.payment
  BY DEF Item
<1>8. PICK new \in Item :
         /\ new = claimed
         /\ new.budget = old.budget /\ new.price = old.price
         /\ new.gift = old.gift /\ new.status = old.status
         /\ new.claim = "claimed" /\ new.payment = old.payment
  BY <1>7
<1>9. /\ item' = [item EXCEPT ![u][a] = new]
      /\ credits' = credits /\ budget' = budget /\ request' = request
      /\ UNCHANGED <<root, status, listings, bid, hold>>
  BY <1>4, <1>8 DEF wallets
<1>10. /\ WalletsLocked /\ credits' \in [Users -> Nat]
      /\ budget' \in [Users -> [Assets -> Nat]]
  BY <1>1, <1>9 DEF WalletsLocked, TypeOK, ItemsTyped
<1>11. /\ old.status = "purchased" /\ old.gift # NoUser
  BY <1>1, <1>3 DEF ItemsKept
<1>12. /\ new.budget = item[u][a].budget /\ new.price = item[u][a].price
       /\ new.gift = item[u][a].gift /\ new.status # "none"
       /\ new.claim # "none" => new.status = "purchased" /\ new.gift # NoUser
  BY <1>3, <1>8, <1>11
<1>13. /\ ItemsTyped' /\ RequestsKept' /\ ItemsKept'
       /\ item'[u][a] = new
       /\ \A w \in Users, b \in Assets : w # u \/ b # a => item'[w][b] = item[w][b]
  BY <1>1, <1>9, <1>10, <1>12, ItemMoves
<1>14. /\ TitleConveyed(a) /\ \A b \in Assets : b # a => TitleSame(b)
       /\ owner' \in [Assets -> Users \cup {NoUser}]
       /\ status' \in [Assets -> {"available", "owned", "listed", "reserved", "treasury"}]
  BY <1>1, <1>2, <1>4 DEF TypeOK, TitleConveyed, TitleSame, Customers
<1>15. MarketSide'
  BY <1>1, <1>6, <1>9, <1>10, <1>14, MarketSideStays
<1>16. \A w \in Users, b \in Assets :
          /\ item'[w][b].status = item[w][b].status
          /\ item'[w][b].budget = item[w][b].budget
          /\ item'[w][b].payment = item[w][b].payment
  BY <1>3, <1>8, <1>13
<1>17. PlatformStock' /\ Vended'
  <2>1. \A b \in Assets : TitleSame(b) \/ TitleConveyed(b)
    BY <1>14
  <2> QED
    BY <1>9, <1>16, <2>1, TitlesKept DEF VendingInv
<1>18. ConveyancesAccounted'
  <2>1. /\ item[u][a].status = "purchased" /\ item'[u][a].status = "purchased"
        /\ item[u][a].claim # "claimed" /\ item'[u][a].claim = "claimed"
    BY <1>1, <1>3, <1>8, <1>11, <1>13
  <2>2. \A w \in Users, b \in Assets : w # u \/ b # a => item'[w][b] = item[w][b]
    BY <1>13
  <2>3. /\ Purchased' = Purchased
        /\ \E i : i \notin Claimed /\ Claimed' = Claimed \cup {i}
    BY <2>1, <2>2, OneCauseMore
  <2> QED
    BY <1>1, <1>6, <1>9, <2>3, SalesStay, AccountsKept DEF VendingInv
<1>19. BudgetHeldWhileQuoted'
  BY <1>9, <1>16 DEF VendingInv, BudgetHeldWhileQuoted, Quoted, InCredits
<1> QED
  BY <1>13, <1>15, <1>17, <1>18, <1>19 DEF VendingInv

-----------------------------------------------------------------------------
(* The market's steps beside vending.                                      *)

\* What a step of the market does to the title of a property: it stays, it is
\* listed or no longer listed, its Tienda listing lapses, or it is sold.
TitleLapses(a) ==
    /\ status'[a] = "treasury" /\ owner'[a] = owner[a]
    /\ \E l \in DOMAIN listings : /\ Active(l) /\ listings[l].asset = a
                                  /\ listings[l].lane # "none"
                                  /\ listings[l].seller = owner[a]
TitleSold(a) ==
    /\ status'[a] = "owned" /\ owner'[a] \in Users
    /\ \E l \in DOMAIN listings : /\ Active(l) /\ listings[l].asset = a
                                  /\ owner'[a] = Plat => listings[l].lane = "none"
TitleOnMarket(a) ==
    \/ TitleSame(a)
    \/ status'[a] \in {"listed", "owned"} /\ owner'[a] = owner[a]
    \/ TitleLapses(a)
    \/ TitleSold(a)

LEMMA SaleMovesTitle ==
    ASSUME TypeOK, NEW l \in DOMAIN listings, NEW seller \in Users, NEW payer \in Users,
           NEW buyer \in Users, NEW price \in Nat, NEW fee \in Nat,
           SettlesSale(l, seller, payer, buyer, price, fee)
    PROVE  \A a \in Assets : TitleOnMarket(a)
<1>1. PICK b \in Assets : b = listings[l].asset
  BY ListingRow DEF TypeOK
<1>2. /\ Active(l) /\ (buyer = Plat => listings[l].lane = "none")
      /\ owner' = [owner EXCEPT ![b] = buyer] /\ status' = [status EXCEPT ![b] = "owned"]
  BY <1>1 DEF SettlesSale, Convey, MoveTitle
<1>3. TitleSold(b)
  BY <1>1, <1>2 DEF TypeOK, TitleSold
<1>4. \A a \in Assets : a # b => TitleSame(a)
  BY <1>2 DEF TypeOK, TitleSame
<1> QED
  BY <1>3, <1>4 DEF TitleOnMarket

LEMMA NextMovesTitles ==
    ASSUME BooksOK, [Next]_vars
    PROVE  \A a \in Assets : TitleOnMarket(a)
<1>1. TypeOK
  BY DEF BooksOK
<1>2. ASSUME NEW b \in Assets, NEW s \in {"listed", "owned"},
             status' = [status EXCEPT ![b] = s], owner' = owner
      PROVE  \A a \in Assets : TitleOnMarket(a)
  BY <1>1, <1>2 DEF TypeOK, TitleOnMarket, TitleSame
<1>3. ASSUME UNCHANGED <<owner, status>>
      PROVE  \A a \in Assets : TitleOnMarket(a)
  BY <1>3 DEF TitleOnMarket, TitleSame
<1>4. ASSUME NEW a \in Assets, NEW u, NEW sale, NEW price, CreateListing(a, u, sale, price)
      PROVE  \A c \in Assets : TitleOnMarket(c)
  BY <1>2, <1>4 DEF CreateListing
<1>5. ASSUME NEW l \in DOMAIN listings, NEW u, CancelListing(l, u)
      PROVE  \A c \in Assets : TitleOnMarket(c)
  <2>1. listings[l].asset \in Assets
    BY <1>1, ListingRow DEF TypeOK
  <2> QED
    BY <1>2, <1>5, <2>1 DEF CancelListing
<1>6. ASSUME NEW fx, NEW bl, NEW sw, Replenish(fx, bl, sw)
      PROVE  \A c \in Assets : TitleOnMarket(c)
  <2>1. ASSUME NEW a \in Assets PROVE TitleOnMarket(a)
    <3>1. owner' = owner /\ status'[a] \in {"listed", status[a]}
      BY <1>6 DEF Replenish
    <3> QED
      BY <3>1 DEF TitleOnMarket, TitleSame
  <2> QED
    BY <2>1
<1>7. ASSUME NEW l \in DOMAIN listings, NEW b, NEW amount, PlaceBlindBid(l, b, amount)
      PROVE  \A c \in Assets : TitleOnMarket(c)
  BY <1>3, <1>7 DEF PlaceBlindBid, titles
<1>8. ASSUME NEW l \in DOMAIN listings, CloseUnsold(l)
      PROVE  \A c \in Assets : TitleOnMarket(c)
  <2>1. PICK a \in Assets : a = listings[l].asset
    BY <1>1, ListingRow DEF TypeOK
  <2>2. /\ Active(l) /\ owner' = owner /\ owner[a] = listings[l].seller
        /\ status' = [status EXCEPT ![a] = IF listings[l].lane = "none" THEN "owned"
                                           ELSE "treasury"]
    BY <1>8, <2>1 DEF CloseUnsold, Closable
  <2>3. CASE listings[l].lane = "none"
    BY <1>2, <2>2, <2>3
  <2>4. CASE listings[l].lane # "none"
    <3>1. status'[a] = "treasury" /\ \A c \in Assets : c # a => status'[c] = status[c]
      BY <1>1, <2>2, <2>4 DEF TypeOK
    <3>2. TitleLapses(a)
      BY <2>1, <2>2, <2>4, <3>1 DEF TitleLapses
    <3> QED
      BY <2>2, <3>1, <3>2 DEF TitleOnMarket, TitleSame
  <2> QED
    BY <2>3, <2>4
<1>9. ASSUME NEW l, EndsAtPasses(l)
      PROVE  \A c \in Assets : TitleOnMarket(c)
  BY <1>3, <1>9 DEF EndsAtPasses
<1>10. ASSUME NEW c, NEW d, NEW moved, AssignControl(c, d, moved)
       PROVE  \A a \in Assets : TitleOnMarket(a)
  BY <1>3, <1>10 DEF AssignControl, titles
<1>11. CASE UNCHANGED vars
  BY <1>3, <1>11 DEF vars
<1>12. ASSUME NEW l \in DOMAIN listings, NEW u \in Users,
              PurchaseP2PFixed(l, u) \/ PurchaseTiendaFixed(l, u) \/ CloseSold(l, u)
       PROVE  \A c \in Assets : TitleOnMarket(c)
  BY <1>1, <1>12, P2PSettles, TiendaSettles, BlindSettles, SaleMovesTitle
<1> QED
  BY <1>4, <1>5, <1>6, <1>7, <1>8, <1>9, <1>10, <1>11, <1>12
     DEF Next, CustomerStep, AnyReplenish, CloseBlind

\* A listing that is active after a step was active before or has just come.
LEMMA ActiveRows ==
    ASSUME BooksOK, [Next]_vars, NEW l \in DOMAIN listings', Active(l)'
    PROVE  \/ /\ l \in DOMAIN listings /\ Active(l)
              /\ listings'[l].asset = listings[l].asset
              /\ listings'[l].seller = listings[l].seller
              /\ listings'[l].lane = listings[l].lane
           \/ l \notin DOMAIN listings /\ Enters(listings'[l])
BY NextListings DEF ListingsChange, TermsKept, Active

LEMMA MarketStep ==
    ASSUME VendingInv, WalletsLocked, [Next]_vars, UNCHANGED vendingVars
    PROVE  VendingInv'
<1>1. /\ BooksOK /\ TypeOK /\ RootsFixed /\ PricesKnown /\ OneActive /\ PlatformStock
      /\ ItemsTyped /\ RequestsKept /\ ItemsKept /\ Vended
  BY DEF VendingInv, MarketSide, BooksOK
<1>2. BooksOK'
  BY <1>1, NextBooksOK
<1>3. RootsFixed' /\ PricesKnown'
  BY <1>1, RootsStay, PricesStayKnown, VendingAssumption
<1>4. OneActive'
  <2>1. ASSUME NEW l \in DOMAIN listings', NEW m \in DOMAIN listings',
               Active(l)', Active(m)', listings'[l].asset = listings'[m].asset
        PROVE  l = m
    <3>1. CASE l \in DOMAIN listings /\ m \in DOMAIN listings
      BY <1>1, <2>1, <3>1, ActiveRows DEF OneActive
    <3>2. CASE l \notin DOMAIN listings /\ m \notin DOMAIN listings
      BY <1>1, <2>1, <3>2, NextListings DEF ListingsChange
    <3>3. CASE l \in DOMAIN listings /\ m \notin DOMAIN listings
      BY <1>1, <2>1, <3>3, ActiveRows DEF Enters, HasActiveListing
    <3>4. CASE l \notin DOMAIN listings /\ m \in DOMAIN listings
      BY <1>1, <2>1, <3>4, ActiveRows DEF Enters, HasActiveListing
    <3> QED
      BY <3>1, <3>2, <3>3, <3>4
  <2> QED
    BY <2>1 DEF OneActive
<1>5. \A a \in Assets : TitleOnMarket(a)
  BY <1>1, NextMovesTitles
<1>6. PlatformStock'
  <2>1. ASSUME NEW l \in DOMAIN listings', Active(l)', listings'[l].lane # "none"
        PROVE  listings'[l].seller = Plat
    <3>1. CASE l \in DOMAIN listings
      BY <1>1, <2>1, <3>1, ActiveRows DEF PlatformStock
    <3>2. CASE l \notin DOMAIN listings
      <4>1. Enters(listings'[l])
        BY <1>1, <2>1, <3>2, ActiveRows
      <4>2. listings'[l].seller \in Users
        <5>1. PICK rows \in Seq(Listing) : rows = listings'
          BY <1>2 DEF BooksOK, TypeOK
        <5>2. rows[l] \in Listing
          BY <2>1, <5>1, LenProperties
        <5> QED
          BY <5>1, <5>2 DEF Listing
      <4> QED
        BY <1>1, <2>1, <4>1, <4>2, UsersAssumption DEF Enters, PlatformStock
    <3> QED
      BY <3>1, <3>2
  <2>2. ASSUME NEW a \in Assets, status'[a] \in {"available", "treasury"}
        PROVE  owner'[a] \in {NoUser, Plat}
    BY <1>1, <1>5, <2>2 DEF PlatformStock, TitleOnMarket, TitleSame, TitleLapses, TitleSold
  <2> QED
    BY <2>1, <2>2 DEF PlatformStock
<1>7. /\ ItemsTyped' /\ RequestsKept' /\ ItemsKept'
      /\ item' = item /\ budget' = budget
  BY <1>1, ItemsStay DEF vendingVars
<1>8. VendedTitle'
  <2>1. ASSUME NEW u \in Users, NEW a \in Assets, item'[u][a].status = "purchased"
        PROVE  /\ owner'[a] \in Users
               /\ status'[a] \in {"owned", "listed"}
               /\ owner'[a] = Plat => ~ InLane(a)'
    <3>1. /\ owner[a] \in Users /\ status[a] \in {"owned", "listed"}
          /\ owner[a] = Plat => ~ InLane(a)
      BY <1>1, <1>7, <2>1 DEF Vended, VendedTitle
    <3>2. ~ TitleLapses(a)
      BY <1>1, <3>1 DEF TitleLapses, PlatformStock, InLane
    <3>3. owner'[a] \in Users /\ status'[a] \in {"owned", "listed"}
      BY <1>5, <3>1, <3>2 DEF TitleOnMarket, TitleSame, TitleSold
    <3>4. ASSUME owner'[a] = Plat, InLane(a)' PROVE FALSE
      <4>1. PICK l \in DOMAIN listings' :
               Active(l)' /\ listings'[l].asset = a /\ listings'[l].lane # "none"
        BY <3>4 DEF InLane
      <4>2. /\ l \in DOMAIN listings /\ Active(l)
            /\ listings[l].asset = a /\ listings[l].lane # "none"
        BY <1>1, <3>1, <4>1, ActiveRows DEF Enters
      <4>3. owner[a] # Plat
        BY <3>1, <4>2 DEF InLane
      <4>4. TitleSold(a)
        BY <1>5, <3>2, <3>4, <4>3 DEF TitleOnMarket, TitleSame
      <4> QED
        BY <1>1, <3>4, <4>2, <4>4 DEF TitleSold, OneActive
    <3> QED
      BY <3>3, <3>4
  <2> QED
    BY <2>1 DEF VendedTitle
<1>9. Vended' /\ BudgetHeldWhileQuoted'
  BY <1>7, <1>8 DEF VendingInv, Vended, VendedOnce, BudgetHeldWhileQuoted, Quoted, InCredits
<1>10. ConveyancesAccounted'
  <2>1. Purchased' = Purchased /\ Claimed' = Claimed
    BY <1>7 DEF Purchased, Claimed
  <2> QED
    BY <1>1, <2>1, SoldRowsChange, AccountsKept DEF VendingInv
<1> QED
  BY <1>2, <1>3, <1>4, <1>6, <1>7, <1>9, <1>10 DEF VendingInv, MarketSide

LEMMA NextVending == VendingInv /\ [VendingNext]_allVars => VendingInv'
<1> SUFFICES ASSUME VendingInv, [VendingNext]_allVars PROVE VendingInv'
  OBVIOUS
<1>1. CASE Next /\ WalletsLocked /\ UNCHANGED vendingVars
  BY <1>1, MarketStep
<1>2. CASE UNCHANGED allVars
  <2>1. UNCHANGED vars /\ UNCHANGED vendingVars
    BY <1>2 DEF allVars
  <2>2. WalletsLocked
    BY <2>1 DEF WalletsLocked, vars
  <2> QED
    BY <2>1, <2>2, MarketStep
<1>3. ASSUME NEW u \in Customers, NEW a \in Assets, NEW b \in Budgets,
             NEW payment \in {"credits", "unopened"}, NEW gift \in Customers \cup {NoUser},
             ReserveChecks(u, a, b, payment, gift)
      PROVE  VendingInv'
  BY <1>3, ReserveChecksStep
<1>4. ASSUME NEW u \in Users, ReserveCommits(u) \/ ReserveFails(u)
      PROVE  VendingInv'
  BY <1>4, ReserveCommitsStep, ReserveFailsStep
<1>5. ASSUME NEW u \in Users, NEW a \in Assets, WalletsLocked,
             CancelReservation(u, a) \/ PurchaseLapsed(u, a)
      PROVE  VendingInv'
  BY <1>5, ReleaseHoldStep DEF CancelReservation, PurchaseLapsed
<1>6. ASSUME NEW u \in Users, NEW a \in Assets,
             \/ ReservationLapses(u, a) \/ OpenPayment(u, a) \/ PaymentSettles(u, a)
             \/ FulfillExternal(u, a) \/ ClaimGift(u, a)
      PROVE  VendingInv'
  BY <1>6, ReservationLapsesStep, PaymentMovesStep, FulfillExternalStep, ClaimGiftStep
<1>7. ASSUME NEW u \in Users, NEW a \in Assets, WalletsLocked, PurchaseInCredits(u, a)
      PROVE  VendingInv'
  BY <1>7, PurchaseInCreditsStep
<1>8. CASE ExpireReservations /\ WalletsLocked
  BY <1>8, ExpireStep
<1> QED
  BY <1>1, <1>2, <1>3, <1>4, <1>5, <1>6, <1>7, <1>8 DEF VendingNext, VendingStep

\* The strengthened invariant of market and vending together holds in every
\* state that they can reach.
THEOREM VendingInvariant == VendingSpec => []VendingInv
BY InitVending, NextVending, PTL DEF VendingSpec

\* The columns of listings, wallets, items, holds and reservations in the
\* making keep their types: no release of a hold and no purchase takes a
\* wallet below zero.
THEOREM VendingTypes == VendingSpec => []VendingTypeOK
<1>1. VendingInv => VendingTypeOK
  BY DEF VendingInv, MarketSide, BooksOK, ItemsTyped, VendingTypeOK
<1> QED
  BY <1>1, VendingInvariant, PTL

\* No way out of a reservation leaves a hold behind or takes it twice: the
\* hold is there, for the whole budget, exactly while the reservation is open.
THEOREM BudgetsAreHeld == VendingSpec => []BudgetHeldWhileQuoted
BY VendingInvariant, PTL DEF VendingInv

\* Every conveyance in the ledger is a listing sold, a reservation purchased
\* or a gift claimed, and each of these has one.
THEOREM EveryConveyanceHasACause == VendingSpec => []ConveyancesAccounted
BY VendingInvariant, PTL DEF VendingInv

\* Of the purchasers who reserved a handle at once, one at most buys it.
THEOREM NoHandleVendedTwice == VendingSpec => []VendedOnce
<1>1. VendingInv => VendedOnce
  BY DEF VendingInv, Vended
<1> QED
  BY <1>1, VendingInvariant, PTL

-----------------------------------------------------------------------------
(* What a root owns is safe.                                               *)

\* Vending moves a title in three ways only.
LEMMA VendingMovesTitle ==
    ASSUME VendingStep
    PROVE  \/ UNCHANGED <<owner, ledger, listings, hold>>
           \/ \E u \in Users, a \in Assets :
                 PurchaseInCredits(u, a) \/ FulfillExternal(u, a) \/ ClaimGift(u, a)
<1>1. \A u, a, b, payment, gift : ReserveChecks(u, a, b, payment, gift) =>
         UNCHANGED <<owner, ledger, listings, hold>>
  BY DEF ReserveChecks, vars
<1>2. \A u : ReserveCommits(u) \/ ReserveFails(u) => UNCHANGED <<owner, ledger, listings, hold>>
  BY DEF ReserveCommits, ReserveFails, vars
<1>3. \A u, a : ReservationLapses(u, a) \/ OpenPayment(u, a) \/ PaymentSettles(u, a) =>
         UNCHANGED <<owner, ledger, listings, hold>>
  BY DEF ReservationLapses, OpenPayment, PaymentSettles, vars
<1>4. \A u, a : CancelReservation(u, a) \/ PurchaseLapsed(u, a) =>
         UNCHANGED <<owner, ledger, listings, hold>>
  BY DEF CancelReservation, PurchaseLapsed, ReleaseHold
<1>5. ExpireReservations => UNCHANGED <<owner, ledger, listings, hold>>
  BY DEF ExpireReservations
<1> QED
  BY <1>1, <1>2, <1>3, <1>4, <1>5 DEF VendingStep

\* What takes the title of a from the root that owns it
TakenFairly(a) ==
    \/ \E l \in DOMAIN listings :
          /\ Active(l) /\ listings[l].asset = a /\ listings[l].seller = owner[a]
          /\ listings'[l].status = "sold"
    \/ /\ item[owner[a]][a].claim = "pending"
       /\ owner'[a] = item[owner[a]][a].gift

LEMMA TitleTaken ==
    ASSUME VendingInv, [VendingNext]_allVars, NEW a \in Assets,
           owner[a] \notin {NoUser, Plat}, owner'[a] # owner[a]
    PROVE  TakenFairly(a)
<1>1. /\ BooksOK /\ RootsFixed /\ PricesKnown /\ TypeOK
  BY DEF VendingInv, MarketSide, BooksOK
<1>2. CASE [Next]_vars
  <2>1. PICK l \in DOMAIN listings, seller \in Users, payer \in Users, buyer \in Users,
             price \in Nat, fee \in Nat : SettlesSale(l, seller, payer, buyer, price, fee)
    BY <1>1, <1>2, EverySale
  <2>2. PICK b \in Assets : b = listings[l].asset
    BY <1>1, ListingRow DEF TypeOK
  <2>3. /\ owner[b] = seller /\ listings[l].seller = seller
        /\ owner' = [owner EXCEPT ![b] = buyer]
    BY <1>1, <2>1, <2>2, SaleBetweenRoots
  <2>4. a = b
    BY <1>1, <2>3 DEF TypeOK
  <2>5. Active(l) /\ Close(l, "sold")
    BY <2>1 DEF SettlesSale
  <2>6. listings'[l].status = "sold"
    BY <1>1, <2>5, ClosedListing DEF TypeOK, Statuses
  <2> QED
    BY <2>2, <2>3, <2>4, <2>5, <2>6 DEF TakenFairly
<1>3. CASE VendingStep
  <2>1. PICK u \in Users, b \in Assets :
           PurchaseInCredits(u, b) \/ FulfillExternal(u, b) \/ ClaimGift(u, b)
    BY <1>3, VendingMovesTitle
  <2>2. ASSUME PurchaseInCredits(u, b) \/ FulfillExternal(u, b) PROVE FALSE
    <3>1. /\ owner[b] \in {NoUser, Plat}
          /\ owner' = [owner EXCEPT ![b] = u]
      BY <2>2 DEF PurchaseInCredits, FulfillExternal, Purchasable, Convey, MoveTitle
    <3> QED
      BY <1>1, <3>1 DEF TypeOK
  <2>3. /\ item[u][b].claim = "pending" /\ owner[b] = u
        /\ owner' = [owner EXCEPT ![b] = item[u][b].gift]
    BY <2>1, <2>2 DEF ClaimGift, Claimable, MoveTitle
  <2>4. a = b /\ owner'[a] = item[u][b].gift
    BY <1>1, <2>3 DEF TypeOK
  <2> QED
    BY <2>3, <2>4 DEF TakenFairly
<1>4. [Next]_vars \/ VendingStep
  BY DEF VendingNext, allVars
<1> QED
  BY <1>2, <1>3, <1>4

\* What a root other than the platform owns leaves it only when its listing is
\* sold or when the recipient of the gift it bought claims it.
THEOREM PrivateTitleSafe == VendingSpec => PrivateTitleIsSafe
<1>1. VendingInv /\ [VendingNext]_allVars =>
         [\A a \in Assets : owner[a] \notin {NoUser, Plat} /\ owner'[a] # owner[a] =>
             TakenFairly(a)]_allVars
  BY TitleTaken
<1> QED
  BY <1>1, VendingInvariant, PTL DEF VendingSpec, PrivateTitleIsSafe, TakenFairly

-----------------------------------------------------------------------------
(* Market, vending and gifts implement the exchange of titles.             *)

\* The budgets B holds for u
BudgetOf(B, u) == SumFunctionOnSet(B[u], Assets)

LEMMA WealthHeldIs ==
    ASSUME ItemsTyped, ItemsTyped', NEW u \in Users
    PROVE  /\ WealthHeld(u) = Wealth(u) + BudgetOf(budget, u)
           /\ WealthHeld(u)' = Wealth(u)' + BudgetOf(budget', u)
<1>1. DOMAIN budget[u] = Assets /\ DOMAIN budget'[u] = Assets
  BY DEF ItemsTyped
<1> QED
  BY <1>1, SumFunctionIs DEF WealthHeld, BudgetOf

LEMMA BudgetOfIsNat ==
    ASSUME NEW B \in [Users -> [Assets -> Nat]], NEW u \in Users
    PROVE  /\ BudgetOf(B, u) \in Nat
           /\ \A a \in Assets : B[u][a] <= BudgetOf(B, u)
<1>1. PICK f \in [Assets -> Nat] : f = B[u]
  OBVIOUS
<1>2. \A a \in Assets : f[a] \in Nat
  OBVIOUS
<1>3. /\ SumFunctionOnSet(f, Assets) \in Nat
      /\ \A a \in Assets : f[a] <= SumFunctionOnSet(f, Assets)
  BY <1>2, SumNat, VendingAssumption
<1> QED
  BY <1>1, <1>3 DEF BudgetOf

\* One budget changes: what is held changes by the difference.
LEMMA BudgetOfChange ==
    ASSUME NEW B \in [Users -> [Assets -> Nat]], NEW C \in [Users -> [Assets -> Nat]],
           NEW u \in Users, NEW a \in Assets,
           \A v \in Users, b \in Assets : v # u \/ b # a => C[v][b] = B[v][b]
    PROVE  /\ BudgetOf(C, u) = BudgetOf(B, u) + (C[u][a] - B[u][a])
           /\ \A v \in Users : v # u => BudgetOf(C, v) = BudgetOf(B, v)
<1>1. PICK f \in [Assets -> Nat], g \in [Assets -> Nat] : f = B[u] /\ g = C[u]
  OBVIOUS
<1>2. \A b \in Assets : f[b] \in Int /\ g[b] \in Int /\ (b # a => g[b] = f[b])
  BY <1>1
<1>3. SumFunctionOnSet(g, Assets) = SumFunctionOnSet(f, Assets) + (g[a] - f[a])
  BY <1>2, SumChange, VendingAssumption
<1>4. ASSUME NEW v \in Users, v # u PROVE BudgetOf(C, v) = BudgetOf(B, v)
  <2>1. PICK p \in [Assets -> Nat], q \in [Assets -> Nat] : p = B[v] /\ q = C[v]
    OBVIOUS
  <2>2. \A b \in Assets : p[b] = q[b]
    BY <1>4, <2>1
  <2>3. SumFunctionOnSet(p, Assets) = SumFunctionOnSet(q, Assets)
    BY <2>2, SumSame, VendingAssumption
  <2> QED
    BY <2>1, <2>3 DEF BudgetOf
<1> QED
  BY <1>1, <1>3, <1>4 DEF BudgetOf

\* What u is worth in market and vending, before a step and after it
WorthHeldKept == \A u \in Users : WealthHeld(u)' = WealthHeld(u)

LEMMA WorthIs ==
    ASSUME VendingInv, VendingInv', hold' = hold, NEW u \in Users
    PROVE  \E held \in Nat :
              /\ WealthHeld(u) = credits[u] + held + BudgetOf(budget, u)
              /\ WealthHeld(u)' = credits'[u] + held + BudgetOf(budget', u)
              /\ credits[u] \in Nat /\ credits'[u] \in Nat
              /\ BudgetOf(budget, u) \in Nat /\ BudgetOf(budget', u) \in Nat
<1>1. /\ ItemsTyped /\ ItemsTyped' /\ TypeOK /\ TypeOK'
      /\ budget \in [Users -> [Assets -> Nat]] /\ budget' \in [Users -> [Assets -> Nat]]
  BY DEF VendingInv, MarketSide, BooksOK, ItemsTyped
<1>2. /\ Wealth(u) = credits[u] + HeldIn(hold, u)
      /\ Wealth(u)' = credits'[u] + HeldIn(hold, u)
  BY WealthIsCreditsAndHolds
<1>3. HeldIn(hold, u) \in Nat
  BY <1>1, HeldInIsNat DEF TypeOK
<1>4. /\ WealthHeld(u) = Wealth(u) + BudgetOf(budget, u)
      /\ WealthHeld(u)' = Wealth(u)' + BudgetOf(budget', u)
  BY <1>1, WealthHeldIs
<1>5. credits[u] \in Nat /\ credits'[u] \in Nat
  BY <1>1 DEF TypeOK
<1>6. BudgetOf(budget, u) \in Nat /\ BudgetOf(budget', u) \in Nat
  BY <1>1, BudgetOfIsNat
<1> QED
  BY <1>2, <1>3, <1>4, <1>5, <1>6

LEMMA NothingHeldMoves ==
    ASSUME VendingInv, VendingInv', UNCHANGED <<credits, hold, budget>>
    PROVE  WorthHeldKept
BY WorthIs DEF WorthHeldKept

\* Credits go from a wallet into a budget, or back.
LEMMA OneBudgetMoves ==
    ASSUME VendingInv, VendingInv', hold' = hold, NEW u \in Users, NEW a \in Assets,
           credits'[u] = credits[u] + (budget[u][a] - budget'[u][a]),
           \A v \in Users : v # u => credits'[v] = credits[v],
           \A v \in Users, b \in Assets : v # u \/ b # a => budget'[v][b] = budget[v][b]
    PROVE  WorthHeldKept
<1>1. budget \in [Users -> [Assets -> Nat]] /\ budget' \in [Users -> [Assets -> Nat]]
  BY DEF VendingInv, ItemsTyped
<1>2. PICK B \in [Users -> [Assets -> Nat]], C \in [Users -> [Assets -> Nat]] :
         B = budget /\ C = budget'
  BY <1>1
<1>3. /\ BudgetOf(C, u) = BudgetOf(B, u) + (C[u][a] - B[u][a])
      /\ \A v \in Users : v # u => BudgetOf(C, v) = BudgetOf(B, v)
  <2>1. \A v \in Users, b \in Assets : v # u \/ b # a => C[v][b] = B[v][b]
    BY <1>2
  <2> QED
    BY <2>1, BudgetOfChange
<1>4. B[u][a] \in Nat /\ C[u][a] \in Nat
  OBVIOUS
<1>5. WealthHeld(u)' = WealthHeld(u)
  BY <1>2, <1>3, <1>4, WorthIs
<1>6. ASSUME NEW v \in Users, v # u PROVE WealthHeld(v)' = WealthHeld(v)
  BY <1>2, <1>3, <1>6, WorthIs
<1> QED
  BY <1>5, <1>6 DEF WorthHeldKept

LEMMA CommitKeepsWorth ==
    ASSUME VendingInv, VendingInv', NEW u \in Users, ReserveCommits(u)
    PROVE  WorthHeldKept
<1>1. /\ ItemsTyped /\ RequestsKept /\ TypeOK /\ request[u] # NoRequest
      /\ request[u] \in [asset : Assets, item : Item]
  BY DEF VendingInv, MarketSide, BooksOK, ReserveCommits, ItemsTyped
<1>2. PICK a \in Assets, new \in Item : a = request[u].asset /\ new = request[u].item
  BY <1>1
<1>3. PICK held \in Nat : held = IF new.payment = "credits" THEN new.budget ELSE 0
  BY DEF Item
<1>4. /\ credits' = [credits EXCEPT ![u] = @ - held]
      /\ budget' = [budget EXCEPT ![u][a] = held]
      /\ hold' = hold
  BY <1>2, <1>3 DEF ReserveCommits
<1>5. item[u][a] = NoItem
  BY <1>1, <1>2 DEF RequestsKept
<1>6. budget[u][a] = 0
  BY <1>5 DEF VendingInv, BudgetHeldWhileQuoted, Quoted, NoItem
<1>7. /\ budget'[u][a] = held
      /\ \A v \in Users, b \in Assets : v # u \/ b # a => budget'[v][b] = budget[v][b]
  BY <1>1, <1>4 DEF ItemsTyped
<1>8. /\ credits'[u] = credits[u] - held /\ credits[u] \in Nat
      /\ \A v \in Users : v # u => credits'[v] = credits[v]
  BY <1>1, <1>4 DEF TypeOK
<1>9. credits'[u] = credits[u] + (budget[u][a] - budget'[u][a])
  BY <1>6, <1>7, <1>8
<1> QED
  BY <1>4, <1>7, <1>8, <1>9, OneBudgetMoves

LEMMA ReleaseKeepsWorth ==
    ASSUME VendingInv, VendingInv', NEW u \in Users, NEW a \in Assets, NEW final,
           ReleaseHold(u, a, final)
    PROVE  WorthHeldKept
<1>1. /\ ItemsTyped /\ TypeOK
      /\ credits' = [credits EXCEPT ![u] = @ + budget[u][a]]
      /\ budget' = [budget EXCEPT ![u][a] = 0]
      /\ hold' = hold
  BY DEF VendingInv, MarketSide, BooksOK, ReleaseHold, Refunded, HoldGone
<1>2. /\ budget'[u][a] = 0 /\ budget[u][a] \in Nat
      /\ \A v \in Users, b \in Assets : v # u \/ b # a => budget'[v][b] = budget[v][b]
  BY <1>1 DEF ItemsTyped
<1>3. /\ credits'[u] = credits[u] + budget[u][a] /\ credits[u] \in Nat
      /\ \A v \in Users : v # u => credits'[v] = credits[v]
  BY <1>1 DEF TypeOK
<1>4. credits'[u] = credits[u] + (budget[u][a] - budget'[u][a])
  BY <1>2, <1>3
<1> QED
  BY <1>1, <1>2, <1>3, <1>4, OneBudgetMoves

\* The sweep gives every wallet just what it takes from that user's budgets.
LEMMA ExpireKeepsWorth ==
    ASSUME VendingInv, VendingInv', ExpireReservations
    PROVE  WorthHeldKept
<1>1. /\ ItemsTyped /\ TypeOK /\ hold' = hold
  BY DEF VendingInv, MarketSide, BooksOK, ExpireReservations
<1>2. ASSUME NEW u \in Users PROVE WealthHeld(u)' = WealthHeld(u)
  <2> DEFINE back == [a \in Assets |-> IF <<u, a>> \in Lapsed THEN budget[u][a] ELSE 0]
             kept == [a \in Assets |-> IF <<u, a>> \in Lapsed THEN 0 ELSE budget[u][a]]
  <2>1. PICK f \in [Assets -> Nat] : f = budget[u]
    BY <1>1 DEF ItemsTyped
  <2>2. \A a \in Assets : back[a] \in Int /\ kept[a] \in Int /\ f[a] = back[a] + kept[a]
    <3> SUFFICES ASSUME NEW a \in Assets
                 PROVE  back[a] \in Int /\ kept[a] \in Int /\ f[a] = back[a] + kept[a]
      OBVIOUS
    <3>1. CASE <<u, a>> \in Lapsed
      BY <2>1, <3>1
    <3>2. CASE <<u, a>> \notin Lapsed
      BY <2>1, <3>2
    <3> QED
      BY <3>1, <3>2
  <2>3. DOMAIN back = Assets /\ budget'[u] = kept
    BY DEF ExpireReservations
  <2>4. credits'[u] = credits[u] + SumFunction(back)
    BY DEF ExpireReservations
  <2> HIDE DEF back, kept
  <2>5. SumFunctionOnSet(f, Assets) = SumFunctionOnSet(back, Assets)
                                        + SumFunctionOnSet(kept, Assets)
    BY <2>2, SumPlus, VendingAssumption
  <2>6. SumFunction(back) = SumFunctionOnSet(back, Assets)
    BY <2>3, SumFunctionIs
  <2>7. /\ SumFunctionOnSet(back, Assets) \in Int
        /\ SumFunctionOnSet(kept, Assets) \in Int
    BY <2>2, SumInt, VendingAssumption
  <2>8. /\ BudgetOf(budget, u) = SumFunctionOnSet(f, Assets)
        /\ BudgetOf(budget', u) = SumFunctionOnSet(kept, Assets)
    BY <2>1, <2>3 DEF BudgetOf
  <2> QED
    BY <1>1, <2>4, <2>5, <2>6, <2>7, <2>8, WorthIs
<1> QED
  BY <1>2 DEF WorthHeldKept

\* A purchase in credits: the platform has the list price, the rest of the
\* budget is back in the wallet.
LEMMA PurchasePays ==
    ASSUME VendingInv, VendingInv', NEW u \in Users, NEW a \in Assets,
           PurchaseInCredits(u, a)
    PROVE  /\ \A v \in Users : WealthHeld(v)' =
                 WealthHeld(v) + WholeExchange!Gain(v, Plat, u, item[u][a].price, 0)
           /\ WealthHeld(u) >= item[u][a].price
<1>1. ItemsTyped /\ TypeOK
  BY DEF VendingInv, MarketSide, BooksOK
<1>2. PICK price \in Nat, held \in Nat : price = item[u][a].price /\ held = budget[u][a]
  BY <1>1, ItemRow
<1>3. /\ held >= price /\ u # Plat /\ hold' = hold
      /\ credits' = [credits EXCEPT ![Plat] = @ + price, ![u] = @ + (held - price)]
      /\ budget' = [budget EXCEPT ![u][a] = 0]
  BY <1>2 DEF PurchaseInCredits, HoldGone
<1>4. PICK B \in [Users -> [Assets -> Nat]], C \in [Users -> [Assets -> Nat]] :
         B = budget /\ C = budget'
  BY <1>1, <1>3 DEF ItemsTyped
<1>5. /\ C[u][a] = 0 /\ B[u][a] = held
      /\ \A v \in Users, b \in Assets : v # u \/ b # a => C[v][b] = B[v][b]
  BY <1>2, <1>3, <1>4
<1>6. /\ BudgetOf(C, u) = BudgetOf(B, u) + (C[u][a] - B[u][a])
      /\ \A v \in Users : v # u => BudgetOf(C, v) = BudgetOf(B, v)
  BY <1>5, BudgetOfChange
<1>7. /\ BudgetOf(B, u) \in Nat /\ held <= BudgetOf(B, u)
  BY <1>5, BudgetOfIsNat
<1>8. /\ \A v \in Users : credits[v] \in Nat
      /\ credits'[Plat] = credits[Plat] + price
      /\ credits'[u] = credits[u] + (held - price)
      /\ \A v \in Users : v # u /\ v # Plat => credits'[v] = credits[v]
  BY <1>1, <1>3, UsersAssumption DEF TypeOK
<1>9. ASSUME NEW v \in Users
      PROVE  WealthHeld(v)' = WealthHeld(v) + WholeExchange!Gain(v, Plat, u, price, 0)
  <2>1. PICK h \in Nat :
           /\ WealthHeld(v) = credits[v] + h + BudgetOf(B, v)
           /\ WealthHeld(v)' = credits'[v] + h + BudgetOf(C, v)
           /\ BudgetOf(B, v) \in Nat /\ BudgetOf(C, v) \in Nat
    BY <1>3, <1>4, WorthIs
  <2>2. CASE v = u
    <3>1. WholeExchange!Gain(v, Plat, u, price, 0) = 0 - price
      BY <1>3, <2>2 DEF WholeExchange!Gain
    <3> QED
      BY <1>5, <1>6, <1>8, <2>1, <2>2, <3>1
  <2>3. CASE v = Plat
    <3>1. WholeExchange!Gain(v, Plat, u, price, 0) = price
      BY <1>3, <2>3 DEF WholeExchange!Gain
    <3> QED
      BY <1>3, <1>6, <1>8, <2>1, <2>3, <3>1
  <2>4. CASE v # u /\ v # Plat
    <3>1. WholeExchange!Gain(v, Plat, u, price, 0) = 0
      BY <2>4 DEF WholeExchange!Gain
    <3> QED
      BY <1>6, <1>8, <2>1, <2>4, <3>1
  <2> QED
    BY <2>2, <2>3, <2>4
<1>10. WealthHeld(u) >= price
  <2>1. PICK h \in Nat : WealthHeld(u) = credits[u] + h + BudgetOf(B, u)
    BY <1>3, <1>4, WorthIs
  <2> QED
    BY <1>3, <1>7, <1>8, <2>1
<1> QED
  BY <1>2, <1>9, <1>10

\* What the platform or nobody owns is the platform's to sell.
LEMMA ShelfIsPlats ==
    ASSUME owner \in [Assets -> Users \cup {NoUser}], NEW a \in Assets, Purchasable(a)
    PROVE  WholeExchange!Holder(a) = Plat
BY DEF Purchasable, WholeExchange!Holder

\* The list price of an item is one the exchange knows.
LEMMA ItemPriceIs ==
    ASSUME VendingInv, NEW u \in Users, NEW a \in Assets, item[u][a] # NoItem
    PROVE  item[u][a].price \in SalePrices \cup {ListPrice(b) : b \in Budgets}
BY DEF VendingInv, ItemsKept

LEMMA ConveyIsRecorded ==
    ASSUME NEW a \in Assets, NEW buyer, NEW price, NEW fee, NEW seller,
           Convey(a, seller, buyer, price, fee), WholeExchange!Holder(a) = seller
    PROVE  /\ price >= 200
           /\ owner' = [owner EXCEPT ![a] = buyer]
           /\ WholeExchange!Record(a, buyer, price, fee)
BY DEF Convey, MoveTitle, MinTransfer, WholeExchange!Record

LEMMA PurchaseIsSale ==
    ASSUME VendingInv, VendingInv', NEW u \in Users, NEW a \in Assets,
           PurchaseInCredits(u, a)
    PROVE  WholeExchange!Trade
<1>1. /\ ItemsTyped /\ TypeOK /\ Quoted(u, a) /\ Purchasable(a) /\ u # Plat
  BY DEF VendingInv, MarketSide, BooksOK, PurchaseInCredits, Live
<1>2. PICK price \in SalePrices \cup {ListPrice(b) : b \in Budgets} : price = item[u][a].price
  BY <1>1, ItemIs, ItemPriceIs DEF Quoted
<1>3. Convey(a, Plat, u, price, 0)
  BY <1>2 DEF PurchaseInCredits
<1>4. WholeExchange!Holder(a) = Plat
  BY <1>1, ShelfIsPlats DEF TypeOK
<1>5. /\ price >= 200 /\ owner' = [owner EXCEPT ![a] = u]
      /\ WholeExchange!Record(a, u, price, 0)
  BY <1>3, <1>4, ConveyIsRecorded
<1>6. WholeExchange!FeeOn(Plat, price) = 0
  BY DEF WholeExchange!FeeOn
<1>7. /\ \A v \in Users : WealthHeld(v)' =
            WealthHeld(v) + WholeExchange!Gain(v, Plat, u, price, 0)
      /\ WealthHeld(u) >= price
  BY <1>2, PurchasePays
<1>8. [v \in Users |-> WealthHeld(v)]' =
         [v \in Users |-> [w \in Users |-> WealthHeld(w)][v]
                            + WholeExchange!Gain(v, Plat, u, price, 0)]
  BY <1>7
<1>9. [v \in Users |-> WealthHeld(v)][u] >= price
  BY <1>7
<1>10. WholeExchange!Sell(a, u, price)
  BY <1>1, <1>4, <1>5, <1>6, <1>8, <1>9 DEF WholeExchange!Sell
<1> QED
  BY <1>2, <1>10 DEF WholeExchange!Trade

LEMMA WorthIsUnchanged ==
    ASSUME WorthHeldKept
    PROVE  [u \in Users |-> WealthHeld(u)]' = [u \in Users |-> WealthHeld(u)]
BY DEF WorthHeldKept

LEMMA FulfillIsRelease ==
    ASSUME VendingInv, VendingInv', NEW u \in Users, NEW a \in Assets,
           FulfillExternal(u, a)
    PROVE  WholeExchange!Next
<1>1. /\ TypeOK /\ Quoted(u, a) /\ Purchasable(a) /\ u # Plat
      /\ UNCHANGED <<credits, hold, budget>>
  BY DEF VendingInv, MarketSide, BooksOK, FulfillExternal, wallets
<1>2. PICK price \in SalePrices \cup {ListPrice(b) : b \in Budgets} : price = item[u][a].price
  BY <1>1, ItemIs, ItemPriceIs DEF Quoted
<1>3. Convey(a, Plat, u, price, 0)
  BY <1>2 DEF FulfillExternal
<1>4. WholeExchange!Holder(a) = Plat
  BY <1>1, ShelfIsPlats DEF TypeOK
<1>5. /\ price >= 200 /\ owner' = [owner EXCEPT ![a] = u]
      /\ WholeExchange!Record(a, u, price, 0)
  BY <1>3, <1>4, ConveyIsRecorded
<1>6. [v \in Users |-> WealthHeld(v)]' = [v \in Users |-> WealthHeld(v)]
  BY <1>1, NothingHeldMoves, WorthIsUnchanged
<1>7. WholeExchange!Release(a, u, price)
  BY <1>1, <1>4, <1>5, <1>6 DEF WholeExchange!Release
<1> QED
  BY <1>2, <1>7 DEF WholeExchange!Next

LEMMA ClaimIsGift ==
    ASSUME VendingInv, VendingInv', NEW u \in Users, NEW a \in Assets, ClaimGift(u, a)
    PROVE  WholeExchange!Next
<1>1. /\ TypeOK /\ ItemsTyped /\ ItemsKept
      /\ item[u][a].claim = "pending" /\ owner[a] = u /\ item[u][a].gift # u
      /\ UNCHANGED <<credits, hold, budget>>
  BY DEF VendingInv, MarketSide, BooksOK, ClaimGift, Claimable, wallets
<1>2. item[u][a] # NoItem
  BY <1>1, ItemIs
<1>3. PICK v \in Users : v = item[u][a].gift /\ v # u
  BY <1>1, <1>2, ItemRow DEF ItemsKept
<1>4. u # NoUser
  BY UsersAssumption
<1>5. WholeExchange!Holder(a) = u
  BY <1>1, <1>4 DEF WholeExchange!Holder
<1>6. /\ owner' = [owner EXCEPT ![a] = v]
      /\ WholeExchange!Record(a, v, 0, 0)
  BY <1>3, <1>5 DEF ClaimGift, MoveTitle, WholeExchange!Record
<1>7. [w \in Users |-> WealthHeld(w)]' = [w \in Users |-> WealthHeld(w)]
  BY <1>1, NothingHeldMoves, WorthIsUnchanged
<1>8. WholeExchange!Give(a, v)
  BY <1>1, <1>3, <1>4, <1>6, <1>7 DEF WholeExchange!Give
<1> QED
  BY <1>8 DEF WholeExchange!Next

\* The market's steps, with the budgets as they are
LEMMA MarketHeldWorth ==
    ASSUME VendingInv, VendingInv', budget' = budget, NEW u \in Users
    PROVE  \E held \in Nat :
              /\ WealthHeld(u) = Wealth(u) + held /\ WealthHeld(u)' = Wealth(u)' + held
              /\ Wealth(u) \in Nat
<1>1. /\ ItemsTyped /\ ItemsTyped' /\ TypeOK /\ budget \in [Users -> [Assets -> Nat]]
  BY DEF VendingInv, MarketSide, BooksOK, ItemsTyped
<1>2. /\ WealthHeld(u) = Wealth(u) + BudgetOf(budget, u)
      /\ WealthHeld(u)' = Wealth(u)' + BudgetOf(budget, u)
  BY <1>1, WealthHeldIs
<1> QED
  BY <1>1, <1>2, BudgetOfIsNat, WealthIsNat

LEMMA MarketSaleIsSale ==
    ASSUME VendingInv, VendingInv', budget' = budget,
           NEW l \in DOMAIN listings, NEW seller \in Users, NEW payer \in Users,
           NEW buyer \in Users, NEW price \in Nat, NEW fee \in Nat,
           SettlesSale(l, seller, payer, buyer, price, fee)
    PROVE  WholeExchange!Trade
<1>1. BooksOK /\ RootsFixed /\ PricesKnown
  BY DEF VendingInv, MarketSide
<1>2. PICK a \in Assets :
         /\ a = listings[l].asset /\ owner[a] = seller
         /\ payer = buyer /\ price \in SalePrices /\ price >= 200
         /\ owner' = [owner EXCEPT ![a] = buyer]
  BY <1>1, SaleBetweenRoots
<1>3. WholeExchange!Holder(a) = seller
  BY <1>2, UsersAssumption DEF WholeExchange!Holder
<1>4. WholeExchange!Record(a, buyer, price, fee)
  BY <1>2, <1>3 DEF SettlesSale, Convey, WholeExchange!Record
<1>5. /\ seller # buyer /\ Wealth(buyer) >= price
      /\ fee = Exchange!FeeOn(seller, price)
      /\ \A u \in Users : Wealth(u)' = Wealth(u) + Exchange!Gain(u, seller, buyer, price, fee)
  BY <1>2 DEF SettlesSale, Gains
<1>6. fee = WholeExchange!FeeOn(seller, price)
  BY <1>5 DEF Exchange!FeeOn, WholeExchange!FeeOn
<1>7. ASSUME NEW u \in Users
      PROVE  WealthHeld(u)' = WealthHeld(u) + WholeExchange!Gain(u, seller, buyer, price, fee)
  <2>1. PICK gain \in Int : gain = Exchange!Gain(u, seller, buyer, price, fee)
    BY DEF Exchange!Gain
  <2>2. gain = WholeExchange!Gain(u, seller, buyer, price, fee)
    BY <2>1 DEF Exchange!Gain, WholeExchange!Gain
  <2>3. PICK held \in Nat :
           /\ WealthHeld(u) = Wealth(u) + held /\ WealthHeld(u)' = Wealth(u)' + held
           /\ Wealth(u) \in Nat
    BY MarketHeldWorth
  <2>4. Wealth(u)' = Wealth(u) + gain
    BY <1>5, <2>1
  <2>5. WealthHeld(u)' = WealthHeld(u) + gain
    BY <2>3, <2>4
  <2> QED
    BY <2>2, <2>5
<1>8. WealthHeld(buyer) >= price
  BY <1>5, MarketHeldWorth
<1>9. [u \in Users |-> WealthHeld(u)]' =
         [u \in Users |-> [w \in Users |-> WealthHeld(w)][u]
                            + WholeExchange!Gain(u, seller, buyer, price, fee)]
  BY <1>7
<1>10. [u \in Users |-> WealthHeld(u)][buyer] >= price
  BY <1>8
<1>11. WholeExchange!Sell(a, buyer, price)
  BY <1>2, <1>3, <1>4, <1>5, <1>6, <1>9, <1>10 DEF WholeExchange!Sell
<1> QED
  BY <1>2, <1>11 DEF WholeExchange!Trade

\* Every step of market and vending is a step of the exchange, or none.
LEMMA VendingIsExchange ==
    ASSUME VendingInv, VendingInv', [VendingNext]_allVars
    PROVE  [WholeExchange!Next]_(WholeExchange!vars)
<1>1. ASSUME WorthHeldKept, UNCHANGED <<owner, ledger>>
      PROVE  UNCHANGED WholeExchange!vars
  BY <1>1, WorthIsUnchanged DEF WholeExchange!vars
<1>2. CASE [Next]_vars /\ UNCHANGED vendingVars
  <2>1. BooksOK /\ budget' = budget
    BY <1>2 DEF VendingInv, MarketSide, vendingVars
  <2>2. ASSUME WorthKept PROVE WorthHeldKept
    BY <2>1, <2>2, MarketHeldWorth DEF WorthHeldKept, WorthKept
  <2> QED
    BY <1>1, <1>2, <2>1, <2>2, EverySale, MarketSaleIsSale DEF WholeExchange!Next
<1>3. CASE VendingStep
  <2>1. ASSUME NEW u \in Users, NEW a \in Assets,
               PurchaseInCredits(u, a) \/ FulfillExternal(u, a) \/ ClaimGift(u, a)
        PROVE  WholeExchange!Next
    BY <2>1, PurchaseIsSale, FulfillIsRelease, ClaimIsGift DEF WholeExchange!Next
  <2>2. ASSUME UNCHANGED <<owner, ledger, hold>> PROVE UNCHANGED WholeExchange!vars \/ WholeExchange!Next
    <3>1. ASSUME UNCHANGED <<credits, budget>> PROVE UNCHANGED WholeExchange!vars
      BY <1>1, <2>2, <3>1, NothingHeldMoves
    <3>2. \A u, a, b, payment, gift : ReserveChecks(u, a, b, payment, gift) =>
             UNCHANGED <<credits, budget>>
      BY DEF ReserveChecks, vars
    <3>3. \A u : ReserveFails(u) => UNCHANGED <<credits, budget>>
      BY DEF ReserveFails, vars
    <3>4. \A u, a : ReservationLapses(u, a) \/ OpenPayment(u, a) \/ PaymentSettles(u, a) =>
             UNCHANGED <<credits, budget>>
      BY DEF ReservationLapses, OpenPayment, PaymentSettles, vars
    <3>5. ASSUME NEW u \in Users, ReserveCommits(u) PROVE UNCHANGED WholeExchange!vars
      BY <1>1, <2>2, <3>5, CommitKeepsWorth
    <3>6. ASSUME NEW u \in Users, NEW a \in Assets, CancelReservation(u, a) \/ PurchaseLapsed(u, a)
          PROVE  UNCHANGED WholeExchange!vars
      BY <1>1, <2>2, <3>6, ReleaseKeepsWorth DEF CancelReservation, PurchaseLapsed
    <3>7. ASSUME ExpireReservations PROVE UNCHANGED WholeExchange!vars
      BY <1>1, <2>2, <3>7, ExpireKeepsWorth
    <3> QED
      BY <1>3, <2>1, <3>1, <3>2, <3>3, <3>4, <3>5, <3>6, <3>7 DEF VendingStep
  <2> QED
    BY <1>3, <2>1, <2>2, VendingMovesTitle
<1> QED
  BY <1>2, <1>3 DEF VendingNext, allVars

LEMMA InitWholeExchange == VendingInit => WholeExchange!Init
<1> SUFFICES ASSUME VendingInit PROVE WholeExchange!Init
  OBVIOUS
<1>1. Init
  BY DEF VendingInit
<1>2. ASSUME NEW u \in Users PROVE WealthHeld(u) = InitialCredits[u]
  <2>1. PICK none \in [Assets -> Nat] : none = budget[u] /\ \A a \in Assets : none[a] = 0
    BY DEF VendingInit
  <2>2. SumFunctionOnSet(none, Assets) = 0
    BY <2>1, SumZero, VendingAssumption
  <2>3. SumFunction(budget[u]) = 0
    BY <2>1, <2>2, SumFunctionIs
  <2>4. Wealth(u) = InitialCredits[u] /\ InitialCredits[u] \in Nat
    BY <1>1, InitWorth, AmountsAssumption
  <2> QED
    BY <2>3, <2>4 DEF WealthHeld
<1>3. [u \in Users |-> WealthHeld(u)] = InitialCredits
  BY <1>2, AmountsAssumption
<1> QED
  BY <1>1, <1>3 DEF Init, WholeExchange!Init

\* Market, vending and gifts together implement the exchange of titles: a
\* reservation and every way out of it leave everybody as rich as before, a
\* purchase costs its list price and nothing more, and the platform's property
\* goes without credits only against an outside payment, anybody's as a gift.
THEOREM VendingKeepsExchange == VendingSpec => TitleIsExchanged
<1>1. VendingInv /\ VendingInv' /\ [VendingNext]_allVars =>
         [WholeExchange!Next]_(WholeExchange!vars)
  BY VendingIsExchange
<1> QED
  BY <1>1, InitWholeExchange, VendingInvariant, PTL
     DEF VendingSpec, TitleIsExchanged, WholeExchange!Spec

-----------------------------------------------------------------------------
(* The chain of conveyances, vending and gifts included.                   *)

LEMMA RecordContinuesChain ==
    ASSUME TypeOK, TypeOK', TitleChain, NEW a \in Assets, NEW b \in Users,
           NEW price, NEW fee, WholeExchange!Record(a, b, price, fee),
           owner' = [owner EXCEPT ![a] = b]
    PROVE  TitleChain'
<1> DEFINE row == [asset |-> a, seller |-> WholeExchange!Holder(a), buyer |-> b,
                   price |-> price, fee |-> fee]
<1>1. /\ ledger' = Append(ledger, row)
      /\ row.asset = a /\ row.seller = WholeExchange!Holder(a) /\ row.buyer = b
  BY DEF WholeExchange!Record
<1> HIDE DEF row
<1>2. PICK rows \in Seq(Transfers) : rows = ledger
  BY DEF TypeOK
<1>3. /\ Len(rows) + 1 \in 1..Len(Append(rows, row))
      /\ Append(rows, row)[Len(rows) + 1] = row
  BY <1>2, AppendProperties, LenProperties
<1>4. PICK after \in Seq(Transfers) : after = Append(rows, row)
  BY <1>1, <1>2 DEF TypeOK
<1>5. row \in Transfers
  BY <1>3, <1>4, LenProperties
<1>6. WholeExchange!Holder(a) = Exchange!Holder(a)
  BY DEF WholeExchange!Holder, Exchange!Holder
<1> QED
  BY <1>1, <1>5, <1>6, ChainGrows

LEMMA ExchangeKeepsChain ==
    ASSUME TypeOK, TypeOK', TitleChain, [WholeExchange!Next]_(WholeExchange!vars)
    PROVE  TitleChain'
<1>1. CASE UNCHANGED WholeExchange!vars
  BY <1>1, ChainStays DEF WholeExchange!vars
<1>2. ASSUME NEW a \in Assets, NEW b \in Users, NEW price, WholeExchange!Sell(a, b, price)
      PROVE  TitleChain'
  BY <1>2, RecordContinuesChain DEF WholeExchange!Sell
<1>3. ASSUME NEW a \in Assets, NEW b \in Users, NEW price, WholeExchange!Release(a, b, price)
      PROVE  TitleChain'
  BY <1>3, RecordContinuesChain DEF WholeExchange!Release
<1>4. ASSUME NEW a \in Assets, NEW b \in Users, WholeExchange!Give(a, b)
      PROVE  TitleChain'
  BY <1>4, RecordContinuesChain DEF WholeExchange!Give
<1> QED
  BY <1>1, <1>2, <1>3, <1>4 DEF WholeExchange!Next, WholeExchange!Trade

\* The provenance of a property stays one chain from its first owner to its
\* present one through purchases, outside payments and gifts as well as sales.
THEOREM ProvenanceThroughVending == VendingSpec => []TitleChain
<1>1. VendingInit => TitleChain
  BY InitChain DEF VendingInit
<1>2. VendingInv /\ VendingInv' /\ TitleChain /\ [VendingNext]_allVars => TitleChain'
  BY VendingIsExchange, ExchangeKeepsChain DEF VendingInv, MarketSide, BooksOK
<1> QED
  BY <1>1, <1>2, VendingInvariant, PTL DEF VendingSpec

-----------------------------------------------------------------------------
(* Credits in market, vending and gifts.                                   *)

\* The total worth of the accounts, budgets and bids included
HeldCreditsConserved ==
    SumFunction([u \in Users |-> WealthHeld(u)]) = SumFunction(InitialCredits)

LEMMA PricesAreNat == \A price \in SalePrices \cup {ListPrice(b) : b \in Budgets} : price \in Nat
<1>1. \A a \in Assets, lane \in Lanes : LanePrice(a, lane) \in Nat
  BY AmountsAssumption DEF LanePrice, MinTransfer
<1>2. \A b \in Budgets : ListPrice(b) \in Nat
  BY ListPriceIsNat, VendingAssumption
<1>3. \A price \in SalePrices : price \in Nat
  BY <1>1, AmountsAssumption DEF SalePrices
<1> QED
  BY <1>2, <1>3

LEMMA WealthHeldIsNat == ASSUME VendingInv, NEW u \in Users PROVE WealthHeld(u) \in Nat
<1>1. /\ TypeOK /\ budget \in [Users -> [Assets -> Nat]] /\ DOMAIN budget[u] = Assets
  BY DEF VendingInv, MarketSide, BooksOK, ItemsTyped
<1>2. WealthHeld(u) = Wealth(u) + BudgetOf(budget, u)
  BY <1>1, SumFunctionIs DEF WealthHeld, BudgetOf
<1> QED
  BY <1>1, <1>2, WealthIsNat, BudgetOfIsNat

\* PaymentsConserve, for the exchange that vending takes part in
LEMMA SalesConserve ==
    ASSUME NEW W, NEW V, NEW seller \in Users, NEW buyer \in Users,
           NEW price \in Nat, NEW fee \in Nat,
           \A u \in Users : /\ W[u] \in Int
                            /\ V[u] = W[u] + WholeExchange!Gain(u, seller, buyer, price, fee)
    PROVE  SumFunctionOnSet(V, Users) = SumFunctionOnSet(W, Users)
<1>1. \A u : WholeExchange!Gain(u, seller, buyer, price, fee) =
                Exchange!Gain(u, seller, buyer, price, fee)
  BY DEF WholeExchange!Gain, Exchange!Gain
<1>2. \A u \in Users : /\ W[u] \in Int
                       /\ V[u] = W[u] + Exchange!Gain(u, seller, buyer, price, fee)
  BY <1>1
<1> QED
  BY <1>2, PaymentsConserve

LEMMA ExchangeConserves ==
    ASSUME VendingInv, HeldCreditsConserved, [WholeExchange!Next]_(WholeExchange!vars)
    PROVE  HeldCreditsConserved'
<1> DEFINE W == [u \in Users |-> WealthHeld(u)]
<1>1. \A u \in Users : W[u] \in Int
  BY WealthHeldIsNat
<1>2. DOMAIN W = Users /\ DOMAIN W' = Users
  OBVIOUS
<1>3. HeldCreditsConserved <=> SumFunction(W) = SumFunction(InitialCredits)
  BY DEF HeldCreditsConserved
<1>4. HeldCreditsConserved' <=> SumFunction(W') = SumFunction(InitialCredits)
  BY DEF HeldCreditsConserved
<1>5. ASSUME NEW a \in Assets, NEW b \in Users,
             NEW price \in SalePrices \cup {ListPrice(c) : c \in Budgets},
             WholeExchange!Sell(a, b, price)
      PROVE  SumFunctionOnSet(W', Users) = SumFunctionOnSet(W, Users)
  <2>1. PICK seller \in Users : seller = WholeExchange!Holder(a)
    BY UsersAssumption DEF VendingInv, MarketSide, BooksOK, TypeOK, WholeExchange!Holder
  <2>2. PICK p \in Nat : p = price
    BY PricesAreNat
  <2>3. PICK fee \in Nat : fee = WholeExchange!FeeOn(seller, price)
    BY <2>2 DEF WholeExchange!FeeOn
  <2>4. W' = [u \in Users |-> W[u] + WholeExchange!Gain(u, seller, b, price, fee)]
    BY <1>5, <2>1, <2>3 DEF WholeExchange!Sell
  <2> HIDE DEF W
  <2>5. PICK V, X : V = W /\ X = W'
    OBVIOUS
  <2>6. \A u \in Users : /\ V[u] \in Int
                         /\ X[u] = V[u] + WholeExchange!Gain(u, seller, b, p, fee)
    BY <1>1, <2>2, <2>4, <2>5
  <2>7. SumFunctionOnSet(X, Users) = SumFunctionOnSet(V, Users)
    BY <2>6, SalesConserve
  <2> QED
    BY <2>5, <2>7
<1>6. ASSUME NEW a, NEW b, NEW price,
             WholeExchange!Release(a, b, price) \/ WholeExchange!Give(a, b)
      PROVE  W' = W
  BY <1>6 DEF WholeExchange!Release, WholeExchange!Give
<1>7. CASE UNCHANGED WholeExchange!vars
  <2>1. W' = W
    BY <1>7 DEF WholeExchange!vars
  <2> HIDE DEF W
  <2> QED
    BY <1>3, <1>4, <2>1
<1> HIDE DEF W
<1>8. SumFunction(W) = SumFunctionOnSet(W, Users)
  BY <1>2, SumFunctionIs
<1>9. SumFunction(W') = SumFunctionOnSet(W', Users)
  BY <1>2, SumFunctionIs
<1>10. ASSUME WholeExchange!Next PROVE SumFunction(W') = SumFunction(W)
  BY <1>5, <1>6, <1>8, <1>9, <1>10 DEF WholeExchange!Next, WholeExchange!Trade
<1> QED
  BY <1>3, <1>4, <1>7, <1>10

\* No reservation, purchase, gift, lapse or sweep makes or loses credits, and
\* what is paid outside brings none.
THEOREM VendingMakesNoCredits == VendingSpec => []HeldCreditsConserved
<1>1. VendingInit => HeldCreditsConserved
  <2> SUFFICES ASSUME VendingInit PROVE HeldCreditsConserved
    OBVIOUS
  <2>1. [u \in Users |-> WealthHeld(u)] = InitialCredits
    BY InitWholeExchange DEF WholeExchange!Init
  <2> QED
    BY <2>1 DEF HeldCreditsConserved
<1>2. VendingInv /\ VendingInv' /\ HeldCreditsConserved /\ [VendingNext]_allVars
         => HeldCreditsConserved'
  BY VendingIsExchange, ExchangeConserves
<1> QED
  BY <1>1, <1>2, VendingInvariant, PTL DEF VendingSpec

-----------------------------------------------------------------------------
(* Escrow beside vending.                                                   *)

\* A step of vending touches neither bids nor holds of the market.
LEMMA VendingLeavesBids == ASSUME VendingStep PROVE UNCHANGED <<bid, hold>>
<1>1. \A u, a, b, payment, gift :
         ReserveChecks(u, a, b, payment, gift) => UNCHANGED <<bid, hold>>
  BY DEF ReserveChecks, vars, wallets
<1>2. \A u : ReserveCommits(u) \/ ReserveFails(u) => UNCHANGED <<bid, hold>>
  BY DEF ReserveCommits, ReserveFails, vars
<1>3. \A u, a : ReservationLapses(u, a) \/ CancelReservation(u, a)
                   \/ PurchaseLapsed(u, a) => UNCHANGED <<bid, hold>>
  BY DEF ReservationLapses, CancelReservation, PurchaseLapsed, ReleaseHold, vars
<1>4. \A u, a : PurchaseInCredits(u, a) => UNCHANGED <<bid, hold>>
  BY DEF PurchaseInCredits
<1>5. \A u, a : OpenPayment(u, a) \/ PaymentSettles(u, a) => UNCHANGED <<bid, hold>>
  BY DEF OpenPayment, PaymentSettles, vars
<1>6. \A u, a : FulfillExternal(u, a) \/ ClaimGift(u, a) => UNCHANGED <<bid, hold>>
  BY DEF FulfillExternal, ClaimGift, wallets
<1>7. ExpireReservations => UNCHANGED <<bid, hold>>
  BY DEF ExpireReservations
<1> QED
  BY <1>1, <1>2, <1>3, <1>4, <1>5, <1>6, <1>7 DEF VendingStep

\* Reservations, lapses and purchases do not keep the credits of a bidder, nor
\* lower the leading offer, beside which they go on.
THEOREM EscrowBesideVending ==
    VendingSpec => /\ [](FundedLeader /\ HoldsOnlyWhileOpen)
                   /\ HeldCreditsComeBack
                   /\ LeadingOfferRises
<1>1. VendingInv => BooksOK /\ FundedLeader /\ HoldsOnlyWhileOpen
  BY DEF VendingInv, MarketSide, BooksOK
<1>2. VendingInv /\ [VendingNext]_allVars =>
        [\A l \in ListingIds, u \in Users : hold[l][u] # 0 /\ hold'[l][u] = 0 =>
            \/ credits'[u] = credits[u] + hold[l][u]
            \/ owner'[listings[l].asset] = root[u]]_vars
  <2> SUFFICES ASSUME VendingInv, [VendingNext]_allVars,
                      NEW l \in ListingIds, NEW u \in Users,
                      hold[l][u] # 0, hold'[l][u] = 0
               PROVE  \/ credits'[u] = credits[u] + hold[l][u]
                      \/ owner'[listings[l].asset] = root[u]
    OBVIOUS
  <2>1. CASE [Next]_vars
    BY <1>1, <2>1, HoldsComeBack
  <2>2. CASE VendingStep
    BY <2>2, VendingLeavesBids
  <2> QED
    BY <2>1, <2>2 DEF VendingNext, allVars
<1>3. VendingInv /\ [VendingNext]_allVars =>
        [\A l \in ListingIds, u \in Users : Active(l) /\ Active(l)' =>
            \E v \in Users : bid'[l][v] >= bid[l][u]]_vars
  <2> SUFFICES ASSUME VendingInv, [VendingNext]_allVars,
                      NEW l \in ListingIds, NEW u \in Users, Active(l), Active(l)'
               PROVE  \E v \in Users : bid'[l][v] >= bid[l][u]
    OBVIOUS
  <2>1. CASE [Next]_vars
    BY <1>1, <2>1, OfferRises
  <2>2. CASE VendingStep
    <3>1. bid' = bid
      BY <2>2, VendingLeavesBids
    <3>2. bid[l][u] \in Nat
      BY <1>1 DEF BooksOK, TypeOK
    <3> QED
      BY <3>1, <3>2
  <2> QED
    BY <2>1, <2>2 DEF VendingNext, allVars
<1> QED
  BY <1>1, <1>2, <1>3, VendingInvariant, PTL
     DEF VendingSpec, HeldCreditsComeBack, LeadingOfferRises

-----------------------------------------------------------------------------
(* The scheduler.                                                           *)

\* A close by the scheduler is the market's, and a refill moves no credits that
\* a reservation in progress counts on.
LEMMA SchedulerSteps == TasksNext => [VendingNext]_allVars
<1> SUFFICES ASSUME TasksNext PROVE [VendingNext]_allVars
  OBVIOUS
<1>1. CASE ClosesNext
  <2>1. CloseBlind(Head(queue)) /\ WalletsLocked /\ UNCHANGED vendingVars
    BY <1>1 DEF ClosesNext
  <2>2. Head(queue) \in DOMAIN listings
    BY <2>1 DEF CloseBlind, CloseUnsold, CloseSold, Closable, Active
  <2> QED
    BY <2>1, <2>2 DEF Next, VendingNext
<1>2. CASE RunReplenishes
  <2>1. AnyReplenish /\ UNCHANGED vendingVars
    BY <1>2 DEF RunReplenishes
  <2>2. credits' = credits
    BY <2>1 DEF AnyReplenish, Replenish, wallets
  <2> QED
    BY <2>1, <2>2 DEF Next, VendingNext, WalletsLocked
<1>3. CASE RunStarts \/ CloseRaises \/ RunEnds \/ RunCrashes
  BY <1>3 DEF RunStarts, CloseRaises, RunEnds, RunCrashes
<1>4. CASE /\ \/ CustomerStep \/ AnyReplenish
              \/ \E l \in DOMAIN listings : EndsAtPasses(l)
           /\ WalletsLocked
           /\ UNCHANGED <<vendingVars, runVars>>
  BY <1>4 DEF Next, VendingNext
<1>5. CASE VendingStep
  BY <1>5 DEF VendingNext
<1> QED
  BY <1>1, <1>2, <1>3, <1>4, <1>5 DEF TasksNext, Run

\* Whatever runs are started, raise or are killed half way, the scheduler does
\* nothing to market and vending that they could not do without it: what holds
\* of VendingSpec holds under the scheduler.
THEOREM SchedulerIsVending == TasksSpec => VendingSpec
<1>1. TasksInit => VendingInit
  BY DEF TasksInit
<1>2. [TasksNext]_tasksVars => [VendingNext]_allVars
  BY SchedulerSteps DEF tasksVars
<1> QED
  BY <1>1, <1>2, PTL DEF TasksSpec, VendingSpec

\* Wherever the scheduler is killed, no hold is taken from a bidder or left on
\* a listing that is closed, and titles are exchanged as they should.
THEOREM SchedulerIsSafe ==
    TasksSpec => /\ [](FundedLeader /\ HoldsOnlyWhileOpen /\ VendedOnce)
                 /\ HeldCreditsComeBack
                 /\ TitleIsExchanged
BY SchedulerIsVending, EscrowBesideVending, NoHandleVendedTwice,
   VendingKeepsExchange, PTL

=============================================================================
