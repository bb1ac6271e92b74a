---------------------------- MODULE FounderMarket ----------------------------
(***************************************************************************)
(* The Founder property market of web/auctions: what founder_services.py   *)
(* and founder_tienda.py let their callers do.                             *)
(*                                                                         *)
(* Every service function is one database transaction that locks the rows  *)
(* it decides on (SELECT ... FOR UPDATE on the listing or the asset, then  *)
(* on bids, holds and wallets), so an operation is one action.  Several    *)
(* operations run concurrently as interleaved actions.                     *)
(*                                                                         *)
(* Data kept abstract: a user, an asset and an amount are values; a        *)
(* FounderBid row that is no longer ACTIVE and a FounderCreditHold row     *)
(* that is no longer HELD are never read again, so only the live row of a  *)
(* (listing, bidder root) pair is kept, as its amount, 0 when there is     *)
(* none (every amount is at least 200).  Time is what the guards ask of    *)
(* it: whether the ends_at of a blind listing has passed.                  *)
(***************************************************************************)
EXTENDS Integers, Sequences, FiniteSetsExt

CONSTANTS
    Users,          \* accounts, the FANZ system account among them
    Plat,           \* the account @platform that owns the system wallet
    NoUser,         \* the NULL owner of a property nobody owns
    Assets,         \* Founder properties (scarce handles)
    InitialOwner,   \* owner_root of each property at the start
    InitialCredits, \* credits of each BidWallet at the start
    Floor,          \* floor_price_credits of each property
    Offers,         \* amounts callers offer: prices, minimum bids and bids
    ControlPairs,   \* (controller, controlled) pairs that may be assigned
    FixedTarget, BlindTarget, SwampTarget,  \* Tienda lane targets (10/10/10)
    MaxListings     \* bound on the listings created in a behaviour

ASSUME UsersAssumption == IsFiniteSet(Users) /\ Plat \in Users /\ NoUser \notin Users
ASSUME OwnersAssumption == InitialOwner \in [Assets -> Users \cup {NoUser}]
ASSUME AmountsAssumption ==
    /\ InitialCredits \in [Users -> Nat]
    /\ Floor \in [Assets -> Nat]
    /\ \A a \in Assets : Floor[a] >= 200
    /\ Offers \subseteq Nat
ASSUME BoundsAssumption ==
    /\ ControlPairs \subseteq (Users \X Users)
    /\ FixedTarget \in Nat /\ BlindTarget \in Nat /\ SwampTarget \in Nat
    /\ MaxListings \in Nat

VARIABLES
    credits,   \* BidWallet.credits of each user: the spendable balance
    root,      \* get_authoritative_root of each user
    owner,     \* FounderAccount.owner_root
    status,    \* FounderAccount.status
    listings,  \* FounderListing rows, in order of creation
    bid,       \* bid[l][u]: the ACTIVE FounderBid of root u on listing l, or 0
    hold,      \* hold[l][u]: the HELD FounderCreditHold of that bid, or 0
    ledger     \* FounderOwnershipLedger rows, in sequence order

vars == <<credits, root, owner, status, listings, bid, hold, ledger>>
wallets == <<credits, bid, hold>>
titles == <<owner, status, listings, ledger>>

Lanes == {"none", "fixed", "blind", "swamp"}  \* "none": a P2P listing
Sales == {"fixed", "blind"}
ListingIds == 1..MaxListings

\* FOUNDER_MIN_TRANSFER_CREDITS, and int(price * FOUNDER_PLATFORM_FEE_RATE)
MinTransfer == 200
Fee(price) == (15 * price) \div 100

\* A FounderListing: price is fixed_price_credits of a fixed sale and
\* minimum_bid_credits of a blind one, ended says that ends_at has passed.
Listing == [asset : Assets, seller : Users, lane : Lanes, sale : Sales,
            price : Nat, ended : BOOLEAN,
            status : {"active", "sold", "expired", "cancelled"}]

Transfers == [asset : Assets, seller : Users, buyer : Users,
              price : Nat, fee : Nat]

TypeOK ==
    /\ credits \in [Users -> Nat]
    /\ root \in [Users -> Users]
    /\ owner \in [Assets -> Users \cup {NoUser}]
    /\ status \in [Assets -> {"available", "owned", "listed", "reserved",
                              "treasury"}]
    /\ listings \in Seq(Listing)
    /\ Len(listings) <= MaxListings
    /\ bid \in [ListingIds -> [Users -> Nat]]
    /\ hold \in [ListingIds -> [Users -> Nat]]
    /\ ledger \in Seq(Transfers)

Init ==
    /\ credits = InitialCredits
    /\ root = [u \in Users |-> u]
    /\ owner = InitialOwner
    /\ status = [a \in Assets |-> CASE InitialOwner[a] = NoUser -> "available"
                                    [] InitialOwner[a] = Plat -> "treasury"
                                    [] OTHER -> "owned"]
    /\ listings = <<>>
    /\ bid = [l \in ListingIds |-> [u \in Users |-> 0]]
    /\ hold = [l \in ListingIds |-> [u \in Users |-> 0]]
    /\ ledger = <<>>

-----------------------------------------------------------------------------
(* Faulty variants of the operators below, each a slip the code could make *)
(* at that place: the properties at the end of the module tell them from   *)
(* the code.                                                               *)

CanPayUnchecked(u, amount) == TRUE
NoBidsUnchecked(l) == TRUE
NobodyOutbid(l, r, amount) == {}
LeadsOthersOnly(l, r, amount) == \A u \in Users \ {r} : bid[l][u] < amount
HasNoActiveListing(a) == FALSE
PaidGross(c, seller, price, fee) ==
    [[c EXCEPT ![seller] = @ + price] EXCEPT ![Plat] = @ + fee]
CloseAsSold(l, s) == listings' = [listings EXCEPT ![l].status = "sold"]
ChargedInFull(l, r, amount) == amount
NothingBack(l, r, amount, u) == 0
TitleKept(a, buyer) == UNCHANGED owner

-----------------------------------------------------------------------------
(* Shared pieces of the operations.                                        *)

Active(l) == l \in DOMAIN listings /\ listings[l].status = "active"

HasActiveListing(a) == \E l \in DOMAIN listings :
                          Active(l) /\ listings[l].asset = a

NoBids(l) == \A u \in Users : bid[l][u] = 0

Close(l, s) == listings' = [listings EXCEPT ![l].status = s]

NewListing(a, s, lane, sale, price) ==
    [asset |-> a, seller |-> s, lane |-> lane, sale |-> sale, price |-> price,
     ended |-> FALSE, status |-> "active"]

CanPay(u, amount) == credits[u] >= amount

\* Credits c once the seller has its proceeds and the platform its fee
Paid(c, seller, price, fee) ==
    [[c EXCEPT ![seller] = @ + (price - fee)] EXCEPT ![Plat] = @ + fee]

MoveTitle(a, buyer) == owner' = [owner EXCEPT ![a] = buyer]

\* append_founder_ownership_ledger, and the title it records
Convey(a, seller, buyer, price, fee) ==
    /\ price >= MinTransfer
    /\ ledger' = Append(ledger, [asset |-> a, seller |-> seller,
                                 buyer |-> buyer, price |-> price, fee |-> fee])
    /\ MoveTitle(a, buyer)
    /\ status' = [status EXCEPT ![a] = "owned"]

\* transfer_founder_ownership: the settlement of a sale between two roots
TransferOwnership(a, b, price) ==
    LET seller == root[owner[a]]
        buyer == root[b]
    IN /\ price >= MinTransfer
       /\ owner[a] # NoUser
       /\ seller # buyer
       /\ buyer # Plat
       /\ seller # Plat
       /\ CanPay(buyer, price)
       /\ credits' = Paid([credits EXCEPT ![buyer] = @ - price], seller,
                          price, Fee(price))
       /\ Convey(a, seller, buyer, price, Fee(price))

-----------------------------------------------------------------------------
(* The P2P side: create_founder_listing, cancel_founder_listing and        *)
(* purchase_p2p_fixed_listing.                                             *)

CreateListing(a, u, sale, price) ==
    /\ Len(listings) < MaxListings
    /\ owner[a] # NoUser
    /\ owner[a] = root[u]
    /\ status[a] \in {"owned", "listed"}
    /\ ~ HasActiveListing(a)
    /\ price >= MinTransfer
    /\ listings' = Append(listings, NewListing(a, root[u], "none", sale, price))
    /\ status' = [status EXCEPT ![a] = "listed"]
    /\ UNCHANGED <<wallets, root, owner, ledger>>

CancelListing(l, u) ==
    LET a == listings[l].asset
        seller == root[listings[l].seller]
    IN /\ Active(l)
       /\ listings[l].lane = "none"
       /\ root[u] = seller
       /\ owner[a] = seller
       /\ listings[l].sale = "blind" => NoBids(l)
       /\ Close(l, "cancelled")
       /\ status' = [status EXCEPT ![a] = "owned"]
       /\ UNCHANGED <<wallets, root, owner, ledger>>

PurchaseP2PFixed(l, u) ==
    LET a == listings[l].asset
        seller == root[listings[l].seller]
    IN /\ Active(l)
       /\ listings[l].lane = "none"
       /\ listings[l].sale = "fixed"
       /\ owner[a] = seller
       /\ status[a] = "listed"
       /\ root[u] # seller
       /\ TransferOwnership(a, root[u], listings[l].price)
       /\ Close(l, "sold")
       /\ UNCHANGED <<root, bid, hold>>

-----------------------------------------------------------------------------
(* The Tienda side: purchase_tienda_fixed_listing and                      *)
(* replenish_founder_tienda.                                               *)

PurchaseTiendaFixed(l, u) ==
    LET a == listings[l].asset
        price == listings[l].price
        buyer == root[u]
    IN /\ Active(l)
       /\ listings[l].lane # "none"
       /\ listings[l].sale = "fixed"
       /\ listings[l].seller = Plat
       /\ owner[a] = Plat
       /\ status[a] = "listed"
       /\ buyer # Plat
       /\ CanPay(buyer, price)
       /\ credits' = Paid([credits EXCEPT ![buyer] = @ - price], Plat, price, 0)
       /\ Convey(a, Plat, buyer, price, 0)
       /\ Close(l, "sold")
       /\ UNCHANGED <<root, bid, hold>>

ActiveInLane(lane) == {l \in DOMAIN listings : Active(l) /\ listings[l].lane = lane}

Eligible(a) == status[a] \in {"available", "treasury"} /\ ~ HasActiveListing(a)

Missing(lane, target) ==
    LET n == Cardinality(ActiveInLane(lane)) IN IF n < target THEN target - n ELSE 0

LanePrice(a, lane) == CASE lane = "fixed" -> IF Floor[a] > 1000 THEN Floor[a] ELSE 1000
                        [] lane = "blind" -> IF Floor[a] > 500 THEN Floor[a] ELSE 500
                        [] OTHER -> MinTransfer

TiendaListing(a, lane) ==
    NewListing(a, owner[a], lane, IF lane = "blind" THEN "blind" ELSE "fixed",
               LanePrice(a, lane))

\* A run of the command fills every lane or nothing.  fx, bl and sw are the
\* properties it takes for the three lanes, in order: which eligible ones
\* these are depends on its curated handle lists.  A property without an
\* owner violates the NOT NULL seller_root, and the run is rolled back.
Replenish(fx, bl, sw) ==
    LET picked == fx \o bl \o sw
        lane(i) == CASE i <= Len(fx) -> "fixed"
                     [] i > Len(fx) + Len(bl) -> "swamp"
                     [] OTHER -> "blind"
    IN /\ Len(listings) + Len(picked) <= MaxListings
       /\ Len(fx) = Missing("fixed", FixedTarget)
       /\ Len(bl) = Missing("blind", BlindTarget)
       /\ Len(sw) = Missing("swamp", SwampTarget)
       /\ picked # <<>>
       /\ \A i, j \in DOMAIN picked : picked[i] = picked[j] => i = j
       /\ \A i \in DOMAIN picked : Eligible(picked[i]) /\ owner[picked[i]] # NoUser
       /\ listings' = listings \o [i \in DOMAIN picked |->
                                      TiendaListing(picked[i], lane(i))]
       /\ status' = [a \in Assets |-> IF \E i \in DOMAIN picked : picked[i] = a
                                        THEN "listed" ELSE status[a]]
       /\ UNCHANGED <<wallets, root, owner, ledger>>

-----------------------------------------------------------------------------
(* Blind sales: place_founder_blind_bid with _release_outbid_founder_bids, *)
(* and close_founder_blind_listing.                                        *)

\* The offer exceeds every other active bid, and one's own when it raises it.
Leads(l, r, amount) == \A u \in Users : bid[l][u] < amount

\* The other roots whose active bid on l is below amount
Outbid(l, r, amount) == {u \in Users \ {r} : bid[l][u] # 0 /\ bid[l][u] < amount}

\* What an offer adds to the credits r already has held: all of it for a new
\* bid, the difference when r raises
Additional(l, r, amount) == amount - bid[l][r]

\* What u gets back when r offers amount
Released(l, r, amount, u) == IF u \in Outbid(l, r, amount) THEN hold[l][u] ELSE 0

\* f[l], the bids or the holds of l, once r has offered amount
AfterOffer(f, l, r, amount) ==
    [f EXCEPT ![l] = [u \in Users |-> IF u = r THEN amount
                                      ELSE IF u \in Outbid(l, r, amount) THEN 0
                                      ELSE f[l][u]]]

PlaceBlindBid(l, b, amount) ==
    LET r == root[b]
    IN /\ amount >= MinTransfer
       /\ Active(l)
       /\ listings[l].sale = "blind"
       /\ ~ listings[l].ended
       /\ amount >= listings[l].price
       /\ r # listings[l].seller
       /\ Leads(l, r, amount)
       /\ bid[l][r] # 0 => hold[l][r] # 0
       /\ CanPay(r, Additional(l, r, amount))
       /\ \A u \in Outbid(l, r, amount) : hold[l][u] # 0
       /\ credits' = [u \in Users |->
                         IF u = r THEN credits[u] - Additional(l, r, amount)
                         ELSE credits[u] + Released(l, r, amount, u)]
       /\ bid' = AfterOffer(bid, l, r, amount)
       /\ hold' = AfterOffer(hold, l, r, amount)
       /\ UNCHANGED <<root, titles>>

Closable(l) ==
    /\ Active(l)
    /\ listings[l].sale = "blind"
    /\ listings[l].ended
    /\ status[listings[l].asset] = "listed"
    /\ owner[listings[l].asset] = listings[l].seller

CloseUnsold(l) ==
    /\ Closable(l)
    /\ NoBids(l)
    /\ Close(l, "expired")
    /\ status' = [status EXCEPT ![listings[l].asset] =
                     IF listings[l].lane = "none" THEN "owned" ELSE "treasury"]
    /\ UNCHANGED <<wallets, root, owner, ledger>>

\* The highest active bid w wins and its hold is consumed.
CloseSold(l, w) ==
    LET a == listings[l].asset
        price == bid[l][w]
        buyer == root[w]
        seller == root[listings[l].seller]
        fee == IF listings[l].lane = "none" THEN Fee(price) ELSE 0
    IN /\ Closable(l)
       /\ bid[l][w] # 0
       /\ \A u \in Users : bid[l][u] <= bid[l][w]
       /\ hold[l][w] = price
       /\ buyer # seller
       /\ (listings[l].lane = "none") = (seller # Plat)
       /\ credits' = Paid(credits, seller, price, fee)
       /\ hold' = [hold EXCEPT ![l][w] = 0]
       /\ bid' = [bid EXCEPT ![l][w] = 0]
       /\ Convey(a, seller, buyer, price, fee)
       /\ Close(l, "sold")
       /\ UNCHANGED root

CloseBlind(l) == CloseUnsold(l) \/ \E w \in Users : CloseSold(l, w)

-----------------------------------------------------------------------------
(* What changes under the market: ends_at passes, assign_account_control.  *)

EndsAtPasses(l) ==
    /\ Active(l)
    /\ listings[l].sale = "blind"
    /\ ~ listings[l].ended
    /\ listings' = [listings EXCEPT ![l].ended = TRUE]
    /\ UNCHANGED <<wallets, root, owner, status, ledger>>

\* moved: the controlled account d and the accounts below it.  The root map
\* is all the market reads of the AccountControl edges; a subtree below a
\* non-root d is some set of accounts under the same root.
AssignControl(c, d, moved) ==
    /\ d \in moved
    /\ c \notin moved
    /\ IF root[d] = d THEN moved = {u \in Users : root[u] = d}
                      ELSE \A u \in moved : root[u] = root[d] /\ u # root[d]
    /\ root' = [u \in Users |-> IF u \in moved THEN root[c] ELSE root[u]]
    /\ UNCHANGED <<wallets, titles>>

\* What the views call on a user's behalf
CustomerStep ==
    \/ \E a \in Assets, u \in Users, sale \in Sales, price \in Offers :
          CreateListing(a, u, sale, price)
    \/ \E l \in DOMAIN listings, u \in Users :
          CancelListing(l, u) \/ PurchaseP2PFixed(l, u) \/ PurchaseTiendaFixed(l, u)
    \/ \E l \in DOMAIN listings, b \in Users, amount \in Offers :
          PlaceBlindBid(l, b, amount)

AnyReplenish ==
    \E fx \in [1..Missing("fixed", FixedTarget) -> Assets],
       bl \in [1..Missing("blind", BlindTarget) -> Assets],
       sw \in [1..Missing("swamp", SwampTarget) -> Assets] : Replenish(fx, bl, sw)

Next ==
    \/ CustomerStep
    \/ AnyReplenish
    \/ \E l \in DOMAIN listings : CloseBlind(l)
    \/ \E l \in DOMAIN listings : EndsAtPasses(l)
    \/ \E p \in ControlPairs, moved \in SUBSET Users :
          AssignControl(p[1], p[2], moved)

Spec == Init /\ [][Next]_vars

-----------------------------------------------------------------------------
(* Properties.                                                             *)

\* The outcome of a blind sale is decided by "the highest ACTIVE bid" alone
\* (close_founder_blind_listing settles one bid and touches no other), so a
\* listing never has two active bids, and each is backed by a hold of exactly
\* its amount: nobody's credits can be left behind by a close.
FundedLeader ==
    \A l \in ListingIds :
        /\ \A u, v \in Users : bid[l][u] # 0 /\ bid[l][v] # 0 => u = v
        /\ \A u \in Users : hold[l][u] = bid[l][u]

\* Bids and holds live only on blind listings that are still active: no
\* cancellation, sale or expiry of a listing abandons a funded bid.
HoldsOnlyWhileOpen ==
    \A l \in ListingIds, u \in Users :
        hold[l][u] # 0 => Active(l) /\ listings[l].sale = "blind"

\* FounderListing: "A Founder property may have at most one active listing";
\* the market calls a property listed exactly while it has one, and its
\* seller is then its owner, so that every guard of a sale that asks for
\* both finds them in agreement.
ListedMeansForSale ==
    /\ \A l, m \in DOMAIN listings :
          Active(l) /\ Active(m) /\ listings[l].asset = listings[m].asset => l = m
    /\ \A a \in Assets : status[a] = "listed" <=>
          \E l \in DOMAIN listings : Active(l) /\ listings[l].asset = a
    /\ \A l \in DOMAIN listings : Active(l) => owner[listings[l].asset] = listings[l].seller

\* The credits of a user, those a blind bid of theirs holds included
Wealth(u) == credits[u] + SumFunction([l \in ListingIds |-> hold[l][u]])

\* No operation creates or destroys credits: what leaves a wallet is held for
\* a bid or is in another wallet, fee included.
CreditsConserved ==
    SumFunction([u \in Users |-> Wealth(u)]) = SumFunction(InitialCredits)

\* Every amount a property may be sold at
SalePrices == Offers \cup {LanePrice(a, lane) : a \in Assets, lane \in Lanes}

Exchange == INSTANCE TitleExchange
    WITH FirstOwner <- InitialOwner, FirstWealth <- InitialCredits,
         Prices <- SalePrices, wealth <- [u \in Users |-> Wealth(u)]

\* The market implements the exchange: a title moves only against its price,
\* whichever of the four sale paths is taken and whether the buyer pays from
\* the wallet or from a hold.  The one step that moves it makes the buyer
\* poorer by the price, its owner richer by the price less the fee and the
\* platform by the fee, and records just that; no other step makes anybody
\* richer or poorer (a listing, bid, raise, outbid or cancellation only moves
\* credits between a wallet and a hold of the same root).
TitleIsTraded == Exchange!TradeSpec

\* The provenance of a property is unbroken: the ledger's conveyances of it
\* form a chain from its first owner to its present one.
TitleChain == Exchange!TitleChain

\* One ledger record per sale: no listing is settled twice, none is marked
\* sold without its conveyance.
OneConveyancePerSale ==
    Len(ledger) = Cardinality({l \in DOMAIN listings : listings[l].status = "sold"})

\* A bidder's held credits leave the hold in two ways only: they come back to
\* the wallet they were taken from, in full, or that bidder's root gets the
\* property.
HeldCreditsComeBack ==
    [][\A l \in ListingIds, u \in Users : hold[l][u] # 0 /\ hold'[l][u] = 0 =>
          \/ credits'[u] = credits[u] + hold[l][u]
          \/ owner'[listings[l].asset] = root[u]]_vars

\* While a blind listing is open its leading offer never falls: a bidder may
\* change hands with another only upwards.
LeadingOfferRises ==
    [][\A l \in ListingIds, u \in Users : Active(l) /\ Active(l)' =>
          \E v \in Users : bid'[l][v] >= bid[l][u]]_vars

==============================================================================
