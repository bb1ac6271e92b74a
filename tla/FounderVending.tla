---------------------------- MODULE FounderVending ----------------------------
(***************************************************************************)
(* Founder vending beside the Founder market: founder_cart_services.py and *)
(* founder_gift_services.py.  A purchaser reserves a handle against a      *)
(* budget, which is held in credits or will be paid outside FANZ (BTC,     *)
(* DOGE, SUI), and buys it at the list price drawn from the budget, as a   *)
(* gift perhaps, which its recipient claims.                               *)
(*                                                                         *)
(* A cart is never checked out, so a purchaser has one cart and, in it, at *)
(* most one item of a handle: item[u][a].  FounderPriceMemory is left out: *)
(* it is read only when a root asks for a handle again, which that rule    *)
(* refuses.  Every account is its own root here: nothing but tests calls   *)
(* assign_account_control.                                                 *)
(*                                                                         *)
(* Each operation is one transaction and one action, the reservation       *)
(* apart: it looks for other reservations of the handle before it locks    *)
(* the property, and two of them may look before either locks.             *)
(***************************************************************************)
EXTENDS FounderMarket

CONSTANTS
    Budgets      \* budgets purchasers submit

ASSUME VendingAssumption == Budgets \subseteq Nat /\ ControlPairs = {} /\ IsFiniteSet(Assets)

VARIABLES
    item,     \* FounderCartItem of purchaser u and handle a
    budget,   \* the HELD FounderVendingHold of that item, or 0
    request   \* the reservation that u's transaction is making, or NoRequest

vendingVars == <<item, budget, request>>
allVars == <<vars, vendingVars>>

\* The payment of an item: in credits, or by a PaymentIntent
Payments == {"credits", "unopened", "open", "settled", "fulfilled"}

\* gift is the account of the recipient's e-mail, NoUser for a purchase for
\* oneself; lapsed says that reservation_expires_at has passed.
Item == [status : {"none", "quoted", "purchased", "expired", "cancelled"},
         budget : Nat, price : Nat, payment : Payments,
         gift : Users \cup {NoUser}, claim : {"none", "pending", "claimed"},
         lapsed : BOOLEAN]

NoItem == [status |-> "none", budget |-> 0, price |-> 0, payment |-> "credits",
           gift |-> NoUser, claim |-> "none", lapsed |-> FALSE]

NoRequest == [asset |-> NoUser, item |-> NoItem]

VendingTypeOK ==
    /\ TypeOK
    /\ item \in [Users -> [Assets -> Item]]
    /\ budget \in [Users -> [Assets -> Nat]]
    /\ \A u \in Users : \/ request[u] = NoRequest
                        \/ request[u].asset \in Assets /\ request[u].item \in Item

VendingInit ==
    /\ Init
    /\ item = [u \in Users |-> [a \in Assets |-> NoItem]]
    /\ budget = [u \in Users |-> [a \in Assets |-> 0]]
    /\ request = [u \in Users |-> NoRequest]

-----------------------------------------------------------------------------
(* Faulty variants, as in FounderMarket.                                   *)

PurchasableUnchecked(a) == TRUE
BudgetKept(u, a) == UNCHANGED budget
BudgetForfeited(u, a) == credits

-----------------------------------------------------------------------------
(* Reservations.                                                           *)

Quoted(u, a) == item[u][a].status = "quoted"
Live(u, a) == Quoted(u, a) /\ ~ item[u][a].lapsed
InCredits(u, a) == item[u][a].payment = "credits"

\* founder_budget_quote: 93% of the budget, rounded half up, at least 200;
\* a budget below 215 gets no quote.
QuotedBudget(b) == b >= 215
ListPrice(b) == LET price == (93 * b + 50) \div 100
                IN IF price > 200 THEN price ELSE 200

\* Of what somebody owns, only what the platform has on sale in the Tienda
\* may be vended; of what nobody owns, anything that is not owned or listed.
InTienda(a) == /\ owner[a] = Plat
               /\ \E l \in DOMAIN listings : /\ Active(l) /\ listings[l].asset = a
                                             /\ listings[l].lane # "none"
                                             /\ listings[l].seller = Plat

Vendable(a) == InTienda(a) \/ /\ owner[a] = NoUser
                              /\ status[a] \in {"available", "treasury", "reserved"}

NewItem(b, payment, gift) ==
    [NoItem EXCEPT !.status = "quoted", !.budget = b, !.price = ListPrice(b),
                   !.payment = payment, !.gift = gift]

\* The first half of create_founder_vending_reservation: it locks the wallet
\* and the cart and finds no other live reservation of the handle.
ReserveChecks(u, a, b, payment, gift) ==
    /\ request[u] = NoRequest
    /\ QuotedBudget(b)
    /\ payment = "credits" => CanPay(u, b)
    /\ item[u][a] = NoItem
    /\ \A v \in Users \ {u} : ~ Live(v, a)
    /\ request' = [request EXCEPT ![u] = [asset |-> a, item |-> NewItem(b, payment, gift)]]
    /\ UNCHANGED <<vars, item, budget>>

\* The second half: with the property locked, the reservation is made.
ReserveCommits(u) ==
    LET a == request[u].asset
        new == request[u].item
        held == IF new.payment = "credits" THEN new.budget ELSE 0
    IN /\ request[u] # NoRequest
       /\ Vendable(a)
       /\ credits' = [credits EXCEPT ![u] = @ - held]
       /\ item' = [item EXCEPT ![u][a] = new]
       /\ budget' = [budget EXCEPT ![u][a] = held]
       /\ status' = [status EXCEPT ![a] = "reserved"]
       /\ request' = [request EXCEPT ![u] = NoRequest]
       /\ UNCHANGED <<root, owner, listings, bid, hold, ledger>>

ReserveFails(u) ==
    /\ request[u] # NoRequest
    /\ ~ Vendable(request[u].asset)
    /\ request' = [request EXCEPT ![u] = NoRequest]
    /\ UNCHANGED <<vars, item, budget>>

ReservationLapses(u, a) ==
    /\ Live(u, a)
    /\ item' = [item EXCEPT ![u][a].lapsed = TRUE]
    /\ UNCHANGED <<vars, budget, request>>

-----------------------------------------------------------------------------
(* _release_vending_hold and its three callers.  An item without a hold    *)
(* cannot be released: the call raises, and takes its transaction with it. *)

Refunded(u, a) == [credits EXCEPT ![u] = @ + budget[u][a]]

HoldGone(u, a) == budget' = [budget EXCEPT ![u][a] = 0]

\* A property nobody owns is available again.
Freed(assets) ==
    status' = [a \in Assets |-> IF a \in assets /\ status[a] = "reserved" /\ owner[a] = NoUser
                                  THEN "available" ELSE status[a]]

ReleaseHold(u, a, final) ==
    /\ budget[u][a] # 0
    /\ credits' = Refunded(u, a)
    /\ HoldGone(u, a)
    /\ item' = [item EXCEPT ![u][a].status = final]
    /\ Freed({a})
    /\ UNCHANGED <<request, root, owner, listings, bid, hold, ledger>>

CancelReservation(u, a) == Quoted(u, a) /\ ReleaseHold(u, a, "cancelled")

\* An attempt to buy on a lapsed reservation
PurchaseLapsed(u, a) ==
    /\ Quoted(u, a) /\ InCredits(u, a) /\ item[u][a].lapsed
    /\ ReleaseHold(u, a, "expired")

\* expire_founder_vending_reservations: one transaction for all of them
Lapsed == {i \in Users \X Assets : Quoted(i[1], i[2]) /\ item[i[1]][i[2]].lapsed}

ExpireReservations ==
    /\ Lapsed # {}
    /\ \A i \in Lapsed : budget[i[1]][i[2]] # 0
    /\ credits' = [u \in Users |-> credits[u] + SumFunction(
                      [a \in Assets |-> IF <<u, a>> \in Lapsed THEN budget[u][a] ELSE 0])]
    /\ budget' = [u \in Users |-> [a \in Assets |->
                      IF <<u, a>> \in Lapsed THEN 0 ELSE budget[u][a]]]
    /\ item' = [u \in Users |-> [a \in Assets |->
                   IF <<u, a>> \in Lapsed THEN [item[u][a] EXCEPT !.status = "expired"]
                   ELSE item[u][a]]]
    /\ Freed({i[2] : i \in Lapsed})
    /\ UNCHANGED <<request, root, owner, listings, bid, hold, ledger>>

-----------------------------------------------------------------------------
(* Purchases, in credits and paid outside.                                 *)

Purchasable(a) == status[a] = "reserved" /\ owner[a] \in {NoUser, Plat}

Bought(u, a) == [item[u][a] EXCEPT !.status = "purchased",
                                   !.claim = IF item[u][a].gift = NoUser THEN "none"
                                             ELSE "pending"]

\* purchase_founder_vending_reservation: the list price goes to the platform,
\* the rest of the budget back to the wallet.
PurchaseInCredits(u, a) ==
    LET price == item[u][a].price
    IN /\ Live(u, a) /\ InCredits(u, a)
       /\ budget[u][a] # 0
       /\ budget[u][a] >= price
       /\ Purchasable(a)
       /\ u # Plat
       /\ credits' = [credits EXCEPT ![Plat] = @ + price,
                                     ![u] = @ + (budget[u][a] - price)]
       /\ Convey(a, Plat, u, price, 0)
       /\ HoldGone(u, a)
       /\ item' = [item EXCEPT ![u][a] = Bought(u, a)]
       /\ UNCHANGED <<request, root, listings, bid, hold>>

\* create_external_founder_payment_intent
OpenPayment(u, a) ==
    /\ Live(u, a)
    /\ item[u][a].payment = "unopened"
    /\ item' = [item EXCEPT ![u][a].payment = "open"]
    /\ UNCHANGED <<vars, budget, request>>

\* The payment arrives: however late, it is settled.
PaymentSettles(u, a) ==
    /\ item[u][a].payment = "open"
    /\ item' = [item EXCEPT ![u][a].payment = "settled"]
    /\ UNCHANGED <<vars, budget, request>>

\* fulfill_external_founder_vending_purchase
FulfillExternal(u, a) ==
    /\ item[u][a].payment = "settled"
    /\ Quoted(u, a)
    /\ Purchasable(a)
    /\ u # Plat
    /\ Convey(a, Plat, u, item[u][a].price, 0)
    /\ item' = [item EXCEPT ![u][a] = [Bought(u, a) EXCEPT !.payment = "fulfilled"]]
    /\ UNCHANGED <<wallets, root, listings, budget, request>>

\* claim_founder_gift, by the recipient v
Claimable(u, a, v) ==
    /\ item[u][a].claim = "pending"
    /\ status[a] = "owned"
    /\ owner[a] = u
    /\ v # u

ClaimGift(u, a) ==
    LET v == item[u][a].gift
    IN /\ Claimable(u, a, v)
       /\ MoveTitle(a, v)
       /\ ledger' = Append(ledger, [asset |-> a, seller |-> u, buyer |-> v,
                                    price |-> 0, fee |-> 0])
       /\ item' = [item EXCEPT ![u][a].claim = "claimed"]
       /\ UNCHANGED <<wallets, root, status, listings, budget, request>>

-----------------------------------------------------------------------------
\* A reservation in credits keeps its wallet locked until it commits.
WalletsLocked == \A u \in Users : request[u] # NoRequest /\ request[u].item.payment = "credits"
                                    => credits'[u] = credits[u]

Customers == Users \ {Plat}

VendingStep ==
    \/ \E u \in Customers, a \in Assets, b \in Budgets,
          payment \in {"credits", "unopened"}, gift \in Customers \cup {NoUser} :
          ReserveChecks(u, a, b, payment, gift)
    \/ \E u \in Users : ReserveCommits(u) \/ ReserveFails(u)
    \/ \E u \in Users, a \in Assets :
          \/ ReservationLapses(u, a)
          \/ CancelReservation(u, a) /\ WalletsLocked
          \/ PurchaseLapsed(u, a) /\ WalletsLocked
          \/ PurchaseInCredits(u, a) /\ WalletsLocked
          \/ OpenPayment(u, a)
          \/ PaymentSettles(u, a)
          \/ FulfillExternal(u, a)
          \/ ClaimGift(u, a)
    \/ ExpireReservations /\ WalletsLocked

VendingNext ==
    \/ Next /\ WalletsLocked /\ UNCHANGED vendingVars
    \/ VendingStep

VendingSpec == VendingInit /\ [][VendingNext]_allVars

-----------------------------------------------------------------------------
(* Properties.                                                             *)

\* FounderVendingHold holds "the buyer's declared budget, not the List Price",
\* exactly while the reservation it backs is open: no way out of a
\* reservation (purchase, cancellation, lapse, sweep) leaves a hold behind or
\* takes it twice.
BudgetHeldWhileQuoted ==
    \A u \in Users, a \in Assets :
        budget[u][a] = IF Quoted(u, a) /\ InCredits(u, a) THEN item[u][a].budget ELSE 0

\* The credits of a user, those held for bids and reservations included
WealthHeld(u) == Wealth(u) + SumFunction(budget[u])

WholeExchange == INSTANCE TitleExchange
    WITH FirstOwner <- InitialOwner, FirstWealth <- InitialCredits,
         Prices <- SalePrices \cup {ListPrice(b) : b \in Budgets},
         wealth <- [u \in Users |-> WealthHeld(u)]

\* Market, vending and gifts together implement the exchange: a reservation,
\* its cancellation, lapse and sweep make nobody richer or poorer, a purchase
\* costs the list price and nothing more, and a property leaves the platform
\* without credits only against an outside payment or as a gift.
TitleIsExchanged == WholeExchange!Spec

\* Every conveyance in the ledger has its cause, and only one: a listing sold,
\* a reservation purchased or a gift claimed.
ConveyancesAccounted ==
    Len(ledger) = Cardinality({l \in DOMAIN listings : listings[l].status = "sold"})
                  + Cardinality({i \in Users \X Assets : item[i[1]][i[2]].status = "purchased"})
                  + Cardinality({i \in Users \X Assets : item[i[1]][i[2]].claim = "claimed"})

\* Two purchasers may both hold a reservation of a handle, yet one at most
\* ends with it purchased.
VendedOnce ==
    \A a \in Assets, u, v \in Users :
        item[u][a].status = "purchased" /\ item[v][a].status = "purchased" => u = v

\* What a root other than the platform owns leaves it in two ways only: its own
\* listing is sold, or it was bought as a gift and its recipient claims it.
\* A reservation, a late payment or a listing of an earlier owner never takes it.
PrivateTitleIsSafe ==
    [][\A a \in Assets : owner[a] \notin {NoUser, Plat} /\ owner'[a] # owner[a] =>
          \/ \E l \in DOMAIN listings :
                /\ Active(l) /\ listings[l].asset = a /\ listings[l].seller = owner[a]
                /\ listings'[l].status = "sold"
          \/ /\ item[owner[a]][a].claim = "pending"
             /\ owner'[a] = item[owner[a]][a].gift]_allVars

==============================================================================
