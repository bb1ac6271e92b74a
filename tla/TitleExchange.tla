---------------------------- MODULE TitleExchange ----------------------------
(***************************************************************************)
(* What the Founder property system promises, with nothing of how it does  *)
(* it: who owns each property, what each account is worth, and the record  *)
(* of every conveyance.  Listings, bids, carts, holds and reservations do  *)
(* not exist here: a listing or a bid changes nothing, and the step that   *)
(* settles a sale moves title, money and record at once.                   *)
(*                                                                         *)
(* The worth of an account counts the credits it has set aside for a bid   *)
(* or a reservation: FounderCreditHold says held credits are "either       *)
(* released back or consumed at settlement".                               *)
(***************************************************************************)
EXTENDS Integers, Sequences

CONSTANTS
    Users,         \* accounts
    Plat,          \* the FANZ platform account, which holds the Treasury
    NoUser,        \* the owner of a property nobody owns
    Assets,        \* Founder properties
    FirstOwner,    \* owner of each property before the first conveyance
    FirstWealth,   \* worth of each account before the first conveyance
    Prices         \* amounts a sale may be settled at

VARIABLES
    owner,   \* the root that holds the title of each property, or NoUser
    wealth,  \* what each account is worth
    ledger   \* conveyances, in order

vars == <<owner, wealth, ledger>>

Conveyance == [asset : Assets, seller : Users, buyer : Users,
               price : Nat, fee : Nat]

\* A property nobody owns is released by the platform.
Holder(a) == IF owner[a] = NoUser THEN Plat ELSE owner[a]

\* FANZ takes 15% of a sale between others, in whole credits, rounded down.
FeeOn(seller, price) == IF seller = Plat THEN 0 ELSE (15 * price) \div 100

\* What a sale is worth to u
Gain(u, seller, buyer, price, fee) ==
    (IF u = seller THEN price - fee ELSE 0)
    + (IF u = Plat THEN fee ELSE 0)
    - (IF u = buyer THEN price ELSE 0)

Record(a, buyer, price, fee) ==
    ledger' = Append(ledger, [asset |-> a, seller |-> Holder(a),
                              buyer |-> buyer, price |-> price, fee |-> fee])

Init ==
    /\ owner = FirstOwner
    /\ wealth = FirstWealth
    /\ ledger = <<>>

\* A sale in credits
Sell(a, b, price) ==
    LET fee == FeeOn(Holder(a), price)
    IN /\ price >= 200
       /\ b # Holder(a)
       /\ wealth[b] >= price
       /\ owner' = [owner EXCEPT ![a] = b]
       /\ wealth' = [u \in Users |-> wealth[u] + Gain(u, Holder(a), b, price, fee)]
       /\ Record(a, b, price, fee)

\* A Treasury property released against a payment made outside FANZ
Release(a, b, price) ==
    /\ price >= 200
    /\ Holder(a) = Plat
    /\ b # Plat
    /\ owner' = [owner EXCEPT ![a] = b]
    /\ Record(a, b, price, 0)
    /\ UNCHANGED wealth

\* A gift from its owner
Give(a, b) ==
    /\ owner[a] \notin {NoUser, b}
    /\ owner' = [owner EXCEPT ![a] = b]
    /\ Record(a, b, 0, 0)
    /\ UNCHANGED wealth

Trade == \E a \in Assets, b \in Users, price \in Prices : Sell(a, b, price)

Next ==
    \/ Trade
    \/ \E a \in Assets, b \in Users, price \in Prices : Release(a, b, price)
    \/ \E a \in Assets, b \in Users : Give(a, b)

\* Sales in credits only: what a market without gifts and outside payments does
TradeSpec == Init /\ [][Trade]_vars

Spec == Init /\ [][Next]_vars

-----------------------------------------------------------------------------
\* The conveyances of a, by their place in the ledger
Of(a) == {i \in DOMAIN ledger : ledger[i].asset = a}

\* The provenance of a property is unbroken (FounderOwnershipLedger: "append-
\* only authoritative ownership provenance"): its first conveyance is by the
\* first owner, each next one by the buyer of the one before, and the buyer of
\* the last one holds the title.
TitleChain ==
    \A a \in Assets :
        /\ Of(a) = {} => owner[a] = FirstOwner[a]
        /\ \A i \in Of(a) : (\A j \in Of(a) : i <= j) =>
              ledger[i].seller = (IF FirstOwner[a] = NoUser THEN Plat ELSE FirstOwner[a])
        /\ \A i, j \in Of(a) : i < j /\ (\A k \in Of(a) : k <= i \/ j <= k) =>
              ledger[i].buyer = ledger[j].seller
        /\ \A i \in Of(a) : (\A j \in Of(a) : j <= i) => owner[a] = ledger[i].buyer

==============================================================================
