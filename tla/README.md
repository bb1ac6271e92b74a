# FANZ Founder properties: a TLA+ verification project

FANZ (`src/web`) is a Django platform with an internal currency (credits, kept
in `BidWallet` rows) and a scarce good: *Founder properties*, the handles of one
to four characters (`FounderAccount`). A property may have a coin on the Sui
chain, which a second program, the Sui service (`src/deploy/sui-service`),
publishes. This directory models the part of the platform in which credits,
titles, payments and coins change hands, checks the models with TLC and proves
theorems about them with TLAPS.

File names below are relative to `src/web/auctions/` unless they begin with
another directory; `server.ts` is `src/deploy/sui-service/src/server.ts`.

## 1. The system

### 1.1 Components, their state and their operations

| component | code | state | operations | correct when |
|---|---|---|---|---|
| Founder market | `founder_services.py` | `FounderListing`, `FounderBid`, `FounderCreditHold`, owner and status of `FounderAccount`, `BidWallet.credits` | create and cancel a listing, buy a fixed listing (P2P, Tienda), place or raise a blind bid, release the outbid, close a blind listing | credits are conserved, a title moves only against its price, no hold is abandoned |
| Account control | `founder_services.py:1425-1538` | `AccountControl` edges | resolve the authoritative root, assign a controller | no cycles; a change of root strands nothing |
| Founder Tienda | `founder_tienda.py`, `management/commands/replenish_founder_tienda.py` | the platform's listings in three lanes (10 fixed, 10 blind, 10 swamp) | replenish the lanes from Treasury inventory | the lanes are full; private property is never taken |
| Ownership ledger | `founder_ledger.py` | `FounderOwnershipLedger`, `FounderLedgerHead` | append one hash-chained record | one record per conveyance, an unbroken chain |
| Founder vending | `founder_cart_services.py`, `founder_vending.py` | `FounderCart(Item)`, `FounderVendingHold`, `FounderPriceMemory` | reserve a handle against a budget, cancel, expire, buy in credits, open an outside payment, fulfil it | a budget is held exactly while its reservation is open; a handle is vended once |
| Gift claims | `founder_gift_services.py` | `FounderGiftClaim` | claim, reissue | a claim never takes a title its purchaser has parted with |
| Scheduler | `management/commands/process_auctions.py`, `run_auction_tasks.sh` | none of its own | end and relist credit auctions, close Tienda blind sales, replenish | what is due gets done, whatever fails |
| Credit auctions | `services.py` | `Auction`, `Bid`, `BidWallet` | bid, close, relist | bids are paid for, prices count bids, a winner has bid |
| Wallet views | `views.py`, `services.py`, `ai_services/ai_wallet.py` | `BidWallet`, `WalletTransaction`, `PostUnlock`, `CreditPurchase` | pay, tip, unlock a post, message a companion, buy now, credit a package, bonuses | balances agree with the transactions, nothing is booked twice |
| Payment intents | `payment_services.py`, `btcpay.py`, `views.btcpay_webhook`, `payment_policy.py` | `PaymentIntent` | open an invoice, follow it by webhook, deliver once | nothing is delivered unpaid, what is paid is delivered |
| External P2P payments | `p2p_payment_services.py` | `PaymentIntent` of a listing | order, quote, refresh the quote, settle, fulfil | a listing is sold once; what is settled and can be served is |
| SUI settlement | `sui_payment_services.py`, `sui_quote_services.py` | the quote in `PaymentIntent` | quote, verify, settle | an order settles with a transaction that meets its quote; a transaction brings credits once |
| Vending catalogue | `vending_services.py`, `vending_fulfillment.py` | products | order, fulfil | one delivery per payment |
| Sui service | `server.ts` | its journal: `creator_publications`, `deliveries`, `mainnet_transfers` | accept, prepare, submit, reconcile, register, recover a publication; prepare a delivery; pay out; prepare and verify an image | what is signed is never signed again, everything is sent once |
| Coin publication and rebrand | `management/commands/process_founder_coin_publication.py`, `process_next_founder_coin_publication.py`, `founder_coin_services.py`, `economy_asset_*_services.py`, `coin_rebrand_services.py` | `EconomyAsset` | draft, take a coin through the journal, record it, verify its supply, change its image | a coin called active is on the chain; drafts get published |
| Publication tools | `src/sui/tools` | the package and the payload of a coin | prepare, force, reuse, accept | a payload fits its asset |
| Economy delivery | `economy_delivery_services.py`, `sui_adapter.py` | `EconomyAssetDelivery` | accept and prepare at the service, or request an execution by an Edge | each delivery is signed once |
| Creator edge | `creator_edge_services.py`, `creator_edge_auth_services.py`, `creator_execution_services.py` | registrations, challenges, execution requests | register, revoke, challenge, authenticate and claim | one claim for a request, by an Edge of its coin; none for a revoked one |
| The rest | businesses, AI, discovery, search, valuation, forms, templates, Move template, browser wallet | | | no credits or titles move |

### 1.2 How they interact

Views and management commands call the service functions. Each service function
of the market, vending and the payments is one database transaction (PostgreSQL
at READ COMMITTED, `@transaction.atomic`, no `ATOMIC_REQUESTS`) that locks the
rows it decides on with `SELECT ... FOR UPDATE`. The older operations on wallets
and auctions lock some of what they read, or nothing. The components share
`FounderAccount` (title and status), `FounderListing` and `BidWallet` rows. The
market, the Tienda and vending each keep a notion of "this property is taken": a
listing is ACTIVE, a property is LISTED, a property is RESERVED. Nothing but the
guards of the operations keeps the three in agreement.

`run_auction_tasks.sh` is the only background process: a loop that runs
`process_auctions` every ten seconds and, every minute, the workers for settled
payments, deliveries and coins. Django and the Sui service are two programs:
Django asks over HTTP, with a timeout, and looks at the service's journal again
in a later run; the service asks the chain. The service is one thread that
interleaves its requests at every `await`.

### 1.3 What is hard

- **Escrow.** A blind bid takes the credits out of the wallet when it is
  placed. They come back only if some later transaction releases that very
  hold: the close settles one bid and looks at no other.
- **Interleaving.** A reservation reads the other carts before it locks the
  property. A webhook reads the invoice before it locks the payment. A bid reads
  the platform's wallet and does not lock it. The service reads a row, awaits the
  chain, and updates the row.
- **Two authorities for one property.** Vending may reserve a property that the
  Tienda lists; a listing may be sold for credits while it is paid for outside.
- **A batch that stops at the first error.** The scheduler closes expired
  listings in a loop without an error handler; the coin worker looks at the
  first draft only.
- **Time.** Listings end, reservations lapse (1 h), quotes lapse, challenges
  lapse; what happens at a lapse is decided by the next call that looks.
- **Identity.** Roots are resolved again at every step.
- **Crashes.** The scheduler works outside transactions; the service signs,
  sends and records in steps that a kill separates.
- **Outside payments.** A payment settles long after the order was made, its
  webhooks come late, twice or in another order. A transaction in SUI does not say
  what it is for: the code takes any that pays FANZ enough.
- **Revocation.** An Edge is revoked while it authenticates and claims.

`PROJECT.json` lists each hazard at its line with the properties that cover it,
or why none does.

## 2. The modules

| module | models | relation |
|---|---|---|
| `TitleExchange` | what the whole promises: titles, what each account is worth, conveyances | abstract specification |
| `FounderMarket` | listings, bids, holds, sales, the Tienda, roots | implements `TitleExchange!TradeSpec` |
| `FounderVending` | reservations, budgets, outside payments, gifts | extends the market, implements `TitleExchange!Spec` |
| `AuctionTasks` | the scheduler over market and vending | extends vending |
| `ExternalPayments` | listings and packages paid for in BTC, DOGE or SUI | extends the market |
| `PaymentIntents` | invoices, webhooks, the payment worker | on its own |
| `CreditAuctions` | credit auctions, the scheduler's part in them | on its own |
| `CreditWallets` | what the other pages do with wallets | on its own |
| `SuiService` | the service's journal, its requests, the chain | used by the next |
| `CreatorCoins` | Django's side of coins and deliveries, the workers, tools and Edges | extends the service |
| `FounderMarketProofs`, `FounderVendingProofs`, `ExternalPaymentsProofs`, `PaymentIntentsProofs`, `CreditAuctionsProofs`, `CreditWalletsProofs`, `CreatorCoinsProofs` | the theorems | extend their modules; `FounderVendingProofs` extends `AuctionTasks` and `FounderMarketProofs` |
| `SumTheorems` | what a sum over a finite set does when a value changes, moves or goes | used by the proofs about the market, vending, payments and auctions |
| `MC...` | instances for TLC | extend their modules |

**FounderMarket.** An action is a service function: `CreateListing`,
`CancelListing`, `PurchaseP2PFixed` (with `TransferOwnership`, the settlement it
calls), `PurchaseTiendaFixed`, `PlaceBlindBid` (with the release of the outbid),
`CloseBlind` (`CloseUnsold` or `CloseSold`), `Replenish`. Guards are the checks
that raise, in terms of the same rows. Of a (listing, root) pair only the live
bid and hold are kept, as amounts: a row that is no longer ACTIVE or HELD is
never read again. Time is one flag of a listing, set by `EndsAtPasses`.
`root` is `get_authoritative_root`; `AssignControl` changes it for an account and
those below it. `ledger` is the sequence of conveyances.

**FounderVending.** `item[u][a]` is the cart item of purchaser and handle (there
is one at most: a cart is never checked out, and `unique_founder_handle_per_cart`),
`budget[u][a]` its HELD `FounderVendingHold`. `ReserveChecks` and `ReserveCommits`
are the two halves of a reservation, apart because the check for other
reservations precedes the lock on the property; `WalletsLocked` keeps the wallet
locked between them. Cancellation, the attempt to buy on a lapsed reservation and
the sweep share `ReleaseHold`; the sweep is one transaction over all lapsed items
and raises if one of them has no hold. `OpenPayment`, `PaymentSettles` and
`FulfillExternal` are the outside payment, `ClaimGift` the recipient's claim.

**AuctionTasks.** A run of `process_auctions` reads the due listings once
(`RunStarts`), closes them newest first, each in its own transaction
(`ClosesNext`), ends at the first close that raises (`CloseRaises`), and refills
the Tienda if it has closed something (`RunReplenishes`). `RunCrashes` kills it
anywhere. Customers and vending go on between its steps.

**ExternalPayments.** An order is a `PaymentIntent` of a user, a rail and a
listing, or a package. Each service is one action, because it keeps the lock of
the intent while it asks the Sui service: `OpenListingOrder`, `FreezeQuote`,
`RefreshQuote`, `SettleListingInSui`, `FulfillListing` and the like. Between two
of them quotes lapse, the price of SUI moves (`Quotes`), SUI is sent to FANZ
(`Pays`), and the market sells or cancels the same listing. `received` is what each
transaction on the chain has paid to FANZ's address, and an order settles with the
digest of any that meets its quote: `verifyMainnetSuiPayment` asks for the recipient
and the least amount, `settlement_reference` is not unique, and the settlement
compares a digest with the same order's only. So orders of several people may cite
one transaction, which none of them need have sent. `FulfillListing` moves the title
without a credit, as `fulfill_p2p_external_founder_purchase` does; `FulfillPackage`
credits a digest once (`AlreadyPurchased`), because it is the purchase's unique
`external_id`, and marks the order fulfilled in any case.

**PaymentIntents.** `InvoiceMoves` is BTCPay (external), `HookReads` and
`HookApplies` the two halves of the webhook with the HTTP call between them,
`Fulfill` and `FulfillLater` the worker.

**CreditAuctions.** A bid is cut at its locks: `BidLocks` takes the rows of the
auction and of the bidder's wallet and reads the platform's wallet without a
lock; `BidCommits` writes. The scheduler's loops over auctions run outside any
transaction, so each read and each write of theirs is an action (`RunStarts`,
`EndReads`, `EndSaves`, `Tells`, `RelistDeletes`, `RelistSaves`), which a page
(`CloseByPage`), a bid or a kill (`RunCrashes`) may follow. A price counts the
increments above the starting price.

**CreditWallets.** An operation is a record of its kind, payer, receiver and
item, with the balances it has read. `Begins` reads what the operation never
locks, `Locks` takes what it locks and reads it, `Commits` writes absolute
balances and waits for rows that others lock. `Locked` says which operation locks
what; amounts stand for the prices in the code. `pay_user` is in no transaction and
saves twice (`PaySaves`). A companion's message is charged, answered, or paid
back.

**SuiService** and **CreatorCoins.** `journal`, `parcels` and `payouts` are the
service's three tables, `chain` and `sent` what the network has done, `call` what
each request has read before its last await. Each handler is cut at the awaits
between which its reads and its writes lie: a claim, the signature and its save;
a read, the send, the save. `CallFails` makes an await throw, `ServiceCrashes`
kills everything in `call`. A signed transaction is a number, and the chain
executes a number once. Django's request is the first step of a handler; its
answer may be lost, and Django reads the journal in a later run, so the command's
sequence is `Asks`, `RecordPublication` and `VerifySupply` over what the journal
says. `Worker` takes the first draft, as the command does. In `RecoverPublication`
an operator gives a digest; the service accepts that of any successful transaction
that publishes one package (`server.ts:2544-2714`), and the model assumes that it is
one of this coin.

An Edge claims in three steps. `Authenticate` looks at everything and asks the service
to verify the signature; `LockChallenge` begins the transaction, locks the challenge
and looks at the Edge, which is joined and not locked (`of=("self",)`); `Claim` locks
the request and writes, whatever has become of the Edge since. So `RevokeEdge` may
come between the last two, and so may the lapse of the challenge, whose time has been
compared before.

The modules that are proved about have no RECURSIVE operator and take sums from
the community modules. Each component
module has a section of *faulty variants*: operators with a slip the code could
have at that place. No specification uses them; they serve to show that the
properties tell the code from its mistakes.

## 3. The runs

| run | instance | bounds | shows |
|---|---|---|---|
| `market_p2p` | two private properties, three customers and the platform; one customer may come under the control of another at any point | three listings; offers below, at and above the floor | whatever the order of raises, outbids, cancellations, sales, closes and changes of control, no credit is lost, a listing has one funded leader, no hold is abandoned, listings and titles agree |
| `market_tienda` | three Treasury properties, one nobody owns, two customers who resell what they buy | lane targets of one, four listings, offers whose fee is rounded | the market implements the exchange; provenance is unbroken |
| `vending_unowned` | a property nobody owns, two purchasers | one listing, two budgets (the smallest that gets a quote, and one whose list price is rounded) | budgets are held exactly while reserved, a handle is vended once, vending and gifts implement the exchange |
| `tasks_vending` | a Treasury property on blind sale, two customers who bid and reserve, the scheduler | two listings, one offer, one budget, one kill | a hold settles, wherever a run is killed, unless a reservation overtakes the sale |
| `payments` | one payment accepted unconfirmed, one delivered on chain | two handlers of the webhook | nothing unpaid is delivered, no accepted payment is taken back, what is settled is delivered |
| `external` | one listing of a FANZ-operated seller, a buyer in SUI, a buyer in BTC, either in credits, and both as customers of a package | two listings of the property in sequence, two prices of SUI, one transaction, of either amount, that every order may cite | an order settles with a transaction that meets its quote, a listing is sold once and its title moves on one settlement, a transaction brings the credits of one package whoever cites it, what is settled is delivered while it can be had |
| `auctions` | two auctions, two bidders with three credits between them | one kill | prices count bids, a winner has bid, bids are paid for, an ended auction takes no bid, an expired one ends |
| `wallets` | two customers, a paid post, a package, an image | two threads, three operations | locked balances agree with the transactions, nothing is booked twice, no balance is negative |
| `publications` | two coins in the queue, a delivery | one request of the service at a time, two signatures per coin, one kill | what is signed is not signed again; a coin is published and a delivery signed unless stuck in a named way |
| `coins` | one coin with two images, a payout, two deliveries that two Edges may claim | two requests at once, three signatures, two changes of image on the chain, two challenges, one kill | one publication and one payout on the chain, an active coin and an accepted image are there, claims stay apart, a revoked Edge gets none but those under way |

Runs that show where the code departs from what its documents say (a
counterexample is the expected result; `PROJECT.json`, "findings", quotes the line):

| run | the behaviour |
|---|---|
| `tasks_p2p` | a bid on a blind listing of a customer: nothing closes it |
| `payments_regress` | a webhook that has read the invoice is applied after the delivery: a fulfilled payment is settled again |

`market_p2p` checks neither `TitleIsTraded` nor `TitleChain`: a bidder who comes
under the control of another account between the bid and the close pays for what
that account gets, so with changes of control the exchange and the provenance
hold between trees of accounts and not between accounts.

Some properties say what is true of the code rather than what one would first
write down. A winner of a credit auction has bid (`WinnerHasBid`) but need not be
the last to have bid, because the scheduler reads the last bid without a lock.
The platform's takings may fall short of the bids (`BidsArePaid`), because bids
overwrite its wallet. A customer's balance agrees with the transactions only while
no operation without a lock has touched it (`BalanceIsBooked` with `exposed`).
A title sold outside moves on the settlement of an order (`MovesOnSettlement`), which
is not to say that its buyer has paid: the transaction that the order cites may be
another's, and another order's too. Of credits more can be said, because a package
is credited once for a digest (`CreditsArePaidFor`): it counts transactions, not
orders. A claim is by an Edge that was active when its challenge was locked, and
perhaps no longer when it claims; `RevokedClaimsNothing` says that a revocation is
final once the transactions that had seen the Edge active are through (`CutOff`).
`SettlesUnlessVended`, `PublishedUnlessStuck` and `SignedUnlessKilled` name the
states from which the code does not recover alone: a sale overtaken by a
reservation; a coin without payload, claimed by a request that died, with a
transaction that failed or can no longer be executed, or with a registration the
journal has not learned of, and all coins behind it; a delivery the service was
killed over.

**Why the bounds are enough.** Amounts matter through comparisons, through the
15% fee and through the floor of 200; an offer below the floor, two that pass it
and credits for one or two of them separate every branch (refused, pays, cannot
pay, outbids, raises). The market's interference is between a holder, a
challenger and the seller: three accounts with the platform. Two listings of a
property in sequence show what an earlier listing leaves behind, and two
properties of different owners show what one sale does to another. The race of
reservations needs two purchasers; one kill reaches each step of the scheduler
and of the service. Two handlers of the webhook are enough for one to overtake the
other, two threads for one update to overwrite another and a third operation for
a repetition after both, and the theorems hold for any number. Two prices of SUI
make a quote that rises and one that falls. Two auctions share the platform's
wallet; the second is what makes an update of it lost. Two coins make a queue in
which one stops the other. Three signatures are one more than a repetition needs.
One transaction in SUI is what orders share, and a second would add orders that do
not share it; `CreditsArePaidFor` and `SettledAtQuote` are theorems for any number.
Requests to the service interleave in pairs: `coins` has two at once, and
`publications` has one, because its questions are what the kill, failures and the
queue leave behind. `tasks_vending` has one property; a sale that waits behind another that raises is
excused by `SettlesUnlessVended`, and not exercised.

`coins` is cut in two ways that lose nothing (`MCCreatorCoins`). Callers, URLs, orders,
Edges and challenges are interchangeable, and the run checks safety only, so TLC may
take one of each set of symmetric states (`Interchangeable`). And the claims of the
Edges share no state with payouts and changes of an image, and ask of the coin only
whether it exists and is active, which neither changes: so images and payouts are
explored before there is an Edge, and claims without them (`Apart`). That leaves two
Edges with two challenges racing for two requests, and two changes of an image, within
the time of a run.

**Deadlock** is not checked: listings are never reused (`MaxListings`),
operations and signatures are counted, so every bounded instance ends, and so
does a system whose properties are all private.

**Fairness.** `AuctionTasks`, `PaymentIntents`, `ExternalPayments`,
`CreditAuctions` and `CreatorCoins` have liveness properties. Assumed: the loop of
`run_auction_tasks.sh` goes on (`while true`, whatever its commands return), so a
run of the scheduler that can take its next step does; the payment worker tries
each settled payment, since `fulfill_settled_payments` isolates failures; a
transaction in progress ends; the end of a listing comes. Weak fairness is enough
for these. Strong fairness is assumed where a step can be disabled for a while and
enabled again: a write of the command that waits for a row while other bids lock
it (PostgreSQL serves waiters in turn), the worker and the deliveries, which
come round every minute while the service is busy with other requests, and the
service's attempts at the chain, of which not every one fails. Nothing is assumed
of customers, buyers, operators, of BTCPay, of webhooks, of mail or of the tool
that prepares payloads.

## 4. The proofs

Every safety invariant and every action property that a passing run checks is a
theorem, for any accounts, properties, prices and bounds. The assumptions are
those on the constants, each named in its module: users and properties are finite
sets, amounts are natural numbers, a floor is at least 200 credits. Two groups of
theorems need one more. `TitleIsTraded` and `TitleChain` are proved of the market
while no account controls another (`ControlPairs = {}`, as in `market_tienda`),
because they are false otherwise: a bidder who comes under another account's
control pays for what that account gets. `FounderVending` assumes the same of
vending altogether (`VendingAssumption`), because only tests assign a controller.

**Sums** (`SumTheorems`). Conservation is about a sum over accounts, and
`SumFunction` of the community modules is a recursion over a set by `CHOOSE`. The
library's induction theorems take an operator and cannot be used, so each lemma is
proved by a minimal counterexample: the subsets of a finite set on which the lemma
fails, if there are any, have a least one, and taking one element out of it gives a
smaller. The recursive function that defines the sum is shown to be unique in the
same way. What the others use: a sum splits off any element (`SumRemove`), is the
same for functions that agree (`SumSame`), adds (`SumPlus`), and changes by what one
value changes (`SumChange`).

**The market** (`FounderMarketProofs`). No invariant is inductive alone. A close
settles one bid because a listing has one at most and its hold equals it
(`FundedLeader`); it abandons none because holds are on active blind listings only
(`HoldsOnlyWhileOpen`); and the title may move with it because a property has no
second active listing, is listed only through the first, and belongs to its seller
(`ListedMeansForSale`). The inductive invariant `MarketInv` is these with the types;
its first part, `BooksOK`, leaves out `ListedMeansForSale` and so holds whatever
becomes of the statuses of properties. The proof of a step has one lemma per operation. The action
properties `HeldCreditsComeBack` and `LeadingOfferRises` follow from the invariant
in the state before the step (`HoldsComeBack`, `OfferRises`).

`CreditsConserved`, `TitleIsTraded` and `TitleChain` share one lemma, `EverySale`:
a step leaves titles, records and everybody's worth alone (`WorthKept`), or it is
one sale with one payment (`SettlesSale`: the payer is poorer by the price, the
seller richer by the price less the fee, the platform by the fee). The hard part is
a bid that outbids another, where one hold goes and another comes: the worth of
both bidders is unchanged because of `FundedLeader`. A sale is `Exchange!Trade`
once roots are fixed and prices are known to be offers or lane prices
(`RootsFixed`, `PricesKnown`); a chain of records grows at its end because the
ledger names the present owner as the seller (`ChainGrows`).

**Vending** (`FounderVendingProofs`). `MarketInv` does not hold beside vending: a
reservation changes the status of a property that the Tienda lists. What is left of
it is that a property has one active listing at most and that listings of the
platform sell what the platform owns. `VendingInv` adds: a listing with a lane is
the platform's, and what is available or in the treasury is the platform's or
nobody's (`PlatformStock`); a reservation in the making is of a customer who has no
item of the handle yet and whose wallet covers the budget (`RequestsKept`); an item
is a customer's, priced for a quoted budget, and claimed only if it was bought as a
gift (`ItemsKept`); what has been vended has an owner and is owned or listed, and is
in no lane if the platform has bought it back, so that it is never reserved again
and a later purchase, which asks for a reserved handle, must fail (`VendedTitle`,
from which `VendedOnce`); a budget is held exactly for an open item in credits; and
the count of conveyances. The sweep changes any number of items at once and is
treated as a sum over its items. `PrivateTitleIsSafe` follows from `VendingInv` in
the state before.

The refinement `TitleIsExchanged` maps a state to its titles, its records and
`WealthHeld`, which counts credits held for bids and for budgets. Step by step:
a reservation, a lapse, a cancellation and the sweep are stutters, because a hold
goes where the wallet's credits came from (`CommitKeepsWorth`,
`ReleaseKeepsWorth`, `ExpireKeepsWorth`); a purchase is a trade at its list price,
because the rest of the budget comes back in the same transaction
(`PurchasePays`); an outside payment is a release (`FulfillIsRelease`), a claim a
gift (`ClaimIsGift`), a market step what it was, with the budgets beside it
(`MarketHeldWorth`). Provenance and the conservation of credits in vending are
then proved of the abstract steps alone.

`EscrowBesideVending` carries the market's escrow over, and `SchedulerIsVending`
shows that a behaviour of `TasksSpec`, with its kills and its closes that raise, is
one of `VendingSpec`: the scheduler closes what the market lets anybody close, and
a refill moves no credits. So all of the above holds under the scheduler.

**Outside payments** (`ExternalPaymentsProofs`). They keep `MarketInv` (a title
conveyed outside closes the listing of its owner, which is the invariant's
condition on listed properties); an order is of a user (`OrderedByUsers`); what an
order in SUI cites when it settles has paid at least the order's quote, because a
transaction pays once and for all and a quote is not renewed once the order is
settled (`MeetsQuote`). Nothing is said of who has sent a transaction, nor that
orders have different ones, since neither is so in the code. From this follow
`SettledAtQuote`, `MovesOnSettlement` and `SoldOnce`, the last with the lemma that
a fulfilled order's listing is sold, so that a second fulfilment would need it to be
active. `PackagesMakeCredits` proves `CreditsArePaidFor`: the credits grow by one
package exactly when a delivery adds a digest to those that delivered packages cite
(`PackageCounted`). `ProvenanceWithPayments` and `EscrowWithPayments` say what outside
payments do to the rest: provenance goes on and bids are as safe as before. They need that only the two deliveries touch the market
(`OrderStepDelivers`).

**Payments** (`PaymentIntentsProofs`): the types, `PaidForReal` and
`AcceptanceIsFinal` for any number of payments and handlers. A handler applies a
status it may have read long ago, so the invariant says what it knows: the invoice
exists, and if it is about to settle the payment then BTCPay has accepted it. A
lemma says that no move of an invoice takes acceptance back, so that what was read
stays true.

**Credit auctions** (`CreditAuctionsProofs`): `PriceCountsBids`, `WinnerHasBid`,
`BidsArePaid` and `NoBidAfterEnd`, for any auctions, bidders and kills. The
scheduler writes rows it has read in an earlier step, so `AuctionsInv` says what
stays true of them: a row still to be ended had no winner when it was read, the
winner about to be saved has a bid, an auction to be relisted ended long ago, and
one whose bids have been deleted has got none since (`RunReads`). A bid in progress
holds the locks of its auction and of its bidder's wallet, so that what it read of
these two is what it writes over; what it read of the platform's wallet may be old,
but is never more than the bids before it have paid (`BidsInProgress`).

**Wallets** (`CreditWalletsProofs`): `WalletTypeOK`, `BalanceIsBooked` and
`PaidOnce` for any accounts and any number of threads. The strengthening: locks of
different threads are disjoint, what a thread has read of a wallet it holds is still
the balance (because every write waits for the locks of others), and what an
operation touches and does not lock is in `exposed`. A write of a locked balance is
then a change by the booked amount. The assumption that a payment's reference is not
a pair of a customer and an item is what keeps the rows of `PaidOnce` apart.

**Coins** (`CreatorCoinsProofs`): `SentOnce`, `SignedForGood`, `ActiveIsOnChain`,
`ImageIsOnChain`, `ClaimsAreSeparate` and `RevokedClaimsNothing` for any coins, payouts, deliveries and
Edges, any number of requests at once and of kills. The argument is about one coin:
its row of the journal agrees with what the chain has of it (only the bytes of the
row were ever sent, a confirmed row's transaction succeeded, a registration in the
row is one on the chain), a request that submits has the bytes of the row in hand,
and the request that pays out is the only one for its key and has not sent before.
Every step keeps this and takes back nothing (`Keeps`: bytes stay, a success and a
registration stay), so what Django recorded of a coin earlier remains true. A claim
has consumed its challenge, and a challenge is locked for one claim at a time, which
nobody has got for it yet (`ClaimsOK`): so a claim uses a challenge that is in no
other, though the challenge may have lapsed since it was locked. Only the lock of a
challenge adds to `claiming`, and it finds the Edge active: that is why a revocation
is final once `claiming` is clear of the Edge.

**Only model-checked** is liveness: `SettlesUnlessVended`, `PaidIsDelivered`,
`SettledIsDelivered`, `ExpiredEnds`, `PublishedUnlessStuck`, `SignedUnlessKilled`,
and the two counterexamples. They rest on fairness, and fairness on ENABLED, about
which the prover knows nothing. `CloseRaises` and `RunEnds` of the scheduler are
guarded by ENABLED as well; the proofs use only what they change.

## 5. Not modelled

Left out for good: hashes, tokens, e-mails, notifications, rendering, search,
AI and valuation, businesses, SunsetCam, the browser wallet and the Move template
(no protocol state).

Left out of the modelled components:

- *Vending and gifts.* `FounderPriceMemory` (never read again); the expiry of a
  gift's claim (a claim may simply never come) and `reissue_founder_gift_claim_token`;
  `add_founder_cart_item`, which nothing calls.
- *Market.* The hash chain and head row of the ledger; the edges of account
  control and the race of two assignments (only tests assign a controller); which
  properties the curated lists of `replenish_founder_tienda` select.
- *Payments.* What follows a delivery after its commit: the autofill of an
  address, the coin's draft (here `Draft` may come at any time), the starter grant
  (`GrantStarterSui`, likewise); an order made again after one that ended; an invoice whose transaction failed.
- *Wallets.* The commission of a sales node and the referral's bonus.
- *Coins.* `prepareTestnetProbe` and the other testnet probes;
  `promote_founder_economy_asset_to_mainnet`, which gives an asset a second
  publication key, and `register_founder_creator_coin`, which records a coin
  published elsewhere; `claim_creator_execution_request` and
  `consume_creator_edge_auth_challenge` with `authenticate_creator_edge_challenge`,
  which nothing in production calls; the coins a delivery selects from the
  inventory; previews and status pages.

Seen while modelling, and not the subject of a run:

- Two reservations of a handle may both be live after the race of their checks,
  and the release of a reservation that lapsed makes the property available under
  a later one; the invariants of `vending_unowned` say what survives of this.
- One transaction in SUI settles any number of orders whose quotes it meets, of
  whoever cites it (`models.py:680`, `server.ts:2040-2239`), so a title can be
  delivered to a buyer whose order cites another's payment; packages of credits are
  safe from this (`CreditsArePaidFor`), and the later orders are fulfilled without
  credits.
- An Edge revoked between `creator_edge_auth_services.py:381` and the claim gets the
  claim.
- A payment that settles after the property has gone to somebody else, in vending
  or P2P, stays settled: its delivery raises on every run of the worker.
- `process_next_founder_coin_publication.py:16-18` says that missing payloads "are
  skipped safely"; the command returns at the first draft without one.
- `prepare_next_founder_coin.py --force` takes the payload away and then stops at
  the package that is already there (`PrepareForced`); the payload comes back only
  with `--reuse-existing-package`.
- `reconcile_confirmed_creator_publication` makes a coin active before its supply
  is verified, and the worker takes up drafts only: if the verification fails,
  nothing but a call by hand repeats it.
- `prepareTestnetProbe` saves its bytes wherever no digest is recorded, so of two
  overlapping requests the later one replaces what the earlier one signed, next to
  the comment "once signed material exists, NEVER rebuild it" (`server.ts:2258`).
- `POST /v1/mainnet/starter-grants` answers with `grant` and
  `sui_grant_services.py:66` reads `transfer`.
- Overlapping verifications of one image count its change twice, since the UPDATE
  does not ask whether the image is still prepared; and the branch of
  `verifyCreatorCoinImageRebrand` for the retry of an accepted image comes after a
  check that refuses it unless the same image has been prepared again
  (`server.ts:3274-3296`).
- A purchaser whose reservation ended can never reserve that handle again
  (`models.py:2859`): the item stays in the cart.

What is left to do, in order: the payment of an image outside
(`coin_rebrand_services.py`) and of a contribution, as further kinds of orders; the
promotion of a coin to mainnet; the selection of the replenishment as an operator
of its own. To prove: that a behaviour of `ExternalPayments` without orders for
listings implements the exchange, with packages as its only source of credits, and
that the webhook's view of a payment (`PaymentIntents`) is what
`ExternalPayments` assumes of its invoices.
