----------------------------- MODULE CreditWallets -----------------------------
(***************************************************************************)
(* What the pages do with wallets (BidWallet) outside auctions and the     *)
(* Founder market: transfers and tips (pay_user, quick_tip_user), posts    *)
(* unlocked for credits (unlock_feed_post), messages to an AI companion    *)
(* (ai_wallet.py), immediate purchases (buy_now_auction), packages of      *)
(* credits that were paid for (process_credit_purchase) and the bonus of a *)
(* new account (activation, provision_user_wallet).                        *)
(*                                                                         *)
(* All of them read wallets, compute, and write back absolute balances.    *)
(* They differ in which wallets they lock before they read: an operation   *)
(* here is what it reads before it locks (Begins), what it locks and reads *)
(* then (Locks), and its commit.  A write waits for a row somebody locks;  *)
(* a deadlock or a failure rolls the transaction back.                     *)
(*                                                                         *)
(* A change of a coin's image bought for credits                           *)
(* (purchase_coin_rebrand_with_credits) is one of them.                    *)
(*                                                                         *)
(* Left out: the commission of a sales node, the referral's bonus.         *)
(***************************************************************************)
EXTENDS Integers

CONSTANTS
    Users, Plat,     \* customers, and the platform account
    Nobody,          \* no sender or no receiver
    InitialCredits,  \* BidWallet.credits of each account
    Posts, Author,   \* FeedPost.is_paid, and its FeedPost.user
    Payments,        \* CreditPurchase.external_id
    Images,          \* images of coins, each of which is bought once
    Threads,         \* requests and workers that run at the same time
    MaxOperations    \* bound on the operations

Accounts == Users \cup {Plat}

ASSUME WalletAssumption ==
    /\ Plat \notin Users /\ Nobody \notin Accounts
    /\ InitialCredits \in [Accounts -> Nat]
    /\ Author \in [Posts -> Users]
    /\ Payments \cap (Users \X (Posts \cup Images)) = {}
    /\ MaxOperations \in Nat

VARIABLES
    credits,   \* BidWallet.credits
    booked,    \* what an account received less what it sent, by WalletTransaction
    unlocked,  \* PostUnlock, and fulfilled PaymentIntents of a rebrand
    credited,  \* CreditPurchase rows
    rows,      \* WalletTransaction rows of each unlock and each purchase
    op,        \* the operation each thread is in
    started,   \* operations so far
    exposed    \* accounts some operation reads or writes without locking them

vars == <<credits, booked, unlocked, credited, rows, op, started, exposed>>

References == (Users \X (Posts \cup Images)) \cup Payments

Kinds == {"pay", "tip", "unlock", "ai", "refund", "buy_now", "purchase", "bonus",
          "rebrand"}

None == [kind |-> "none", from |-> Nobody, to |-> Nobody, item |-> Nobody,
         phase |-> "none", seen |-> [a \in Accounts |-> 0]]

\* A balance is a PositiveIntegerField.
WalletTypeOK ==
    /\ credits \in [Accounts -> Nat]
    /\ booked \in [Accounts -> Int]
    /\ unlocked \subseteq Users \X (Posts \cup Images)
    /\ credited \subseteq Payments
    /\ rows \in [References -> Nat]
    /\ op \in [Threads -> [kind : Kinds \cup {"none"}, from : Accounts \cup {Nobody},
                           to : Accounts \cup {Nobody},
                           item : Posts \cup Images \cup Payments \cup {Nobody},
                           phase : {"none", "begun", "locked", "half", "provider"},
                           seen : [Accounts -> Nat]]]
    /\ started \in 0..MaxOperations
    /\ exposed \subseteq Accounts

Init ==
    /\ credits = InitialCredits
    /\ booked = [a \in Accounts |-> 0]
    /\ unlocked = {}
    /\ credited = {}
    /\ rows = [r \in References |-> 0]
    /\ op = [t \in Threads |-> None]
    /\ started = 0
    /\ exposed = {}

-----------------------------------------------------------------------------
(* Faulty variants of the operators below.                                 *)

AffordedAnyway(o) == TRUE
HoldsPayer(t) == IF op[t].phase = "locked" THEN {op[t].from} ELSE {}
NeverRepeated(o) == FALSE

-----------------------------------------------------------------------------
(* The operations: amounts, and which wallets they lock.                   *)

Price == 6    \* FeedPost.unlock_price
Cost == 1     \* AICompanion.cost_per_message
Rebrand == 4  \* REBRAND_CREDITS

Debit(o) ==
    CASE o.kind = "unlock" -> Price
      [] o.kind = "tip"    -> 5
      [] o.kind = "pay"    -> 2
      [] o.kind = "ai"     -> Cost
      [] o.kind = "buy_now" -> 26
      [] o.kind = "rebrand" -> Rebrand
      [] OTHER             -> 0

\* "price // 5" of an unlock above 5; 1 of a tip of 5
PlatformFee(o) ==
    CASE o.kind = "unlock" -> IF Price > 5 THEN Price \div 5 ELSE 0
      [] o.kind = "tip"    -> 1
      [] o.kind = "ai"     -> Cost
      [] o.kind = "rebrand" -> Rebrand
      [] OTHER             -> 0

Credit(o) ==
    CASE o.kind \in {"unlock", "tip", "pay"} -> Debit(o) - PlatformFee(o)
      [] o.kind = "refund"   -> Cost
      [] o.kind = "purchase" -> 30
      [] o.kind = "bonus"    -> 50
      [] OTHER               -> 0

\* select_for_update
Locked(o) ==
    CASE o.kind \in {"ai", "tip"}          -> {o.from}
      [] o.kind = "unlock"                 -> {o.from, o.to}
      [] o.kind = "rebrand"                -> {o.from, Plat}
      [] o.kind \in {"refund", "purchase"} -> {o.to}
      [] OTHER                             -> {}

Touched(o) == {o.from, o.to} \cap Accounts
Unguarded(o) == Touched(o) \ Locked(o)

Holds(t) == IF op[t].phase = "locked" THEN Locked(op[t]) ELSE {}
FreeFor(t, as) == \A s \in Threads \ {t} : Holds(s) \cap as = {}

-----------------------------------------------------------------------------
(* Steps of an operation.                                                  *)

Reads(o, as) == [o EXCEPT !.seen = [a \in Accounts |-> IF a \in as THEN credits[a] ELSE @[a]]]

\* The thread starts o; whatever o does not lock it reads here.
Begins(t, o) ==
    /\ op[t] = None
    /\ started < MaxOperations
    /\ op' = [op EXCEPT ![t] = Reads(o, Unguarded(o))]
    /\ started' = started + 1
    /\ exposed' = exposed \cup Unguarded(o)
    /\ UNCHANGED <<credits, booked, unlocked, credited, rows>>

Operation(kind, from, to, item) ==
    [kind |-> kind, from |-> from, to |-> to, item |-> item,
     phase |-> "begun", seen |-> None.seen]

PayUser(t, u, v) == u # v /\ Begins(t, Operation("pay", u, v, Nobody))
QuickTipUser(t, u, v) == u # v /\ Begins(t, Operation("tip", u, v, Nobody))
UnlockFeedPost(t, u, p) == u # Author[p] /\ Begins(t, Operation("unlock", u, Author[p], p))
ChargeForAiMessage(t, u) == Begins(t, Operation("ai", u, Nobody, Nobody))
BuyNow(t, u) == Begins(t, Operation("buy_now", u, Nobody, Nobody))
ProcessCreditPurchase(t, u, x) ==
    x \notin credited /\ Begins(t, Operation("purchase", Nobody, u, x))
PurchaseCoinRebrand(t, u, i) == Begins(t, Operation("rebrand", u, Nobody, i))
SignupBonus(t, u) == Begins(t, Operation("bonus", Nobody, u, Nobody))

\* It gets its locks and reads what they protect, and the platform's wallet.
Locks(t) ==
    /\ op[t].phase = "begun"
    /\ FreeFor(t, Locked(op[t]))
    /\ op' = [op EXCEPT ![t] = [Reads(@, Locked(@) \cup {Plat}) EXCEPT !.phase = "locked"]]
    /\ UNCHANGED <<credits, booked, unlocked, credited, rows, started, exposed>>

Affords(o) == IF o.from \in Accounts THEN o.seen[o.from] >= Debit(o) ELSE TRUE

\* PostUnlock.get_or_create, an entitlement for the same image, found under the
\* lock of the asset, and CreditPurchase.external_id, which is unique
Repeated(o) ==
    \/ o.kind \in {"unlock", "rebrand"} /\ <<o.from, o.item>> \in unlocked
    \/ o.kind = "purchase" /\ o.item \in credited

Delta(o, a) == CASE a = o.from -> - Debit(o)
                 [] a = o.to   -> Credit(o)
                 [] a = Plat   -> PlatformFee(o)
                 [] OTHER      -> 0

Written(o) == Touched(o) \cup (IF PlatformFee(o) > 0 THEN {Plat} ELSE {})

Write(o, as) ==
    credits' = [a \in Accounts |-> IF a \in as THEN o.seen[a] + Delta(o, a) ELSE credits[a]]

Book(o) == booked' = [a \in Accounts |-> booked[a] + Delta(o, a)]

Reference(o) == IF o.kind \in {"unlock", "rebrand"} THEN <<o.from, o.item>> ELSE o.item

Commits(t) ==
    LET o == op[t]
    IN /\ o.phase = "locked" /\ o.kind # "pay"
       /\ FreeFor(t, Written(o))
       /\ Affords(o) /\ ~ Repeated(o)
       /\ Write(o, Written(o))
       /\ Book(o)
       /\ unlocked' = IF o.kind \in {"unlock", "rebrand"} THEN unlocked \cup {Reference(o)} ELSE unlocked
       /\ credited' = IF o.kind = "purchase" THEN credited \cup {Reference(o)} ELSE credited
       /\ rows' = IF o.kind \in {"unlock", "rebrand", "purchase"}
                    THEN [rows EXCEPT ![Reference(o)] = @ + 1] ELSE rows
       /\ op' = [op EXCEPT ![t] = IF o.kind = "ai" THEN [@ EXCEPT !.phase = "provider"] ELSE None]
       /\ UNCHANGED <<started, exposed>>

\* pay_user is no transaction: it saves the sender, then the receiver.
PaySaves(t) ==
    LET o == op[t]
    IN /\ o.kind = "pay"
       /\ \/ /\ o.phase = "locked" /\ Affords(o) /\ FreeFor(t, {o.from})
             /\ Write(o, {o.from})
             /\ op' = [op EXCEPT ![t].phase = "half"]
             /\ UNCHANGED booked
          \/ /\ o.phase = "half" /\ FreeFor(t, {o.to})
             /\ Write(o, {o.to})
             /\ Book(o)
             /\ op' = [op EXCEPT ![t] = None]
       /\ UNCHANGED <<unlocked, credited, rows, started, exposed>>

\* The AI provider answers, or it fails and the message is paid back.
ProviderAnswers(t) ==
    /\ op[t].phase = "provider"
    /\ op' = [op EXCEPT ![t] = None]
    /\ UNCHANGED <<credits, booked, unlocked, credited, rows, started, exposed>>

ProviderFails(t) ==
    /\ op[t].phase = "provider"
    /\ op' = [op EXCEPT ![t] = Operation("refund", Nobody, op[t].from, Nobody)]
    /\ UNCHANGED <<credits, booked, unlocked, credited, rows, started, exposed>>

\* Not enough credits, a second time, a deadlock, an error, a dead process.
Ends(t) ==
    /\ op[t].phase \in {"begun", "locked", "half"}
    /\ op' = [op EXCEPT ![t] = None]
    /\ UNCHANGED <<credits, booked, unlocked, credited, rows, started, exposed>>

Next ==
    \E t \in Threads :
        \/ \E u \in Users :
              \/ \E v \in Users : PayUser(t, u, v)
              \/ \E v \in Users : QuickTipUser(t, u, v)
              \/ \E p \in Posts : UnlockFeedPost(t, u, p)
              \/ ChargeForAiMessage(t, u)
              \/ BuyNow(t, u)
              \/ \E x \in Payments : ProcessCreditPurchase(t, u, x)
              \/ \E i \in Images : PurchaseCoinRebrand(t, u, i)
              \/ SignupBonus(t, u)
        \/ Locks(t)
        \/ Commits(t)
        \/ PaySaves(t)
        \/ ProviderAnswers(t)
        \/ ProviderFails(t)
        \/ Ends(t)

Spec == Init /\ [][Next]_vars

-----------------------------------------------------------------------------
(* Properties.                                                             *)

\* The balance of a customer is what the WalletTransactions say, however many
\* operations run on it at once, as long as each of them locks the wallet: no
\* update is lost.  Transfers, tips to the customer, immediate purchases and the
\* bonus do not lock it and void this for good.
BalanceIsBooked ==
    \A u \in Users \ exposed : credits[u] = InitialCredits[u] + booked[u]

\* A post is unlocked, and an image may be set, for who has paid for it, once, and
\* a payment buys its credits once, though requests and workers are repeated and
\* overlap.
PaidOnce ==
    /\ \A r \in Users \X (Posts \cup Images) : rows[r] = IF r \in unlocked THEN 1 ELSE 0
    /\ \A x \in Payments : rows[x] = IF x \in credited THEN 1 ELSE 0

==============================================================================
