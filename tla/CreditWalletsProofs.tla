-------------------------- MODULE CreditWalletsProofs --------------------------
(***************************************************************************)
(* Proofs about CreditWallets, for any accounts and any number of threads. *)
(*                                                                         *)
(* A balance is not lost where it is locked because a write waits for the  *)
(* locks of others: what a thread has read of a wallet it holds is still   *)
(* its balance when it writes (ReadsFresh).  That nothing is paid twice    *)
(* rests on the second look, under the lock, at what is there already.     *)
(***************************************************************************)
EXTENDS CreditWallets, TLAPS

Phases == {"none", "begun", "locked", "half", "provider"}
OpRecords == [kind : Kinds \cup {"none"}, from : Accounts \cup {Nobody},
              to : Accounts \cup {Nobody},
              item : Posts \cup Images \cup Payments \cup {Nobody},
              phase : Phases, seen : [Accounts -> Nat]]

\* What the kind of an operation says of it
Shaped(o) ==
    /\ o.kind = "unlock" => o.item \in Posts
    /\ o.kind = "rebrand" => o.item \in Images
    /\ o.kind = "purchase" => o.item \in Payments
    /\ o.kind \in {"ai", "tip", "unlock", "rebrand"} => o.from \in Users
    /\ o.kind \in {"unlock", "refund", "purchase"} => o.to \in Users
    /\ o.from \in Accounts => o.from # o.to
    /\ o.phase = "provider" => o.kind = "ai"
    /\ o.from # Plat /\ o.to # Plat

OpsShaped == \A t \in Threads : Shaped(op[t])
LocksHeld == \A s, t \in Threads : s # t => Holds(s) \cap Holds(t) = {}
ReadsFresh == \A t \in Threads : \A a \in Holds(t) : op[t].seen[a] = credits[a]
UnguardedExposed == \A t \in Threads : Unguarded(op[t]) \subseteq exposed

WalletInv ==
    /\ WalletTypeOK
    /\ OpsShaped
    /\ LocksHeld
    /\ ReadsFresh
    /\ UnguardedExposed
    /\ BalanceIsBooked
    /\ PaidOnce

LEMMA NoneIsShaped == None \in OpRecords /\ Shaped(None) /\ Unguarded(None) = {}
BY WalletAssumption DEF None, OpRecords, Phases, Shaped, Unguarded, Touched, Accounts

LEMMA Amounts ==
    ASSUME NEW o \in OpRecords
    PROVE  /\ Debit(o) \in Nat /\ PlatformFee(o) \in Nat /\ Credit(o) \in Nat
BY DEF OpRecords, Kinds, Debit, PlatformFee, Credit, Price, Cost, Rebrand

\* An operation goes on, or ends, and writes no wallet.
LEMMA QuietStep ==
    ASSUME WalletInv, NEW t \in Threads, NEW r \in OpRecords, Shaped(r),
           op' = [op EXCEPT ![t] = r],
           UNCHANGED <<credits, booked, unlocked, credited, rows>>,
           started' \in 0..MaxOperations,
           exposed \subseteq exposed', exposed' \subseteq Accounts,
           Unguarded(r) \subseteq exposed',
           r.phase = "locked" =>
               FreeFor(t, Locked(r)) /\ \A a \in Locked(r) : r.seen[a] = credits[a]
    PROVE  WalletInv'
<1>1. op \in [Threads -> OpRecords]
  BY DEF WalletInv, WalletTypeOK, OpRecords, Phases
<1>2. op' \in [Threads -> OpRecords] /\ op'[t] = r
      /\ \A s \in Threads : s # t => op'[s] = op[s]
  BY <1>1
<1>3. WalletTypeOK'
  BY <1>2 DEF WalletInv, WalletTypeOK, OpRecords, Phases
<1>4. OpsShaped'
  BY <1>2 DEF WalletInv, OpsShaped, Shaped
<1>5. \A s \in Threads : s # t => Holds(s)' = Holds(s)
  BY <1>2 DEF Holds, Locked
<1>6. Holds(t)' = IF r.phase = "locked" THEN Locked(r) ELSE {}
  BY <1>2 DEF Holds, Locked
<1>7. LocksHeld'
  BY <1>5, <1>6 DEF WalletInv, LocksHeld, FreeFor
<1>8. ReadsFresh'
  BY <1>2, <1>5, <1>6 DEF WalletInv, ReadsFresh
<1>9. UnguardedExposed'
  BY <1>2 DEF WalletInv, UnguardedExposed, Unguarded, Touched, Locked
<1>10. BalanceIsBooked' /\ PaidOnce'
  BY DEF WalletInv, BalanceIsBooked, PaidOnce
<1> QED
  BY <1>3, <1>4, <1>7, <1>8, <1>9, <1>10 DEF WalletInv

-----------------------------------------------------------------------------
(* Steps that write no wallet.                                             *)

\* An operation that reads is the same operation, and knows what it read.
LEMMA ReadsSame ==
    ASSUME WalletInv, NEW o \in OpRecords, NEW as
    PROVE  /\ Reads(o, as) \in OpRecords
           /\ Reads(o, as).kind = o.kind /\ Reads(o, as).phase = o.phase
           /\ Reads(o, as).from = o.from /\ Reads(o, as).to = o.to
           /\ Reads(o, as).item = o.item
           /\ \A a \in Accounts : a \in as => Reads(o, as).seen[a] = credits[a]
<1>1. credits \in [Accounts -> Nat]
  BY DEF WalletInv, WalletTypeOK
<1> DEFINE s == [a \in Accounts |-> IF a \in as THEN credits[a] ELSE o.seen[a]]
<1>2. s \in [Accounts -> Nat] /\ \A a \in Accounts : a \in as => s[a] = credits[a]
  BY <1>1 DEF OpRecords
<1>3. Reads(o, as) = [o EXCEPT !.seen = s]
  BY DEF Reads
<1> HIDE DEF s
<1> QED
  BY <1>2, <1>3 DEF OpRecords

LEMMA SameWallets ==
    ASSUME NEW o, NEW r, r.kind = o.kind, r.from = o.from, r.to = o.to, r.item = o.item,
           r.phase # "provider"
    PROVE  /\ Locked(r) = Locked(o) /\ Unguarded(r) = Unguarded(o)
           /\ Shaped(o) => Shaped(r)
BY DEF Locked, Unguarded, Touched, Shaped

LEMMA BeginsStep ==
    ASSUME WalletInv, NEW t \in Threads, NEW o \in OpRecords, Shaped(o),
           o.phase = "begun", Begins(t, o)
    PROVE  WalletInv'
<1> DEFINE r == Reads(o, Unguarded(o))
<1>1. /\ r \in OpRecords /\ r.phase = "begun" /\ Shaped(r)
      /\ Unguarded(r) = Unguarded(o)
  BY ReadsSame, SameWallets
<1>2. /\ op' = [op EXCEPT ![t] = r]
      /\ UNCHANGED <<credits, booked, unlocked, credited, rows>>
      /\ exposed' = exposed \cup Unguarded(o)
  BY DEF Begins
<1>3. started' \in 0..MaxOperations
  BY WalletAssumption DEF Begins, WalletInv, WalletTypeOK
<1>4. Unguarded(o) \subseteq Accounts
  BY DEF Unguarded, Touched
<1>5. exposed' \subseteq Accounts
  BY <1>2, <1>4 DEF WalletInv, WalletTypeOK
<1> HIDE DEF r
<1> QED
  BY <1>1, <1>2, <1>3, <1>5, QuietStep

LEMMA OperationIs ==
    ASSUME NEW kind \in Kinds, NEW from \in Users \cup {Nobody}, NEW to \in Users \cup {Nobody},
           NEW item \in Posts \cup Images \cup Payments \cup {Nobody},
           kind = "unlock" => item \in Posts,
           kind = "rebrand" => item \in Images,
           kind = "purchase" => item \in Payments,
           kind \in {"ai", "tip", "unlock", "rebrand"} => from \in Users,
           kind \in {"unlock", "refund", "purchase"} => to \in Users,
           from \in Accounts => from # to
    PROVE  /\ Operation(kind, from, to, item) \in OpRecords
           /\ Operation(kind, from, to, item).phase = "begun"
           /\ Shaped(Operation(kind, from, to, item))
           /\ Operation(kind, from, to, item).kind = kind
           /\ Operation(kind, from, to, item).from = from
           /\ Operation(kind, from, to, item).to = to
<1> DEFINE o == Operation(kind, from, to, item)
           z == None.seen
<1>0. z \in [Accounts -> Nat]
  BY NoneIsShaped DEF OpRecords
<1>1. o = [kind |-> kind, from |-> from, to |-> to, item |-> item,
           phase |-> "begun", seen |-> z]
  BY DEF Operation
<1> HIDE DEF o, z
<1>2. from # Plat /\ to # Plat
  BY WalletAssumption DEF Accounts
<1>3. o \in OpRecords
  BY <1>0, <1>1 DEF OpRecords, Accounts, Phases
<1>4. Shaped(o)
  BY <1>1, <1>2 DEF Shaped
<1> QED
  BY <1>1, <1>3, <1>4 DEF o

LEMMA RequestStep ==
    ASSUME WalletInv, NEW t \in Threads, NEW u \in Users,
           \/ \E v \in Users : PayUser(t, u, v)
           \/ \E v \in Users : QuickTipUser(t, u, v)
           \/ \E p \in Posts : UnlockFeedPost(t, u, p)
           \/ ChargeForAiMessage(t, u)
           \/ BuyNow(t, u)
           \/ \E x \in Payments : ProcessCreditPurchase(t, u, x)
           \/ \E i \in Images : PurchaseCoinRebrand(t, u, i)
           \/ SignupBonus(t, u)
    PROVE  WalletInv'
<1>0. u \in Accounts /\ u # Nobody /\ Nobody \notin Accounts
  BY WalletAssumption DEF Accounts
<1>1. ASSUME NEW v \in Users, PayUser(t, u, v) \/ QuickTipUser(t, u, v) PROVE WalletInv'
  BY <1>1, OperationIs, BeginsStep DEF PayUser, QuickTipUser, Kinds
<1>2. ASSUME NEW p \in Posts, UnlockFeedPost(t, u, p) PROVE WalletInv'
  <2>1. Author[p] \in Users
    BY WalletAssumption
  <2> QED
    BY <1>2, <2>1, OperationIs, BeginsStep DEF UnlockFeedPost, Kinds
<1>3. CASE ChargeForAiMessage(t, u) \/ BuyNow(t, u) \/ SignupBonus(t, u)
  BY <1>0, <1>3, OperationIs, BeginsStep DEF ChargeForAiMessage, BuyNow, SignupBonus, Kinds
<1>4. ASSUME NEW x \in Payments, ProcessCreditPurchase(t, u, x) PROVE WalletInv'
  BY <1>0, <1>4, OperationIs, BeginsStep DEF ProcessCreditPurchase, Kinds
<1>5. ASSUME NEW i \in Images, PurchaseCoinRebrand(t, u, i) PROVE WalletInv'
  BY <1>0, <1>5, OperationIs, BeginsStep DEF PurchaseCoinRebrand, Kinds
<1> QED
  BY <1>1, <1>2, <1>3, <1>4, <1>5

LEMMA OpOf ==
    ASSUME WalletInv, NEW t \in Threads
    PROVE  /\ op[t] \in OpRecords /\ Shaped(op[t])
           /\ Unguarded(op[t]) \subseteq exposed
           /\ op \in [Threads -> OpRecords]
<1>1. op \in [Threads -> OpRecords]
  BY DEF WalletInv, WalletTypeOK, OpRecords, Phases
<1> QED
  BY <1>1 DEF WalletInv, OpsShaped, UnguardedExposed

LEMMA LocksStep ==
    ASSUME WalletInv, NEW t \in Threads, Locks(t)
    PROVE  WalletInv'
<1> DEFINE e == Reads(op[t], Locked(op[t]) \cup {Plat})
           r == [e EXCEPT !.phase = "locked"]
<1>1. op[t] \in OpRecords /\ Shaped(op[t]) /\ Unguarded(op[t]) \subseteq exposed
  BY OpOf
<1>2. /\ e \in OpRecords
      /\ e.kind = op[t].kind /\ e.from = op[t].from /\ e.to = op[t].to
      /\ e.item = op[t].item
      /\ \A a \in Accounts : a \in Locked(op[t]) => e.seen[a] = credits[a]
  BY <1>1, ReadsSame
<1>3. op' = [op EXCEPT ![t] = r]
  BY DEF Locks
<1> HIDE DEF e
<1>4. /\ r \in OpRecords /\ r.phase = "locked" /\ r.seen = e.seen
      /\ r.kind = op[t].kind /\ r.from = op[t].from /\ r.to = op[t].to
      /\ r.item = op[t].item
  BY <1>2 DEF OpRecords, Phases
<1> HIDE DEF r
<1>5. Locked(r) = Locked(op[t]) /\ Unguarded(r) = Unguarded(op[t]) /\ Shaped(r)
  BY <1>1, <1>4, SameWallets
<1>6. Locked(op[t]) \subseteq Accounts
  BY <1>1 DEF Shaped, Locked, Accounts
<1>7. FreeFor(t, Locked(r)) /\ \A a \in Locked(r) : r.seen[a] = credits[a]
  BY <1>2, <1>4, <1>5, <1>6 DEF Locks
<1>8. /\ UNCHANGED <<credits, booked, unlocked, credited, rows, started, exposed>>
      /\ started \in 0..MaxOperations /\ exposed \subseteq Accounts
  BY DEF Locks, WalletInv, WalletTypeOK
<1> QED
  BY <1>1, <1>3, <1>4, <1>5, <1>7, <1>8, QuietStep

LEMMA EndsStep ==
    ASSUME WalletInv, NEW t \in Threads,
           Ends(t) \/ ProviderAnswers(t) \/ ProviderFails(t)
    PROVE  WalletInv'
<1>0. /\ UNCHANGED <<credits, booked, unlocked, credited, rows, started, exposed>>
      /\ started \in 0..MaxOperations /\ exposed \subseteq Accounts
  BY DEF Ends, ProviderAnswers, ProviderFails, WalletInv, WalletTypeOK
<1>1. CASE Ends(t) \/ ProviderAnswers(t)
  <2>1. op' = [op EXCEPT ![t] = None]
    BY <1>1 DEF Ends, ProviderAnswers
  <2>2. None.phase # "locked"
    BY DEF None
  <2> QED
    BY <1>0, <2>1, <2>2, NoneIsShaped, QuietStep
<1>2. CASE ProviderFails(t)
  <2> DEFINE r == Operation("refund", Nobody, op[t].from, Nobody)
  <2>1. op[t].kind = "ai"
    BY <1>2, OpOf DEF ProviderFails, Shaped
  <2>2. op[t].from \in Users
    BY <2>1, OpOf DEF Shaped
  <2>3. /\ r \in OpRecords /\ r.phase = "begun" /\ Shaped(r)
        /\ r.kind = "refund" /\ r.from = Nobody /\ r.to = op[t].from
    BY <2>2, WalletAssumption, OperationIs DEF Kinds
  <2>4. op' = [op EXCEPT ![t] = r]
    BY <1>2 DEF ProviderFails
  <2> HIDE DEF r
  <2>5. Unguarded(r) = {}
    BY <2>3, WalletAssumption DEF Unguarded, Touched, Locked
  <2> QED
    BY <1>0, <2>3, <2>4, <2>5, QuietStep
<1> QED
  BY <1>1, <1>2

-----------------------------------------------------------------------------
(* Steps that write wallets.                                               *)

\* The thread leaves its locks after a write that waited for those of others.
LEMMA LocksAfterWrite ==
    ASSUME WalletInv, NEW t \in Threads, NEW r \in OpRecords, Shaped(r),
           op' = [op EXCEPT ![t] = r], r.phase # "locked",
           Unguarded(r) \subseteq exposed, exposed' = exposed,
           NEW as, FreeFor(t, as),
           \A a \in Accounts : a \notin as => credits'[a] = credits[a]
    PROVE  OpsShaped' /\ LocksHeld' /\ ReadsFresh' /\ UnguardedExposed'
<1>1. op \in [Threads -> OpRecords]
  BY DEF WalletInv, WalletTypeOK, OpRecords, Phases
<1>2. op'[t] = r /\ \A s \in Threads : s # t => op'[s] = op[s]
  BY <1>1
<1>3. \A s \in Threads : s # t => Holds(s)' = Holds(s)
  BY <1>2 DEF Holds, Locked
<1>4. Holds(t)' = {}
  BY <1>2 DEF Holds
<1>5. \A s \in Threads : Holds(s) \subseteq Accounts
  BY OpOf DEF Holds, Locked, Shaped, Accounts
<1>6. OpsShaped'
  BY <1>2 DEF WalletInv, OpsShaped, Shaped
<1>7. LocksHeld'
  BY <1>3, <1>4 DEF WalletInv, LocksHeld
<1>8. ReadsFresh'
  <2>1. ASSUME NEW s \in Threads, NEW a \in Holds(s)'
        PROVE  op'[s].seen[a] = credits'[a]
    <3>1. s # t /\ a \in Holds(s) /\ a \in Accounts
      BY <2>1, <1>3, <1>4, <1>5
    <3>2. a \notin as
      BY <3>1 DEF FreeFor
    <3> QED
      BY <3>1, <3>2, <1>2 DEF WalletInv, ReadsFresh
  <2> QED
    BY <2>1 DEF ReadsFresh
<1>9. UnguardedExposed'
  BY <1>2 DEF WalletInv, UnguardedExposed, Unguarded, Touched, Locked
<1> QED
  BY <1>6, <1>7, <1>8, <1>9

LEMMA DeltaIs ==
    ASSUME NEW o \in OpRecords, Shaped(o), NEW a \in Accounts
    PROVE  /\ Delta(o, a) \in Int
           /\ a = o.from => Delta(o, a) = - Debit(o)
           /\ a # o.from => Delta(o, a) \in Nat
           /\ a \in Users /\ a \notin Touched(o) => Delta(o, a) = 0
<1>1. Debit(o) \in Nat /\ PlatformFee(o) \in Nat /\ Credit(o) \in Nat
  BY Amounts
<1>2. a \in Users => a # Plat
  BY WalletAssumption
<1> QED
  BY <1>1, <1>2 DEF Delta, Touched, Shaped

LEMMA WrittenBalances ==
    ASSUME WalletInv, NEW o \in OpRecords, Shaped(o), NEW as, Write(o, as),
           o.from \in as \cap Accounts => o.seen[o.from] >= Debit(o)
    PROVE  /\ credits' \in [Accounts -> Nat]
           /\ \A a \in Accounts : a \notin as => credits'[a] = credits[a]
           /\ \A a \in Accounts : a \in as => credits'[a] = o.seen[a] + Delta(o, a)
<1>1. credits \in [Accounts -> Nat] /\ o.seen \in [Accounts -> Nat]
  BY DEF WalletInv, WalletTypeOK, OpRecords
<1>2. ASSUME NEW a \in Accounts, a \in as PROVE o.seen[a] + Delta(o, a) \in Nat
  <2>1. CASE a = o.from
    <3>1. Delta(o, a) = - Debit(o) /\ Debit(o) \in Nat
      BY <2>1, Amounts, DeltaIs
    <3>2. o.seen[a] \in Nat /\ o.seen[a] >= Debit(o)
      BY <1>1, <1>2, <2>1
    <3> QED
      BY <3>1, <3>2
  <2>2. CASE a # o.from
    BY <1>1, <2>2, DeltaIs
  <2> QED
    BY <2>1, <2>2
<1> QED
  BY <1>1, <1>2 DEF Write

LEMMA BookedIs ==
    ASSUME WalletInv, NEW o \in OpRecords, Shaped(o), Book(o)
    PROVE  /\ booked' \in [Accounts -> Int]
           /\ \A a \in Accounts : booked'[a] = booked[a] + Delta(o, a)
BY DeltaIs DEF Book, WalletInv, WalletTypeOK

LEMMA PaySavesStep ==
    ASSUME WalletInv, NEW t \in Threads, PaySaves(t)
    PROVE  WalletInv'
<1> DEFINE o == op[t]
<1>1. /\ o \in OpRecords /\ Shaped(o) /\ Unguarded(o) \subseteq exposed
      /\ o.kind = "pay"
  BY OpOf DEF PaySaves
<1>2. /\ UNCHANGED <<unlocked, credited, rows, started, exposed>>
      /\ PaidOnce' /\ op \in [Threads -> OpRecords]
  BY OpOf DEF PaySaves, WalletInv, PaidOnce
<1>3. Touched(o) \subseteq exposed
  BY <1>1 DEF Unguarded, Locked
<1> HIDE DEF o
<1>4. CASE o.phase = "locked" /\ Affords(o) /\ FreeFor(t, {o.from})
           /\ Write(o, {o.from})
           /\ op' = [op EXCEPT ![t].phase = "half"] /\ UNCHANGED booked
  <2> DEFINE r == [o EXCEPT !.phase = "half"]
  <2>1. /\ r \in OpRecords /\ r.phase = "half" /\ r.kind = o.kind
        /\ r.from = o.from /\ r.to = o.to /\ r.item = o.item
    BY <1>1 DEF OpRecords, Phases
  <2>2. op' = [op EXCEPT ![t] = r]
    BY <1>4 DEF o
  <2> HIDE DEF r
  <2>3. Shaped(r) /\ Unguarded(r) \subseteq exposed
    BY <1>1, <2>1, SameWallets
  <2>4. /\ credits' \in [Accounts -> Nat]
        /\ \A a \in Accounts : a # o.from => credits'[a] = credits[a]
    BY <1>1, <1>4, WrittenBalances DEF Affords
  <2>5. OpsShaped' /\ LocksHeld' /\ ReadsFresh' /\ UnguardedExposed'
    BY <1>2, <1>4, <2>1, <2>2, <2>3, <2>4, LocksAfterWrite
  <2>6. BalanceIsBooked'
    BY <1>2, <1>3, <1>4, <2>4 DEF BalanceIsBooked, WalletInv, Touched, Accounts
  <2>7. op' \in [Threads -> OpRecords]
    BY <1>2, <2>1, <2>2
  <2>8. WalletTypeOK'
    BY <1>2, <1>4, <2>4, <2>7 DEF WalletInv, WalletTypeOK, OpRecords, Phases
  <2> QED
    BY <1>2, <2>5, <2>6, <2>8 DEF WalletInv
<1>5. CASE o.phase = "half" /\ FreeFor(t, {o.to}) /\ Write(o, {o.to}) /\ Book(o)
           /\ op' = [op EXCEPT ![t] = None]
  <2>1. o.from \in {o.to} \cap Accounts => FALSE
    BY <1>1 DEF Shaped
  <2>2. /\ credits' \in [Accounts -> Nat]
        /\ \A a \in Accounts : a # o.to => credits'[a] = credits[a]
    BY <1>1, <1>5, <2>1, WrittenBalances
  <2>3. /\ booked' \in [Accounts -> Int]
        /\ \A a \in Accounts : booked'[a] = booked[a] + Delta(o, a)
    BY <1>1, <1>5, BookedIs
  <2>4. None \in OpRecords /\ Shaped(None) /\ Unguarded(None) = {}
        /\ None.phase # "locked"
    BY NoneIsShaped DEF None
  <2>5. OpsShaped' /\ LocksHeld' /\ ReadsFresh' /\ UnguardedExposed'
    BY <1>2, <1>5, <2>2, <2>4, LocksAfterWrite
  <2>6. ASSUME NEW u \in Users \ exposed PROVE credits'[u] = InitialCredits[u] + booked'[u]
    <3>1. u \in Accounts /\ u \notin Touched(o) /\ u # o.to
      BY <1>3 DEF Accounts, Touched
    <3>2. Delta(o, u) = 0
      BY <1>1, <3>1, DeltaIs
    <3>3. booked[u] \in Int /\ credits[u] = InitialCredits[u] + booked[u]
      BY <3>1 DEF WalletInv, WalletTypeOK, BalanceIsBooked
    <3> QED
      BY <2>2, <2>3, <3>1, <3>2, <3>3
  <2>7. BalanceIsBooked'
    BY <1>2, <2>6 DEF BalanceIsBooked
  <2>8. op' \in [Threads -> OpRecords]
    BY <1>2, <1>5, <2>4
  <2>9. WalletTypeOK'
    BY <1>2, <2>2, <2>3, <2>8 DEF WalletInv, WalletTypeOK, OpRecords, Phases
  <2> QED
    BY <1>2, <2>5, <2>7, <2>9 DEF WalletInv
<1> QED
  BY <1>4, <1>5 DEF PaySaves, o

\* Who commits had found, under the lock, that it is not done yet.
LEMMA PaidOnceMore ==
    ASSUME WalletInv, NEW t \in Threads, Commits(t)
    PROVE  /\ PaidOnce'
           /\ unlocked' \subseteq Users \X (Posts \cup Images) /\ credited' \subseteq Payments
           /\ rows' \in [References -> Nat]
<1> DEFINE o == op[t]
<1>1. o \in OpRecords /\ Shaped(o) /\ ~ Repeated(o)
  BY OpOf DEF Commits
<1>2. /\ unlocked' = IF o.kind \in {"unlock", "rebrand"} THEN unlocked \cup {Reference(o)} ELSE unlocked
      /\ credited' = IF o.kind = "purchase" THEN credited \cup {Reference(o)} ELSE credited
      /\ rows' = IF o.kind \in {"unlock", "rebrand", "purchase"}
                   THEN [rows EXCEPT ![Reference(o)] = @ + 1] ELSE rows
  BY DEF Commits
<1>3. /\ unlocked \subseteq Users \X (Posts \cup Images) /\ credited \subseteq Payments
      /\ rows \in [References -> Nat] /\ PaidOnce
  BY DEF WalletInv, WalletTypeOK
<1>4. \A x \in Payments : x \notin Users \X (Posts \cup Images)
  BY WalletAssumption
<1> HIDE DEF o
<1>5. CASE o.kind \in {"unlock", "rebrand"}
  <2>1. /\ Reference(o) \in Users \X (Posts \cup Images)
        /\ Reference(o) \notin unlocked
    BY <1>1, <1>5 DEF Shaped, Repeated, Reference
  <2> DEFINE q == Reference(o)
  <2>2. unlocked' = unlocked \cup {q} /\ credited' = credited /\ rows' = [rows EXCEPT ![q] = @ + 1]
    BY <1>2, <1>5
  <2> HIDE DEF q
  <2>3. q \in Users \X (Posts \cup Images) /\ q \notin unlocked
    BY <2>1 DEF q
  <2>4. q \in References /\ rows[q] = 0
    BY <1>3, <2>3 DEF References, PaidOnce
  <2>5. rows' \in [References -> Nat] /\ rows'[q] = 1
        /\ \A x \in References : x # q => rows'[x] = rows[x]
    BY <1>3, <2>2, <2>4
  <2>6. PaidOnce'
    BY <1>3, <1>4, <2>2, <2>3, <2>5 DEF PaidOnce, References
  <2> QED
    BY <1>3, <2>2, <2>3, <2>5, <2>6
<1>6. CASE o.kind = "purchase"
  <2> DEFINE q == Reference(o)
  <2>1. q \in Payments /\ q \notin credited
    BY <1>1, <1>6 DEF Shaped, Repeated, Reference
  <2>2. unlocked' = unlocked /\ credited' = credited \cup {q} /\ rows' = [rows EXCEPT ![q] = @ + 1]
    BY <1>2, <1>6
  <2> HIDE DEF q
  <2>4. q \in References /\ rows[q] = 0
    BY <1>3, <2>1 DEF References, PaidOnce
  <2>5. rows' \in [References -> Nat] /\ rows'[q] = 1
        /\ \A x \in References : x # q => rows'[x] = rows[x]
    BY <1>3, <2>2, <2>4
  <2>6. PaidOnce'
    BY <1>3, <1>4, <2>1, <2>2, <2>5 DEF PaidOnce, References
  <2> QED
    BY <1>3, <2>1, <2>2, <2>5, <2>6
<1>7. CASE o.kind \notin {"unlock", "rebrand", "purchase"}
  BY <1>2, <1>3, <1>7 DEF PaidOnce
<1> QED
  BY <1>5, <1>6, <1>7

LEMMA CommitsStep ==
    ASSUME WalletInv, NEW t \in Threads, Commits(t)
    PROVE  WalletInv'
<1> DEFINE o == op[t]
           r == IF o.kind = "ai" THEN [o EXCEPT !.phase = "provider"] ELSE None
<1>1. /\ o \in OpRecords /\ Shaped(o) /\ Unguarded(o) \subseteq exposed
      /\ op \in [Threads -> OpRecords]
  BY OpOf
<1>2. /\ o.phase = "locked" /\ FreeFor(t, Written(o)) /\ Affords(o)
      /\ Write(o, Written(o)) /\ Book(o)
      /\ UNCHANGED <<started, exposed>>
      /\ op' = [op EXCEPT ![t] = r]
  BY DEF Commits
<1>3. Locked(o) = Holds(t)
  BY <1>2 DEF Holds
<1> HIDE DEF o
<1>4. /\ r \in OpRecords /\ Shaped(r) /\ r.phase # "locked"
      /\ Unguarded(r) \subseteq exposed
  <2>1. CASE o.kind = "ai"
    <3>1. /\ r \in OpRecords /\ r.phase = "provider" /\ r.kind = "ai"
          /\ r.from = o.from /\ r.to = o.to /\ r.item = o.item
      BY <1>1, <2>1 DEF OpRecords, Phases
    <3> QED
      BY <1>1, <2>1, <3>1 DEF Shaped, Unguarded, Touched, Locked
  <2>2. CASE o.kind # "ai"
    BY <2>2, NoneIsShaped DEF None
  <2> QED
    BY <2>1, <2>2
<1> HIDE DEF r
<1>5. /\ credits' \in [Accounts -> Nat]
      /\ \A a \in Accounts : a \notin Written(o) => credits'[a] = credits[a]
      /\ \A a \in Accounts : a \in Written(o) => credits'[a] = o.seen[a] + Delta(o, a)
  BY <1>1, <1>2, WrittenBalances DEF Affords
<1>6. /\ booked' \in [Accounts -> Int]
      /\ \A a \in Accounts : booked'[a] = booked[a] + Delta(o, a)
  BY <1>1, <1>2, BookedIs
<1>7. OpsShaped' /\ LocksHeld' /\ ReadsFresh' /\ UnguardedExposed'
  BY <1>2, <1>4, <1>5, LocksAfterWrite
<1>8. ASSUME NEW u \in Users \ exposed PROVE credits'[u] = InitialCredits[u] + booked'[u]
  <2>1. u \in Accounts /\ u # Plat /\ u \notin Unguarded(o)
    BY <1>1, WalletAssumption DEF Accounts
  <2>2. /\ booked[u] \in Int /\ credits[u] = InitialCredits[u] + booked[u]
        /\ InitialCredits[u] \in Nat /\ Delta(o, u) \in Int
    BY <1>1, <2>1, DeltaIs, WalletAssumption DEF WalletInv, WalletTypeOK, BalanceIsBooked
  <2>3. CASE u \in Touched(o)
    <3>1. u \in Written(o) /\ u \in Holds(t)
      BY <1>3, <2>1, <2>3 DEF Written, Unguarded
    <3>2. o.seen[u] = credits[u]
      BY <3>1 DEF WalletInv, ReadsFresh, o
    <3> QED
      BY <1>5, <1>6, <2>1, <2>2, <3>1, <3>2
  <2>4. CASE u \notin Touched(o)
    <3>1. u \notin Written(o) /\ Delta(o, u) = 0
      BY <1>1, <2>1, <2>4, DeltaIs DEF Written
    <3> QED
      BY <1>5, <1>6, <2>1, <2>2, <3>1
  <2> QED
    BY <2>3, <2>4
<1>9. BalanceIsBooked'
  BY <1>2, <1>8 DEF BalanceIsBooked
<1>10. op' \in [Threads -> OpRecords]
  BY <1>1, <1>2, <1>4
<1>11. WalletTypeOK'
  BY <1>2, <1>5, <1>6, <1>10, PaidOnceMore DEF WalletInv, WalletTypeOK, OpRecords, Phases
<1> QED
  BY <1>7, <1>9, <1>11, PaidOnceMore DEF WalletInv

-----------------------------------------------------------------------------
(* The theorems.                                                           *)

LEMMA InitWallets == Init => WalletInv
<1> SUFFICES ASSUME Init PROVE WalletInv
  OBVIOUS
<1>1. None \in OpRecords /\ Shaped(None) /\ Unguarded(None) = {} /\ None.phase = "none"
  BY NoneIsShaped DEF None
<1>2. op = [t \in Threads |-> None]
  BY DEF Init
<1>3. op \in [Threads -> OpRecords]
  BY <1>1, <1>2
<1>4. WalletTypeOK
  BY <1>3, WalletAssumption DEF Init, WalletTypeOK, OpRecords, Phases
<1>5. OpsShaped /\ UnguardedExposed
  BY <1>1, <1>2 DEF OpsShaped, UnguardedExposed
<1>6. \A t \in Threads : Holds(t) = {}
  BY <1>1, <1>2 DEF Holds
<1>7. LocksHeld /\ ReadsFresh
  BY <1>6 DEF LocksHeld, ReadsFresh
<1>8. BalanceIsBooked
  <2>1. ASSUME NEW u \in Users \ exposed PROVE credits[u] = InitialCredits[u] + booked[u]
    <3>1. u \in Accounts /\ InitialCredits[u] \in Nat
      BY WalletAssumption DEF Accounts
    <3>2. credits[u] = InitialCredits[u] /\ booked[u] = 0
      BY <3>1 DEF Init
    <3> QED
      BY <3>1, <3>2
  <2> QED
    BY <2>1 DEF BalanceIsBooked
<1>9. PaidOnce
  BY DEF Init, PaidOnce, References
<1> QED
  BY <1>4, <1>5, <1>7, <1>8, <1>9 DEF WalletInv

LEMMA NextWallets ==
    ASSUME WalletInv, [Next]_vars
    PROVE  WalletInv'
<1>1. CASE UNCHANGED vars
  <2>1. /\ credits' = credits /\ booked' = booked /\ unlocked' = unlocked
        /\ credited' = credited /\ rows' = rows /\ op' = op /\ started' = started
        /\ exposed' = exposed
    BY <1>1 DEF vars
  <2>2. WalletTypeOK' /\ BalanceIsBooked' /\ PaidOnce'
    BY <2>1 DEF WalletInv, WalletTypeOK, BalanceIsBooked, PaidOnce
  <2>3. OpsShaped'
    BY <2>1 DEF WalletInv, OpsShaped, Shaped
  <2>4. UnguardedExposed'
    BY <2>1 DEF WalletInv, UnguardedExposed, Unguarded, Touched, Locked
  <2>5. \A t \in Threads : Holds(t)' = Holds(t)
    BY <2>1 DEF Holds, Locked
  <2>6. LocksHeld' /\ ReadsFresh'
    BY <2>1, <2>5 DEF WalletInv, LocksHeld, ReadsFresh
  <2> QED
    BY <2>2, <2>3, <2>4, <2>6 DEF WalletInv
<1>2. ASSUME NEW t \in Threads, Locks(t) PROVE WalletInv'
  BY <1>2, LocksStep
<1>3. ASSUME NEW t \in Threads, Commits(t) PROVE WalletInv'
  BY <1>3, CommitsStep
<1>4. ASSUME NEW t \in Threads, PaySaves(t) PROVE WalletInv'
  BY <1>4, PaySavesStep
<1>5. ASSUME NEW t \in Threads, Ends(t) \/ ProviderAnswers(t) \/ ProviderFails(t)
      PROVE  WalletInv'
  BY <1>5, EndsStep
<1> QED
  BY <1>1, <1>2, <1>3, <1>4, <1>5, RequestStep DEF Next

\* Types, locks that exclude one another, reads that stay fresh under them, and
\* the two properties below, in every state.
THEOREM WalletInvariant == Spec => []WalletInv
<1>1. Init => WalletInv
  BY InitWallets
<1>2. WalletInv /\ [Next]_vars => WalletInv'
  BY NextWallets
<1> QED
  BY <1>1, <1>2, PTL DEF Spec

\* No balance is negative, and no operation is in a phase it cannot be in.
THEOREM WalletTypes == Spec => []WalletTypeOK
<1>1. WalletInv => WalletTypeOK
  BY DEF WalletInv
<1> QED
  BY <1>1, WalletInvariant, PTL

\* No update of a customer's balance is lost while every operation on it locks it.
THEOREM NoUpdateLost == Spec => []BalanceIsBooked
<1>1. WalletInv => BalanceIsBooked
  BY DEF WalletInv
<1> QED
  BY <1>1, WalletInvariant, PTL

\* What was unlocked, or paid for from outside, is booked exactly once.
THEOREM NothingTwice == Spec => []PaidOnce
<1>1. WalletInv => PaidOnce
  BY DEF WalletInv
<1> QED
  BY <1>1, WalletInvariant, PTL

==============================================================================
