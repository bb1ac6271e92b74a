--------------------------- MODULE CreatorCoinsProofs ---------------------------
(***************************************************************************)
(* Proofs about SuiService and CreatorCoins, for any coins, payouts,       *)
(* deliveries and Edges, any number of requests at once and any number of  *)
(* kills.                                                                  *)
(*                                                                         *)
(* The argument is about one coin at a time: its row of the journal and    *)
(* what the chain has of it agree (CoinOK), and neither takes back what    *)
(* the other relies on (Grows).  A request that sends a publication sends  *)
(* the bytes of the row (CallOK), and a payout is in the hands of one      *)
(* request (PayoutsOK).                                                    *)
(***************************************************************************)
EXTENDS CreatorCoins, FiniteSetTheorems, SequenceTheorems, TLAPS

Images == Urls \cup {NoUrl}

Rows == [state : {"none", "accepted", "preparing", "prepared", "submitted", "failed",
                  "confirmed"},
         bytes : 0..MaxSigned, digest : 0..MaxSigned, package : 0..MaxSigned,
         registered : BOOLEAN, cap : BOOLEAN,
         image : Images, imageTx : Nat, pending : Images, ready : BOOLEAN]

CoinsOnChain == [signed : 0..MaxSigned,
                 tx : [1..MaxSigned -> {"none", "ok", "failed", "stale"}],
                 currency : {"none", "published", "registered"},
                 icons : Seq(Images)]

CoinOps == {"publication", "submission", "registration", "image", "verification"}
Keys == Coins \cup Parcels \cup Payouts \cup {0}
Calls == [op : CoinOps \cup {"none", "parcel", "payout"}, key : Keys, tx : Nat,
          done : BOOLEAN, url : Images]

ParcelRows == [state : {"none", "accepted", "preparing", "prepared"},
               bytes : 0..MaxSigned, digest : {0}]

\* A row of the journal and what the chain has of its coin
CoinOK(r, q) ==
    /\ r \in Rows /\ q \in CoinsOnChain
    /\ \A n \in 1..MaxSigned : q.tx[n] # "none" => n = r.bytes
    /\ q.currency # "none" => r.bytes # 0 /\ q.tx[r.bytes] = "ok"
    /\ r.state = "confirmed" => r.digest # 0 /\ q.tx[r.digest] = "ok"
    /\ r.registered => q.currency = "registered"
    /\ r.imageTx <= Len(q.icons)
    /\ r.imageTx # 0 => q.icons[r.imageTx] = r.image

\* What a request has in hand
CallOK(x, j) ==
    /\ x \in Calls
    /\ x.op \in CoinOps => x.key \in Coins
    /\ x.op = "parcel" => x.key \in Parcels
    /\ x.op = "payout" => x.key \in Payouts
    /\ x.op = "submission" => x.tx # 0 /\ x.tx = j[x.key].bytes

Pays(c) == call[c].op = "payout"

PayoutsOK ==
    /\ sent \in [Payouts -> Nat]
    /\ payouts \in [Payouts -> {"none", "accepted", "confirmed", "failed"}]
    /\ \A t \in Payouts : sent[t] <= 1 /\ (payouts[t] = "none" => sent[t] = 0)
    /\ \A c \in Callers :
          Pays(c) => /\ payouts[call[c].key] # "none"
                     /\ call[c].done \/ sent[call[c].key] = 0
    /\ \A c, d \in Callers : c # d /\ Pays(c) /\ Pays(d) => call[c].key # call[d].key

ServiceInv ==
    /\ journal \in [Coins -> Rows] /\ chain \in [Coins -> CoinsOnChain]
    /\ call \in [Callers -> Calls] /\ parcels \in [Parcels -> ParcelRows]
    /\ \A k \in Coins : CoinOK(journal[k], chain[k])
    /\ \A c \in Callers : CallOK(call[c], journal)
    /\ PayoutsOK

\* A step from a row and a coin to others
Grows(r0, q0, r, q) ==
    /\ r0.bytes # 0 => r.bytes = r0.bytes
    /\ \A n \in 1..MaxSigned : q0.tx[n] = "ok" => q.tx[n] = "ok"
    /\ q0.currency = "registered" => q.currency = "registered"

Keeps ==
    /\ \A k \in Coins : Grows(journal[k], chain[k], journal'[k], chain'[k])
    /\ \A d \in Parcels : parcels[d].bytes # 0 => parcels'[d].bytes = parcels[d].bytes

-----------------------------------------------------------------------------
(* Steps in general.                                                       *)

LEMMA GrowsItself == \A r, q : Grows(r, q, r, q)
BY DEF Grows

\* No request takes up a payout, and no payout is made.
PayoutsKept ==
    /\ UNCHANGED <<payouts, sent>>
    /\ \A c \in Callers : call'[c].op = "payout" => call'[c] = call[c]

LEMMA PayoutsStay ==
    ASSUME ServiceInv, PayoutsKept
    PROVE  PayoutsOK'
BY DEF ServiceInv, PayoutsKept, PayoutsOK, Pays

\* One coin changes, and the requests go on in an order that its row allows.
LEMMA CoinStep ==
    ASSUME ServiceInv, NEW k \in Coins, NEW r, NEW q,
           CoinOK(r, q), Grows(journal[k], chain[k], r, q),
           journal' = [journal EXCEPT ![k] = r], chain' = [chain EXCEPT ![k] = q],
           call' \in [Callers -> Calls],
           \A c \in Callers : call'[c] = call[c] \/ CallOK(call'[c], journal'),
           PayoutsKept, parcels' = parcels
    PROVE  ServiceInv' /\ Keeps
<1>1. r \in Rows /\ q \in CoinsOnChain
  BY DEF CoinOK
<1>2. /\ journal' \in [Coins -> Rows] /\ chain' \in [Coins -> CoinsOnChain]
      /\ journal'[k] = r /\ chain'[k] = q
      /\ \A j \in Coins : j # k => journal'[j] = journal[j] /\ chain'[j] = chain[j]
  BY <1>1 DEF ServiceInv
<1>3. \A j \in Coins : CoinOK(journal'[j], chain'[j])
  BY <1>2 DEF ServiceInv
<1>4. \A j \in Coins : Grows(journal[j], chain[j], journal'[j], chain'[j])
  BY <1>2, GrowsItself
<1>5. ASSUME NEW c \in Callers PROVE CallOK(call'[c], journal')
  <2>1. CASE call'[c] = call[c]
    <3>1. CallOK(call[c], journal)
      BY DEF ServiceInv
    <3>2. call[c].op = "submission" =>
             /\ call[c].tx = journal[call[c].key].bytes
             /\ journal[call[c].key].bytes # 0 /\ call[c].key \in Coins
      BY <3>1 DEF CallOK, CoinOps
    <3>3. call[c].op = "submission" => journal'[call[c].key].bytes = call[c].tx
      BY <1>4, <3>2 DEF Grows
    <3> QED
      BY <2>1, <3>1, <3>3 DEF CallOK
  <2>2. CASE CallOK(call'[c], journal')
    BY <2>2
  <2> QED
    BY <2>1, <2>2
<1>6. PayoutsOK'
  BY PayoutsStay
<1>7. ServiceInv'
  BY <1>2, <1>3, <1>5, <1>6, CoinOK(r, q) DEF ServiceInv
<1> QED
  BY <1>4, <1>7 DEF Keeps

\* Only the requests change, and perhaps deliveries.
LEMMA CallStep ==
    ASSUME ServiceInv, UNCHANGED <<journal, chain>>,
           call' \in [Callers -> Calls],
           \A c \in Callers : call'[c] = call[c] \/ CallOK(call'[c], journal),
           PayoutsOK', parcels' \in [Parcels -> ParcelRows],
           \A d \in Parcels : parcels[d].bytes # 0 => parcels'[d].bytes = parcels[d].bytes
    PROVE  ServiceInv' /\ Keeps
<1>1. \A c \in Callers : CallOK(call'[c], journal)
  BY DEF ServiceInv
<1>2. ServiceInv'
  BY <1>1 DEF ServiceInv, CoinOK, CallOK
<1> QED
  BY <1>2, GrowsItself DEF Keeps

LEMMA IdleCall ==
    /\ Idle \in Calls /\ Idle.op = "none"
    /\ \A j : CallOK(Idle, j)
BY DEF Idle, Calls, CallOK, CoinOps, Keys, Images

LEMMA ReturnsIs ==
    ASSUME ServiceInv, NEW c \in Callers, Returns(c)
    PROVE  /\ call' \in [Callers -> Calls]
           /\ \A j : \A d \in Callers : call'[d] = call[d] \/ CallOK(call'[d], j)
           /\ UNCHANGED <<payouts, sent>> => PayoutsKept
<1>1. call \in [Callers -> Calls] /\ call' = [call EXCEPT ![c] = Idle]
  BY DEF ServiceInv, Returns
<1>2. /\ call' \in [Callers -> Calls]
      /\ \A d \in Callers : call'[d] = call[d] \/ call'[d] = Idle
  BY <1>1, IdleCall
<1> QED
  BY <1>2, IdleCall DEF PayoutsKept

LEMMA AwaitsIs ==
    ASSUME ServiceInv, NEW c \in Callers, NEW x \in Calls, x.op # "payout",
           call' = [call EXCEPT ![c] = x]
    PROVE  /\ call' \in [Callers -> Calls]
           /\ \A d \in Callers : call'[d] = call[d] \/ call'[d] = x
           /\ UNCHANGED <<payouts, sent>> => PayoutsKept
<1>1. call \in [Callers -> Calls]
  BY DEF ServiceInv
<1>2. /\ call' \in [Callers -> Calls]
      /\ \A d \in Callers : call'[d] = call[d] \/ call'[d] = x
  BY <1>1
<1> QED
  BY <1>2 DEF PayoutsKept

LEMMA RowOf ==
    ASSUME ServiceInv, NEW k \in Coins
    PROVE  /\ CoinOK(journal[k], chain[k])
           /\ journal[k] \in Rows /\ chain[k] \in CoinsOnChain
           /\ journal \in [Coins -> Rows] /\ chain \in [Coins -> CoinsOnChain]
           /\ [journal EXCEPT ![k] = journal[k]] = journal
           /\ [chain EXCEPT ![k] = chain[k]] = chain
BY DEF ServiceInv

\* The row changes, and the chain does not.
LEMMA RowStep ==
    ASSUME ServiceInv, NEW k \in Coins, NEW r, CoinOK(r, chain[k]),
           journal[k].bytes # 0 => r.bytes = journal[k].bytes,
           journal' = [journal EXCEPT ![k] = r], UNCHANGED <<parcels, payouts, chain, sent>>,
           \/ call' = call
           \/ \E c \in Callers : Returns(c)
           \/ \E c \in Callers, x \in Calls :
                 /\ call' = [call EXCEPT ![c] = x]
                 /\ x.op = "publication" /\ x.key \in Coins
    PROVE  ServiceInv' /\ Keeps
<1>1. Grows(journal[k], chain[k], r, chain[k])
  BY DEF Grows
<1>2. chain' = [chain EXCEPT ![k] = chain[k]]
  BY RowOf
<1>3. /\ call' \in [Callers -> Calls] /\ PayoutsKept
      /\ \A c \in Callers : call'[c] = call[c] \/ CallOK(call'[c], journal')
  <2>1. CASE call' = call
    BY <2>1 DEF ServiceInv, PayoutsKept
  <2>2. CASE \E c \in Callers : Returns(c)
    BY <2>2, ReturnsIs
  <2>3. ASSUME NEW c \in Callers, NEW x \in Calls, call' = [call EXCEPT ![c] = x],
               x.op = "publication", x.key \in Coins
        PROVE  /\ call' \in [Callers -> Calls] /\ PayoutsKept
               /\ \A d \in Callers : call'[d] = call[d] \/ CallOK(call'[d], journal')
    <3>1. CallOK(x, journal')
      BY <2>3 DEF CallOK
    <3> QED
      BY <2>3, <3>1, AwaitsIs
  <2> QED
    BY <2>1, <2>2, <2>3
<1> QED
  BY <1>1, <1>2, <1>3, CoinStep

-----------------------------------------------------------------------------
(* The journal of publications.                                            *)

\* A row that was not confirmed and is not now, with what the chain has told it
\* left as it was
LEMMA RestatedOK ==
    ASSUME ServiceInv, NEW k \in Coins, NEW r \in Rows, r.state # "confirmed",
           r.bytes = journal[k].bytes, r.registered = journal[k].registered,
           r.imageTx = journal[k].imageTx, r.image = journal[k].image
    PROVE  CoinOK(r, chain[k])
BY RowOf DEF CoinOK

LEMMA AcceptPublicationStep ==
    ASSUME ServiceInv, NEW k \in Coins, AcceptPublication(k)
    PROVE  ServiceInv' /\ Keeps
<1> DEFINE r == [journal[k] EXCEPT !.state = "accepted"]
<1>1. /\ r \in Rows /\ r.state = "accepted" /\ r.bytes = journal[k].bytes
      /\ r.registered = journal[k].registered
      /\ r.imageTx = journal[k].imageTx /\ r.image = journal[k].image
  BY RowOf DEF Rows
<1>2. journal' = [journal EXCEPT ![k] = r] /\ call' = call
      /\ UNCHANGED <<parcels, payouts, chain, sent>>
  BY RowOf DEF AcceptPublication, OnlyJournal
<1> HIDE DEF r
<1> QED
  BY <1>1, <1>2, RestatedOK, RowStep

LEMMA ClaimPublicationStep ==
    ASSUME ServiceInv, NEW c \in Callers, NEW k \in Coins, ClaimPublication(c, k)
    PROVE  ServiceInv' /\ Keeps
<1> DEFINE r == [journal[k] EXCEPT !.state = "preparing"]
           x == [Idle EXCEPT !.op = "publication", !.key = k, !.tx = 0]
<1>1. /\ r \in Rows /\ r.state = "preparing" /\ r.bytes = journal[k].bytes
      /\ r.registered = journal[k].registered
      /\ r.imageTx = journal[k].imageTx /\ r.image = journal[k].image
  BY RowOf DEF Rows
<1>2. x \in Calls /\ x.op = "publication" /\ x.key = k
  BY IdleCall DEF Calls, CoinOps, Keys
<1>3. journal' = [journal EXCEPT ![k] = r] /\ call' = [call EXCEPT ![c] = x]
      /\ UNCHANGED <<parcels, payouts, chain, sent>>
  BY RowOf DEF ClaimPublication, OnlyJournal, Awaits
<1> HIDE DEF r, x
<1> QED
  BY <1>1, <1>2, <1>3, RestatedOK, RowStep

LEMMA CallOf ==
    ASSUME ServiceInv, NEW c \in Callers
    PROVE  CallOK(call[c], journal) /\ call[c] \in Calls /\ call \in [Callers -> Calls]
BY DEF ServiceInv

\* A row without bytes has nothing on the chain.
LEMMA NothingSent ==
    ASSUME ServiceInv, NEW k \in Coins, journal[k].bytes = 0
    PROVE  /\ \A n \in 1..MaxSigned : chain[k].tx[n] = "none"
           /\ chain[k].currency = "none" /\ ~ journal[k].registered
BY RowOf DEF CoinOK, Rows

LEMMA SavePublicationStep ==
    ASSUME ServiceInv, NEW c \in Callers, SavePublication(c)
    PROVE  ServiceInv' /\ Keeps
<1> DEFINE k == call[c].key
           n == chain[k].signed + 1
           r == [journal[k] EXCEPT !.state = "prepared", !.bytes = n]
           q == [chain[k] EXCEPT !.signed = n]
<1>1. k \in Coins
  BY CallOf DEF CallOK, CoinOps, SavePublication, At
<1>2. n \in 1..MaxSigned
  <2>1. chain[k].signed \in 0..MaxSigned /\ n <= MaxSigned
    BY <1>1, RowOf DEF CoinsOnChain, SavePublication
  <2> QED
    BY <2>1, ServiceAssumption
<1>3. Returns(c) /\ UNCHANGED <<parcels, payouts, sent>>
  BY DEF SavePublication
<1>4. /\ call' \in [Callers -> Calls] /\ PayoutsKept
      /\ \A d \in Callers : call'[d] = call[d] \/ CallOK(call'[d], journal')
  BY <1>3, ReturnsIs
<1> HIDE DEF k, n
<1>5. CASE UNCHANGED <<journal, chain>>
  <2>1. \A d \in Callers : call'[d] = call[d] \/ CallOK(call'[d], journal)
    BY <1>3, ReturnsIs
  <2>2. parcels' \in [Parcels -> ParcelRows]
    BY <1>3 DEF ServiceInv
  <2> QED
    BY <1>3, <1>4, <1>5, <2>1, <2>2, PayoutsStay, CallStep
<1>6. CASE /\ Unsigned(journal[k])
           /\ journal' = [journal EXCEPT ![k].state = "prepared", ![k].bytes = n]
           /\ chain' = [chain EXCEPT ![k].signed = n]
  <2>1. journal[k].bytes = 0
    BY <1>6 DEF Unsigned
  <2>2. /\ n \in 0..MaxSigned /\ journal[k] \in Rows /\ chain[k] \in CoinsOnChain
    BY <1>1, <1>2, RowOf
  <2>3. /\ r \in Rows /\ r.state = "prepared" /\ r.bytes = n
        /\ r.registered = journal[k].registered
        /\ r.imageTx = journal[k].imageTx /\ r.image = journal[k].image
    BY <2>2 DEF Rows
  <2>4. /\ q \in CoinsOnChain /\ q.tx = chain[k].tx /\ q.currency = chain[k].currency
        /\ q.icons = chain[k].icons
    BY <2>2 DEF CoinsOnChain
  <2>5. journal' = [journal EXCEPT ![k] = r] /\ chain' = [chain EXCEPT ![k] = q]
    BY <1>1, <1>6, RowOf
  <2> HIDE DEF r, q
  <2>6. CoinOK(r, q)
    BY <1>1, <2>1, <2>3, <2>4, NothingSent, RowOf DEF CoinOK
  <2>7. Grows(journal[k], chain[k], r, q)
    BY <2>1, <2>4 DEF Grows
  <2> QED
    BY <1>1, <1>3, <1>4, <2>5, <2>6, <2>7, CoinStep
<1> QED
  BY <1>5, <1>6 DEF SavePublication, k, n

LEMMA SubmitPublicationStep ==
    ASSUME ServiceInv, NEW c \in Callers, NEW k \in Coins, SubmitPublication(c, k)
    PROVE  ServiceInv' /\ Keeps
<1> DEFINE x == [Idle EXCEPT !.op = "submission", !.key = k, !.tx = journal[k].bytes]
<1>1. journal[k].bytes \in Nat /\ journal[k].bytes # 0
  BY RowOf DEF Rows, SubmitPublication
<1>2. /\ x \in Calls /\ x.op = "submission" /\ x.key = k /\ x.tx = journal[k].bytes
  BY <1>1, IdleCall DEF Calls, CoinOps, Keys
<1>3. /\ call' = [call EXCEPT ![c] = x]
      /\ UNCHANGED <<journal, parcels, payouts, chain, sent>>
  BY DEF SubmitPublication, Awaits, OnlyJournal
<1> HIDE DEF x
<1>4. CallOK(x, journal)
  BY <1>1, <1>2 DEF CallOK
<1>5. parcels' \in [Parcels -> ParcelRows]
  BY <1>3 DEF ServiceInv
<1>6. /\ call' \in [Callers -> Calls] /\ PayoutsKept
      /\ \A d \in Callers : call'[d] = call[d] \/ call'[d] = x
  BY <1>2, <1>3, AwaitsIs
<1> QED
  BY <1>3, <1>4, <1>5, <1>6, PayoutsStay, CallStep

\* A request sends what its row has: nothing else is ever executed for a coin.
LEMMA PublishesStep ==
    ASSUME ServiceInv, NEW c \in Callers, Publishes(c)
    PROVE  ServiceInv' /\ Keeps
<1> DEFINE k == call[c].key
           n == Sends(c)
           x == [call[c] EXCEPT !.done = TRUE, !.tx = n]
<1>1. call[c].op = "submission" /\ CallOK(call[c], journal) /\ call[c] \in Calls
  BY CallOf DEF Publishes, At
<1>2. k \in Coins /\ n \in 1..MaxSigned /\ n = journal[k].bytes /\ n # 0
  <2>1. k \in Coins /\ n = journal[k].bytes /\ n # 0
    BY <1>1 DEF CallOK, CoinOps, Sends
  <2> QED
    BY <2>1, RowOf DEF Rows
<1>3. /\ x \in Calls /\ x.op = "submission" /\ x.key = k /\ x.tx = n
  <2>1. n \in Nat
    BY <1>2
  <2> HIDE DEF n
  <2> QED
    BY <1>1, <2>1 DEF Calls
<1>4. call' = [call EXCEPT ![c] = x]
  BY CallOf DEF Publishes
<1>5. UNCHANGED <<journal, parcels, payouts, sent>>
  BY DEF Publishes, OnlyChain
<1>6. CallOK(x, journal) /\ CallOK(x, journal')
  BY <1>1, <1>2, <1>3, <1>5 DEF CallOK, Sends
<1>7. parcels' \in [Parcels -> ParcelRows]
  BY <1>5 DEF ServiceInv
<1> HIDE DEF k, n, x
<1>8. /\ call' \in [Callers -> Calls] /\ PayoutsKept
      /\ \A d \in Callers : call'[d] = call[d] \/ call'[d] = x
  BY <1>3, <1>4, <1>5, AwaitsIs
<1>9. CASE UNCHANGED chain
  BY <1>5, <1>6, <1>7, <1>8, <1>9, PayoutsStay, CallStep
<1>10. ASSUME NEW q, q \in CoinsOnChain, chain' = [chain EXCEPT ![k] = q],
              chain[k].tx[n] = "none",
              \/ q.tx[n] = "ok" /\ q.currency = "published"
              \/ q.tx[n] = "failed" /\ q.currency = chain[k].currency,
              q.icons = chain[k].icons,
              \A m \in 1..MaxSigned : m # n => q.tx[m] = chain[k].tx[m]
       PROVE  ServiceInv' /\ Keeps
  <2>1. CoinOK(journal[k], chain[k]) /\ journal[k] \in Rows
    BY <1>2, RowOf
  <2>2. chain[k].currency = "none" /\ ~ journal[k].registered
    BY <1>2, <1>10, <2>1 DEF CoinOK
  <2>3. \A m \in 1..MaxSigned : chain[k].tx[m] = "none"
    BY <1>2, <1>10, <2>1 DEF CoinOK
  <2>4. journal[k].state # "confirmed"
    BY <2>1, <2>3 DEF CoinOK, Rows
  <2>5. CoinOK(journal[k], q)
    BY <1>2, <1>10, <2>1, <2>2, <2>3, <2>4 DEF CoinOK
  <2>6. Grows(journal[k], chain[k], journal[k], q)
    BY <2>2, <2>3 DEF Grows
  <2>7. journal' = [journal EXCEPT ![k] = journal[k]]
    BY <1>2, <1>5, RowOf
  <2> QED
    BY <1>2, <1>5, <1>6, <1>8, <1>10, <2>5, <2>6, <2>7, CoinStep
<1>11. CASE /\ chain[k].tx[n] = "none"
            /\ chain' = [chain EXCEPT ![k].tx[n] = "ok", ![k].currency = "published",
                                      ![k].signed = IF n > @ THEN n ELSE @]
  <2> DEFINE t == [chain[k].tx EXCEPT ![n] = "ok"]
             z == IF n > chain[k].signed THEN n ELSE chain[k].signed
             q == [chain[k] EXCEPT !.tx = t, !.currency = "published", !.signed = z]
  <2>1. /\ t \in [1..MaxSigned -> {"none", "ok", "failed", "stale"}] /\ t[n] = "ok"
        /\ \A m \in 1..MaxSigned : m # n => t[m] = chain[k].tx[m]
    BY <1>2, RowOf DEF CoinsOnChain
  <2>2. z \in 0..MaxSigned
    BY <1>2, RowOf DEF CoinsOnChain
  <2>3. chain' = [chain EXCEPT ![k] = q]
    BY <1>2, <1>11, RowOf DEF CoinsOnChain
  <2> HIDE DEF t, z
  <2>4. chain[k] \in CoinsOnChain
    BY <1>2, RowOf
  <2>5. q \in CoinsOnChain /\ q.tx = t /\ q.currency = "published" /\ q.icons = chain[k].icons
    BY <2>1, <2>2, <2>4 DEF CoinsOnChain
  <2> HIDE DEF q
  <2> QED
    BY <1>10, <1>11, <2>1, <2>3, <2>5
<1>12. CASE chain[k].tx[n] = "none" /\ chain' = [chain EXCEPT ![k].tx[n] = "failed"]
  <2> DEFINE t == [chain[k].tx EXCEPT ![n] = "failed"]
             q == [chain[k] EXCEPT !.tx = t]
  <2>1. /\ t \in [1..MaxSigned -> {"none", "ok", "failed", "stale"}] /\ t[n] = "failed"
        /\ \A m \in 1..MaxSigned : m # n => t[m] = chain[k].tx[m]
    BY <1>2, RowOf DEF CoinsOnChain
  <2>3. chain' = [chain EXCEPT ![k] = q]
    BY <1>2, <1>12, RowOf DEF CoinsOnChain
  <2> HIDE DEF t
  <2>4. q \in CoinsOnChain /\ q.tx = t /\ q.currency = chain[k].currency
        /\ q.icons = chain[k].icons
    <3>1. chain[k] \in CoinsOnChain
      BY <1>2, RowOf
    <3> QED
      BY <2>1, <3>1 DEF CoinsOnChain
  <2> HIDE DEF q
  <2> QED
    BY <1>10, <1>12, <2>1, <2>3, <2>4
<1> QED
  BY <1>9, <1>11, <1>12 DEF Publishes, k, n

LEMMA GasIsSpentStep ==
    ASSUME ServiceInv, NEW k \in Coins, GasIsSpent(k)
    PROVE  ServiceInv' /\ Keeps
<1> DEFINE n == journal[k].bytes
           t == [chain[k].tx EXCEPT ![n] = "stale"]
           q == [chain[k] EXCEPT !.tx = t]
<1>1. CoinOK(journal[k], chain[k]) /\ journal[k] \in Rows /\ chain[k] \in CoinsOnChain
  BY RowOf
<1>2. n \in 1..MaxSigned /\ chain[k].tx[n] = "none"
  BY <1>1 DEF Rows, GasIsSpent
<1>3. UNCHANGED <<journal, parcels, payouts, sent, call>>
  BY DEF GasIsSpent, OnlyChain
<1>4. chain' = [chain EXCEPT ![k] = q]
  BY <1>1, RowOf DEF GasIsSpent, CoinsOnChain
<1>5. /\ t \in [1..MaxSigned -> {"none", "ok", "failed", "stale"}] /\ t[n] = "stale"
      /\ \A m \in 1..MaxSigned : m # n => t[m] = chain[k].tx[m]
  BY <1>1, <1>2 DEF CoinsOnChain
<1> HIDE DEF t
<1>6. q \in CoinsOnChain /\ q.tx = t /\ q.currency = chain[k].currency
      /\ q.icons = chain[k].icons
  BY <1>1, <1>5 DEF CoinsOnChain
<1> HIDE DEF q
<1>7. \A m \in 1..MaxSigned : chain[k].tx[m] = "none"
  BY <1>1, <1>2 DEF CoinOK
<1>8. CoinOK(journal[k], q)
  <2>1. journal[k].state # "confirmed" /\ chain[k].currency = "none"
    BY <1>1, <1>7, <1>2 DEF CoinOK, Rows
  <2> QED
    BY <1>1, <1>2, <1>5, <1>6, <1>7, <2>1 DEF CoinOK
<1>9. Grows(journal[k], chain[k], journal[k], q)
  BY <1>6, <1>7 DEF Grows
<1>10. journal' = [journal EXCEPT ![k] = journal[k]]
  BY <1>3, RowOf
<1>11. call' \in [Callers -> Calls] /\ PayoutsKept
  BY <1>3 DEF ServiceInv, PayoutsKept
<1> QED
  BY <1>3, <1>4, <1>8, <1>9, <1>10, <1>11, CoinStep

LEMMA SaveSubmissionStep ==
    ASSUME ServiceInv, NEW c \in Callers, SaveSubmission(c)
    PROVE  ServiceInv' /\ Keeps
<1> DEFINE k == call[c].key
           n == call[c].tx
           s == IF chain[k].tx[n] = "ok" THEN "submitted" ELSE "failed"
           r == IF journal[k].digest = 0
                THEN [journal[k] EXCEPT !.state = s, !.digest = n] ELSE journal[k]
<1>1. k \in Coins /\ n = journal[k].bytes
  BY CallOf DEF CallOK, CoinOps, SaveSubmission, At
<1>2. Returns(c) /\ UNCHANGED <<parcels, payouts, chain, sent>>
  BY DEF SaveSubmission, OnlyJournal
<1>3. journal[k] \in Rows /\ n \in 0..MaxSigned
  BY <1>1, RowOf DEF Rows
<1>4. s \in {"submitted", "failed"}
  OBVIOUS
<1>5. journal' = [journal EXCEPT ![k] = r]
  BY <1>1, RowOf DEF SaveSubmission
<1> HIDE DEF k, n, s
<1>6. CASE journal[k].digest = 0
  <2>1. /\ r \in Rows /\ r.state # "confirmed" /\ r.bytes = journal[k].bytes
        /\ r.registered = journal[k].registered
        /\ r.imageTx = journal[k].imageTx /\ r.image = journal[k].image
    BY <1>3, <1>4, <1>6 DEF Rows
  <2> HIDE DEF r
  <2> QED
    BY <1>1, <1>2, <1>5, <2>1, RestatedOK, RowStep
<1>7. CASE journal[k].digest # 0
  <2>1. r = journal[k]
    BY <1>7
  <2> HIDE DEF r
  <2>2. CoinOK(r, chain[k])
    BY <1>1, <2>1, RowOf
  <2> QED
    BY <1>1, <1>2, <1>5, <2>1, <2>2, RowStep
<1> QED
  BY <1>6, <1>7

\* Whoever confirms a row has seen its transaction succeed.
LEMMA ConfirmedStep ==
    ASSUME ServiceInv, NEW k \in Coins, NEW n \in 0..MaxSigned, Succeeded(k, n),
           journal' = [journal EXCEPT ![k] = Confirmed(journal[k], n)],
           UNCHANGED <<parcels, payouts, chain, sent, call>>
    PROVE  ServiceInv' /\ Keeps
<1> DEFINE r == Confirmed(journal[k], n)
<1>1. journal[k] \in Rows /\ CoinOK(journal[k], chain[k])
  BY RowOf
<1>2. /\ r \in Rows /\ r.bytes = journal[k].bytes /\ r.digest = n
      /\ r.registered = journal[k].registered
      /\ r.imageTx = journal[k].imageTx /\ r.image = journal[k].image
  BY <1>1 DEF Rows, Confirmed
<1> HIDE DEF r
<1>3. CoinOK(r, chain[k])
  BY <1>1, <1>2 DEF CoinOK, Succeeded
<1> QED
  BY <1>2, <1>3, RowStep DEF r

LEMMA ReconcilePublicationStep ==
    ASSUME ServiceInv, NEW k \in Coins, ReconcilePublication(k)
    PROVE  ServiceInv' /\ Keeps
<1>1. journal[k].digest \in 0..MaxSigned
  BY RowOf DEF Rows
<1>2. /\ Succeeded(k, journal[k].digest)
      /\ journal' = [journal EXCEPT ![k] = Confirmed(journal[k], journal[k].digest)]
      /\ UNCHANGED <<parcels, payouts, chain, sent, call>>
  BY RowOf DEF ReconcilePublication, OnlyJournal
<1> QED
  BY <1>1, <1>2, ConfirmedStep

LEMMA RecoverPublicationStep ==
    ASSUME ServiceInv, NEW k \in Coins, RecoverPublication(k)
    PROVE  ServiceInv' /\ Keeps
<1>1. PICK n \in 1..MaxSigned :
         /\ Succeeded(k, n)
         /\ journal' = [journal EXCEPT ![k] = Confirmed(journal[k], n)]
  BY RowOf DEF RecoverPublication
<1>2. UNCHANGED <<parcels, payouts, chain, sent, call>> /\ n \in 0..MaxSigned
  BY DEF RecoverPublication, OnlyJournal
<1> QED
  BY <1>1, <1>2, ConfirmedStep

\* A request that has nothing to send takes up its work.
LEMMA AskStep ==
    ASSUME ServiceInv, NEW c \in Callers, NEW x \in Calls,
           x.op \in CoinOps \ {"submission"}, x.key \in Coins,
           call' = [call EXCEPT ![c] = x],
           UNCHANGED <<journal, parcels, payouts, chain, sent>>
    PROVE  ServiceInv' /\ Keeps
<1>1. CallOK(x, journal) /\ x.op # "payout"
  BY DEF CallOK, CoinOps
<1>2. parcels' \in [Parcels -> ParcelRows]
  BY DEF ServiceInv
<1>3. /\ call' \in [Callers -> Calls] /\ PayoutsKept
      /\ \A d \in Callers : call'[d] = call[d] \/ call'[d] = x
  BY <1>1, AwaitsIs
<1> QED
  BY <1>1, <1>2, <1>3, PayoutsStay, CallStep

LEMMA RegisterCurrencyStep ==
    ASSUME ServiceInv, NEW c \in Callers, NEW k \in Coins, RegisterCurrency(c, k)
    PROVE  ServiceInv' /\ Keeps
<1> DEFINE x == [Idle EXCEPT !.op = "registration", !.key = k, !.tx = 0]
<1>1. x \in Calls /\ x.op = "registration" /\ x.key = k
  BY IdleCall DEF Calls, CoinOps, Keys
<1>2. /\ call' = [call EXCEPT ![c] = x]
      /\ UNCHANGED <<journal, parcels, payouts, chain, sent>>
  BY DEF RegisterCurrency, Awaits, OnlyJournal
<1> HIDE DEF x
<1> QED
  BY <1>1, <1>2, AskStep DEF CoinOps

LEMMA FinalizesRegistrationStep ==
    ASSUME ServiceInv, NEW c \in Callers, FinalizesRegistration(c)
    PROVE  ServiceInv' /\ Keeps
<1> DEFINE k == call[c].key
           x == [call[c] EXCEPT !.done = TRUE]
           q == [chain[k] EXCEPT !.currency = "registered"]
<1>1. call[c] \in Calls /\ call[c].op = "registration" /\ k \in Coins
  BY CallOf DEF CallOK, CoinOps, FinalizesRegistration, At
<1>2. x \in Calls /\ x.op = "registration" /\ x.key \in Coins
  BY <1>1 DEF Calls
<1>3. call' = [call EXCEPT ![c] = x]
  BY <1>1, CallOf DEF FinalizesRegistration, Executed
<1>4. chain[k].currency = "published" /\ UNCHANGED <<journal, parcels, payouts, sent>>
  BY DEF FinalizesRegistration, OnlyChain
<1>5. chain' = [chain EXCEPT ![k] = q]
  BY <1>1, RowOf DEF FinalizesRegistration
<1> HIDE DEF k, x
<1>6. chain[k] \in CoinsOnChain /\ CoinOK(journal[k], chain[k])
  BY <1>1, RowOf
<1>7. q \in CoinsOnChain /\ q.tx = chain[k].tx /\ q.currency = "registered"
      /\ q.icons = chain[k].icons
  BY <1>6 DEF CoinsOnChain
<1> HIDE DEF q
<1>8. CoinOK(journal[k], q)
  BY <1>4, <1>6, <1>7 DEF CoinOK
<1>9. Grows(journal[k], chain[k], journal[k], q)
  BY <1>7 DEF Grows
<1>10. journal' = [journal EXCEPT ![k] = journal[k]]
  BY <1>1, <1>4, RowOf
<1>11. CallOK(x, journal')
  BY <1>2 DEF CallOK, CoinOps
<1>12. /\ call' \in [Callers -> Calls] /\ PayoutsKept
       /\ \A d \in Callers : call'[d] = call[d] \/ call'[d] = x
  BY <1>2, <1>3, <1>4, AwaitsIs
<1> QED
  BY <1>1, <1>4, <1>5, <1>8, <1>9, <1>10, <1>11, <1>12, CoinStep

\* What the chain has told the row stays, or more of it is learned.
LEMMA LearnedOK ==
    ASSUME ServiceInv, NEW k \in Coins, NEW r \in Rows,
           r.state = journal[k].state, r.digest = journal[k].digest,
           r.bytes = journal[k].bytes,
           r.registered = journal[k].registered \/ chain[k].currency = "registered",
           \/ r.imageTx = journal[k].imageTx /\ r.image = journal[k].image
           \/ /\ r.imageTx <= Len(chain[k].icons)
              /\ r.imageTx # 0 => chain[k].icons[r.imageTx] = r.image
    PROVE  CoinOK(r, chain[k])
BY RowOf DEF CoinOK

LEMMA RegisteredStep ==
    ASSUME ServiceInv, NEW k \in Coins, Registered(k), CurrencyRegistered(k),
           UNCHANGED <<parcels, payouts, chain, sent>>,
           call' = call \/ \E c \in Callers : Returns(c)
    PROVE  ServiceInv' /\ Keeps
<1> DEFINE r == [journal[k] EXCEPT !.registered = TRUE]
<1>1. journal' = [journal EXCEPT ![k] = r]
  BY RowOf DEF Registered
<1>2. /\ r \in Rows /\ r.state = journal[k].state /\ r.digest = journal[k].digest
      /\ r.bytes = journal[k].bytes
      /\ r.imageTx = journal[k].imageTx /\ r.image = journal[k].image
  BY RowOf DEF Rows
<1>3. chain[k].currency = "registered"
  BY DEF CurrencyRegistered
<1> HIDE DEF r
<1>4. CoinOK(r, chain[k])
  BY <1>2, <1>3, LearnedOK
<1> QED
  BY <1>1, <1>2, <1>4, RowStep

LEMMA RecoverMetadataCapStep ==
    ASSUME ServiceInv, NEW k \in Coins, RecoverMetadataCap(k)
    PROVE  ServiceInv' /\ Keeps
<1> DEFINE r == [journal[k] EXCEPT !.cap = TRUE]
<1>1. journal' = [journal EXCEPT ![k] = r] /\ UNCHANGED <<parcels, payouts, chain, sent, call>>
  BY RowOf DEF RecoverMetadataCap, OnlyJournal
<1>2. /\ r \in Rows /\ r.state = journal[k].state /\ r.digest = journal[k].digest
      /\ r.bytes = journal[k].bytes /\ r.registered = journal[k].registered
      /\ r.imageTx = journal[k].imageTx /\ r.image = journal[k].image
  BY RowOf DEF Rows
<1> HIDE DEF r
<1>3. CoinOK(r, chain[k])
  BY <1>2, LearnedOK
<1> QED
  BY <1>1, <1>2, <1>3, RowStep

-----------------------------------------------------------------------------
(* Images.                                                                 *)

LEMMA PrepareImageStep ==
    ASSUME ServiceInv, NEW c \in Callers, NEW k \in Coins, NEW u \in Urls,
           PrepareImage(c, k, u)
    PROVE  ServiceInv' /\ Keeps
<1> DEFINE x == [Idle EXCEPT !.op = "image", !.key = k, !.url = u]
<1>1. x \in Calls /\ x.op = "image" /\ x.key = k
  BY IdleCall DEF Calls, CoinOps, Keys, Images
<1>2. /\ call' = [call EXCEPT ![c] = x]
      /\ UNCHANGED <<journal, parcels, payouts, chain, sent>>
  BY DEF PrepareImage, OnlyJournal
<1> HIDE DEF x
<1> QED
  BY <1>1, <1>2, AskStep DEF CoinOps

LEMMA SaveImageStep ==
    ASSUME ServiceInv, NEW c \in Callers, SaveImage(c)
    PROVE  ServiceInv' /\ Keeps
<1> DEFINE k == call[c].key
           u == call[c].url
           r == [journal[k] EXCEPT !.pending = u, !.ready = TRUE]
<1>1. k \in Coins /\ u \in Images
  BY CallOf DEF CallOK, CoinOps, Calls, SaveImage, At
<1>2. Returns(c) /\ UNCHANGED <<parcels, payouts, chain, sent>>
  BY DEF SaveImage, OnlyJournal
<1>3. journal' = [journal EXCEPT ![k] = r]
  BY <1>1, RowOf DEF SaveImage
<1> HIDE DEF k, u
<1>4. journal[k] \in Rows
  BY <1>1, RowOf
<1>5. /\ r \in Rows /\ r.state = journal[k].state /\ r.digest = journal[k].digest
      /\ r.bytes = journal[k].bytes /\ r.registered = journal[k].registered
      /\ r.imageTx = journal[k].imageTx /\ r.image = journal[k].image
  BY <1>1, <1>4 DEF Rows
<1> HIDE DEF r
<1>6. CoinOK(r, chain[k])
  BY <1>1, <1>5, LearnedOK
<1> QED
  BY <1>1, <1>2, <1>3, <1>5, <1>6, RowStep

LEMMA OwnerSetsIconStep ==
    ASSUME ServiceInv, NEW k \in Coins, OwnerSetsIcon(k)
    PROVE  ServiceInv' /\ Keeps
<1> DEFINE i == Append(chain[k].icons, journal[k].pending)
           q == [chain[k] EXCEPT !.icons = i]
<1>1. CoinOK(journal[k], chain[k]) /\ journal[k] \in Rows /\ chain[k] \in CoinsOnChain
  BY RowOf
<1>2. UNCHANGED <<journal, parcels, payouts, sent, call>>
  BY DEF OwnerSetsIcon, OnlyChain
<1>3. chain' = [chain EXCEPT ![k] = q]
  BY RowOf DEF OwnerSetsIcon
<1>4. chain[k].icons \in Seq(Images) /\ journal[k].pending \in Images
  BY <1>1 DEF Rows, CoinsOnChain
<1>5. /\ i \in Seq(Images) /\ Len(i) = Len(chain[k].icons) + 1
      /\ \A m \in 1..Len(chain[k].icons) : i[m] = chain[k].icons[m]
      /\ Len(chain[k].icons) \in Nat
  BY <1>4, AppendProperties, LenProperties
<1> HIDE DEF i
<1>6. q \in CoinsOnChain /\ q.tx = chain[k].tx /\ q.currency = chain[k].currency
      /\ q.icons = i
  BY <1>1, <1>5 DEF CoinsOnChain
<1> HIDE DEF q
<1>7. CoinOK(journal[k], q)
  <2>1. journal[k].imageTx \in Nat /\ journal[k].imageTx <= Len(chain[k].icons)
    BY <1>1 DEF CoinOK, Rows
  <2>2. journal[k].imageTx <= Len(i)
    BY <1>5, <2>1
  <2>3. journal[k].imageTx # 0 => i[journal[k].imageTx] = journal[k].image
    BY <1>1, <1>5, <2>1 DEF CoinOK
  <2> QED
    BY <1>1, <1>6, <2>2, <2>3 DEF CoinOK
<1>8. Grows(journal[k], chain[k], journal[k], q)
  BY <1>6 DEF Grows
<1>9. journal' = [journal EXCEPT ![k] = journal[k]]
  BY <1>2, RowOf
<1>10. call' \in [Callers -> Calls] /\ PayoutsKept
  BY <1>2 DEF ServiceInv, PayoutsKept
<1> QED
  BY <1>2, <1>3, <1>7, <1>8, <1>9, <1>10, CoinStep

LEMMA VerifyImageStep ==
    ASSUME ServiceInv, NEW c \in Callers, NEW k \in Coins, NEW n \in 1..MaxIcons,
           VerifyImage(c, k, n)
    PROVE  ServiceInv' /\ Keeps
<1> DEFINE u == journal[k].pending
           x == [Idle EXCEPT !.op = "verification", !.key = k, !.tx = n, !.url = u]
<1>1. u \in Images /\ n \in Nat
  BY RowOf DEF Rows
<1>2. /\ call' = [call EXCEPT ![c] = x]
      /\ UNCHANGED <<journal, parcels, payouts, chain, sent>>
  BY DEF VerifyImage, OnlyJournal
<1> HIDE DEF u
<1>3. x \in Calls /\ x.op = "verification" /\ x.key = k
  <2>1. Idle \in Calls /\ "verification" \in CoinOps /\ k \in Keys
    BY IdleCall DEF CoinOps, Keys
  <2> QED
    BY <1>1, <2>1 DEF Calls
<1> HIDE DEF x
<1> QED
  BY <1>2, <1>3, AskStep DEF CoinOps

LEMMA SaveVerificationStep ==
    ASSUME ServiceInv, NEW c \in Callers, SaveVerification(c)
    PROVE  ServiceInv' /\ Keeps
<1> DEFINE k == call[c].key
           n == call[c].tx
           u == call[c].url
           r == [journal[k] EXCEPT !.image = u, !.imageTx = n, !.ready = FALSE]
<1>1. k \in Coins /\ u \in Images /\ n \in Nat
  BY CallOf DEF CallOK, CoinOps, Calls, SaveVerification, At
<1>2. Returns(c) /\ UNCHANGED <<parcels, payouts, chain, sent>>
  BY DEF SaveVerification, OnlyJournal
<1>3. journal' = [journal EXCEPT ![k] = r]
  BY <1>1, RowOf DEF SaveVerification
<1>4. Len(chain[k].icons) = n /\ chain[k].icons[n] = u
  BY DEF SaveVerification, Proved, Last
<1> HIDE DEF k, n, u
<1>5. journal[k] \in Rows
  BY <1>1, RowOf
<1>6. /\ r \in Rows /\ r.state = journal[k].state /\ r.digest = journal[k].digest
      /\ r.bytes = journal[k].bytes /\ r.registered = journal[k].registered
      /\ r.imageTx = n /\ r.image = u
  BY <1>1, <1>5 DEF Rows
<1> HIDE DEF r
<1>7. CoinOK(r, chain[k])
  <2>1. r.imageTx <= Len(chain[k].icons) /\ chain[k].icons[r.imageTx] = r.image
    BY <1>1, <1>4, <1>6
  <2> QED
    BY <1>1, <1>6, <2>1, LearnedOK
<1> QED
  BY <1>1, <1>2, <1>3, <1>6, <1>7, RowStep

-----------------------------------------------------------------------------
(* Deliveries.                                                             *)

\* One delivery changes.
LEMMA ParcelStep ==
    ASSUME ServiceInv, NEW d \in Parcels, NEW r \in ParcelRows,
           parcels[d].bytes # 0 => r.bytes = parcels[d].bytes,
           parcels' = [parcels EXCEPT ![d] = r],
           UNCHANGED <<journal, payouts, chain, sent>>,
           \/ call' = call
           \/ \E c \in Callers : Returns(c)
           \/ \E c \in Callers, x \in Calls :
                 call' = [call EXCEPT ![c] = x] /\ x.op = "parcel" /\ x.key \in Parcels
    PROVE  ServiceInv' /\ Keeps
<1>1. /\ parcels' \in [Parcels -> ParcelRows]
      /\ \A e \in Parcels : parcels[e].bytes # 0 => parcels'[e].bytes = parcels[e].bytes
  BY DEF ServiceInv
<1>2. /\ call' \in [Callers -> Calls] /\ PayoutsKept
      /\ \A c \in Callers : call'[c] = call[c] \/ CallOK(call'[c], journal)
  <2>1. CASE call' = call
    BY <2>1 DEF ServiceInv, PayoutsKept
  <2>2. CASE \E c \in Callers : Returns(c)
    BY <2>2, ReturnsIs
  <2>3. ASSUME NEW c \in Callers, NEW x \in Calls, call' = [call EXCEPT ![c] = x],
               x.op = "parcel", x.key \in Parcels
        PROVE  /\ call' \in [Callers -> Calls] /\ PayoutsKept
               /\ \A e \in Callers : call'[e] = call[e] \/ CallOK(call'[e], journal)
    <3>1. CallOK(x, journal)
      BY <2>3 DEF CallOK, CoinOps
    <3> QED
      BY <2>3, <3>1, AwaitsIs
  <2> QED
    BY <2>1, <2>2, <2>3
<1> QED
  BY <1>1, <1>2, PayoutsStay, CallStep

LEMMA ParcelOf ==
    ASSUME ServiceInv, NEW d \in Parcels
    PROVE  /\ parcels[d] \in ParcelRows
           /\ [parcels EXCEPT ![d] = parcels[d]] = parcels
BY DEF ServiceInv

LEMMA AcceptParcelStep ==
    ASSUME ServiceInv, NEW d \in Parcels, AcceptParcel(d)
    PROVE  ServiceInv' /\ Keeps
<1> DEFINE r == [parcels[d] EXCEPT !.state = "accepted"]
<1>1. r \in ParcelRows /\ r.bytes = parcels[d].bytes
  BY ParcelOf DEF ParcelRows
<1>2. parcels' = [parcels EXCEPT ![d] = r] /\ UNCHANGED <<journal, payouts, chain, sent, call>>
  BY ParcelOf DEF AcceptParcel, OnlyParcels
<1> HIDE DEF r
<1> QED
  BY <1>1, <1>2, ParcelStep

LEMMA ClaimParcelStep ==
    ASSUME ServiceInv, NEW c \in Callers, NEW d \in Parcels, ClaimParcel(c, d)
    PROVE  ServiceInv' /\ Keeps
<1> DEFINE r == [parcels[d] EXCEPT !.state = "preparing"]
           x == [Idle EXCEPT !.op = "parcel", !.key = d, !.tx = 0]
<1>1. r \in ParcelRows /\ r.bytes = parcels[d].bytes
  BY ParcelOf DEF ParcelRows
<1>2. x \in Calls /\ x.op = "parcel" /\ x.key = d
  BY IdleCall DEF Calls, Keys
<1>3. /\ parcels' = [parcels EXCEPT ![d] = r] /\ call' = [call EXCEPT ![c] = x]
      /\ UNCHANGED <<journal, payouts, chain, sent>>
  BY ParcelOf DEF ClaimParcel, Awaits, OnlyParcels
<1> HIDE DEF r, x
<1> QED
  BY <1>1, <1>2, <1>3, ParcelStep

\* A claim is signed or given back, unless it is no longer what it was.
LEMMA ClaimEnds ==
    ASSUME ServiceInv, NEW c \in Callers, SaveParcel(c) \/ ReleaseParcel(c)
    PROVE  ServiceInv' /\ Keeps
<1> DEFINE d == call[c].key
           b == parcels[d].bytes + 1
           r == [parcels[d] EXCEPT !.state = "prepared", !.bytes = b]
           s == [parcels[d] EXCEPT !.state = "accepted"]
<1>1. d \in Parcels
  BY CallOf DEF CallOK, SaveParcel, ReleaseParcel, At
<1>2. Returns(c) /\ UNCHANGED <<journal, payouts, chain, sent>>
  BY DEF SaveParcel, ReleaseParcel, OnlyParcels
<1>3. parcels[d] \in ParcelRows /\ [parcels EXCEPT ![d] = parcels[d]] = parcels
  BY <1>1, ParcelOf
<1>4. CASE UNCHANGED parcels
  BY <1>1, <1>2, <1>3, <1>4, ParcelStep
<1>5. CASE /\ SaveParcel(c) /\ Still(parcels[d], "preparing")
           /\ parcels' = [parcels EXCEPT ![d].state = "prepared", ![d].bytes = @ + 1]
  <2>1. parcels[d].bytes = 0 /\ parcels[d].bytes < MaxSigned
    BY <1>5 DEF SaveParcel, Still, Unsigned
  <2>2. parcels' = [parcels EXCEPT ![d] = r]
    BY <1>1, <1>3, <1>5 DEF ParcelRows
  <2>3. b \in 0..MaxSigned
    BY <2>1, ServiceAssumption
  <2> HIDE DEF b, d
  <2>4. r \in ParcelRows
    BY <1>3, <2>3 DEF ParcelRows
  <2> HIDE DEF r
  <2> QED
    BY <1>1, <1>2, <2>1, <2>2, <2>4, ParcelStep
<1>6. CASE parcels' = [parcels EXCEPT ![d].state = "accepted"]
  <2>1. parcels' = [parcels EXCEPT ![d] = s]
    BY <1>1, <1>3, <1>6
  <2> HIDE DEF d
  <2>2. s \in ParcelRows /\ s.bytes = parcels[d].bytes
    BY <1>3 DEF ParcelRows
  <2> HIDE DEF s
  <2> QED
    BY <1>1, <1>2, <2>1, <2>2, ParcelStep
<1> QED
  BY <1>4, <1>5, <1>6 DEF SaveParcel, ReleaseParcel, Reopened

-----------------------------------------------------------------------------
(* Payouts and failures.                                                   *)

LEMMA AskPayoutStep ==
    ASSUME ServiceInv, NEW c \in Callers, NEW t \in Payouts, AskPayout(c, t)
    PROVE  ServiceInv' /\ Keeps
<1> DEFINE x == [Idle EXCEPT !.op = "payout", !.key = t, !.tx = 0]
<1>1. x \in Calls /\ x.op = "payout" /\ x.key = t
  BY IdleCall DEF Calls, Keys
<1>2. /\ payouts[t] = "none" /\ payouts' = [payouts EXCEPT ![t] = "accepted"]
      /\ call' = [call EXCEPT ![c] = x]
      /\ UNCHANGED <<journal, parcels, chain, sent>>
  BY DEF AskPayout, New, Awaits, OnlyPayouts
<1> HIDE DEF x
<1>3. CallOK(x, journal)
  BY <1>1 DEF CallOK, CoinOps
<1>4. call' \in [Callers -> Calls] /\ \A e \in Callers : call'[e] = IF e = c THEN x ELSE call[e]
  BY <1>1, <1>2 DEF ServiceInv
<1>5. PayoutsOK'
  <2>1. \A e \in Callers : Pays(e) => call[e].key # t /\ call[e].key \in Payouts
    BY <1>2 DEF ServiceInv, PayoutsOK, Pays, CallOK
  <2>2. /\ payouts' \in [Payouts -> {"none", "accepted", "confirmed", "failed"}]
        /\ payouts'[t] = "accepted" /\ \A v \in Payouts : v # t => payouts'[v] = payouts[v]
        /\ sent[t] = 0
    BY <1>2 DEF ServiceInv, PayoutsOK
  <2> QED
    BY <1>1, <1>2, <1>4, <2>1, <2>2 DEF ServiceInv, PayoutsOK, Pays
<1>6. parcels' \in [Parcels -> ParcelRows]
  BY <1>2 DEF ServiceInv
<1> QED
  BY <1>2, <1>3, <1>4, <1>5, <1>6, CallStep

LEMMA PaysOutStep ==
    ASSUME ServiceInv, NEW c \in Callers, PaysOut(c)
    PROVE  ServiceInv' /\ Keeps
<1> DEFINE t == call[c].key
           x == [call[c] EXCEPT !.done = TRUE]
<1>1. call[c] \in Calls /\ Pays(c) /\ t \in Payouts /\ ~ call[c].done
  BY CallOf DEF CallOK, PaysOut, At, Pays
<1>2. x \in Calls /\ x.op = "payout" /\ x.key = t /\ x.done
  BY <1>1 DEF Calls, Pays
<1>3. /\ sent' = [sent EXCEPT ![t] = sent[t] + 1]
      /\ call' = [call EXCEPT ![c] = x]
      /\ UNCHANGED <<journal, parcels, payouts, chain>>
  BY <1>1, CallOf DEF PaysOut, Executed
<1> HIDE DEF x, t
<1>4. CallOK(x, journal)
  BY <1>1, <1>2 DEF CallOK, CoinOps
<1>5. call' \in [Callers -> Calls] /\ \A e \in Callers : call'[e] = IF e = c THEN x ELSE call[e]
  BY <1>2, <1>3 DEF ServiceInv
<1>6. PayoutsOK'
  <2>1. sent[t] = 0 /\ payouts[t] # "none"
    BY <1>1 DEF ServiceInv, PayoutsOK, t
  <2>2. \A e \in Callers : e # c /\ Pays(e) => call[e].key # t /\ call[e].key \in Payouts
    BY <1>1 DEF ServiceInv, PayoutsOK, CallOK, Pays, t
  <2>3. /\ sent' \in [Payouts -> Nat] /\ sent'[t] = 1
        /\ \A v \in Payouts : v # t => sent'[v] = sent[v]
    BY <1>1, <1>3, <2>1 DEF ServiceInv, PayoutsOK
  <2> QED
    BY <1>1, <1>2, <1>3, <1>5, <2>1, <2>2, <2>3 DEF ServiceInv, PayoutsOK, Pays
<1>7. parcels' \in [Parcels -> ParcelRows]
  BY <1>3 DEF ServiceInv
<1> QED
  BY <1>3, <1>4, <1>5, <1>6, <1>7, CallStep

LEMMA SavePayoutStep ==
    ASSUME ServiceInv, NEW c \in Callers, SavePayout(c)
    PROVE  ServiceInv' /\ Keeps
<1> DEFINE t == call[c].key
<1>1. Pays(c) /\ t \in Payouts
  BY CallOf DEF CallOK, SavePayout, At, Pays
<1>2. Returns(c) /\ UNCHANGED <<journal, parcels, chain, sent>>
  BY DEF SavePayout, OnlyPayouts
<1>3. PICK s \in {"confirmed", "failed"} : payouts' = [payouts EXCEPT ![t] = s]
  BY DEF SavePayout
<1>4. /\ call' \in [Callers -> Calls]
      /\ \A e \in Callers : call'[e] = call[e] \/ CallOK(call'[e], journal)
      /\ \A e \in Callers : call'[e] = IF e = c THEN Idle ELSE call[e]
  <2>1. call \in [Callers -> Calls] /\ call' = [call EXCEPT ![c] = Idle]
    BY <1>2, CallOf DEF Returns
  <2>2. \A e \in Callers : call'[e] = IF e = c THEN Idle ELSE call[e]
    BY <2>1
  <2> QED
    BY <1>2, <2>2, ReturnsIs
<1> HIDE DEF t
<1>5. PayoutsOK'
  <2>1. /\ payouts' \in [Payouts -> {"none", "accepted", "confirmed", "failed"}]
        /\ payouts'[t] # "none" /\ \A v \in Payouts : v # t => payouts'[v] = payouts[v]
    BY <1>1, <1>3 DEF ServiceInv, PayoutsOK
  <2>2. \A e \in Callers : call'[e].op = "payout" => e # c /\ call'[e] = call[e]
    BY <1>4, IdleCall
  <2>3. \A v \in Payouts : payouts'[v] = "none" => payouts[v] = "none"
    BY <2>1
  <2>4. \A e \in Callers : Pays(e) => payouts[call[e].key] # "none" /\ call[e].key \in Payouts
    BY CallOf DEF ServiceInv, PayoutsOK, Pays, CallOK
  <2> QED
    BY <1>2, <2>1, <2>2, <2>3, <2>4 DEF ServiceInv, PayoutsOK, Pays
<1>6. parcels' \in [Parcels -> ParcelRows]
  BY <1>2 DEF ServiceInv
<1> QED
  BY <1>2, <1>4, <1>5, <1>6, CallStep

\* Requests that fail, and a service that is killed, leave the journal as it is.
LEMMA FailureStep ==
    ASSUME ServiceInv,
           (\E c \in Callers : CallFails(c)) \/ ServiceCrashes
    PROVE  ServiceInv' /\ Keeps
<1>1. UNCHANGED <<journal, parcels, payouts, chain, sent>>
  BY DEF CallFails, ServiceCrashes
<1>2. /\ call' \in [Callers -> Calls] /\ PayoutsKept
      /\ \A d \in Callers : call'[d] = call[d] \/ CallOK(call'[d], journal)
  <2>1. CASE \E c \in Callers : CallFails(c)
    BY <1>1, <2>1, ReturnsIs DEF CallFails
  <2>2. CASE ServiceCrashes
    BY <1>1, <2>2, IdleCall DEF ServiceCrashes, PayoutsKept
  <2> QED
    BY <2>1, <2>2
<1>3. parcels' \in [Parcels -> ParcelRows]
  BY <1>1 DEF ServiceInv
<1> QED
  BY <1>1, <1>2, <1>3, PayoutsStay, CallStep

-----------------------------------------------------------------------------
(* Every step of the system.                                               *)

LEMMA StandsStill ==
    ASSUME ServiceInv, UNCHANGED serviceVars
    PROVE  ServiceInv' /\ Keeps
<1>1. UNCHANGED <<journal, parcels, payouts, chain, sent, call>>
  BY DEF serviceVars
<1>2. PayoutsOK' /\ parcels' \in [Parcels -> ParcelRows] /\ call' \in [Callers -> Calls]
  BY <1>1 DEF ServiceInv, PayoutsOK, Pays
<1> QED
  BY <1>1, <1>2, CallStep

LEMMA ServiceStep ==
    ASSUME ServiceInv, Service
    PROVE  ServiceInv' /\ Keeps
<1>1. ASSUME NEW c \in Callers, Answers(c) PROVE ServiceInv' /\ Keeps
  <2>1. CASE SavePublication(c)
    BY <2>1, SavePublicationStep
  <2>2. CASE Publishes(c)
    BY <2>2, PublishesStep
  <2>3. CASE SaveSubmission(c)
    BY <2>3, SaveSubmissionStep
  <2>4. CASE FinalizesRegistration(c)
    BY <2>4, FinalizesRegistrationStep
  <2>5. CASE SaveRegistration(c)
    <3>1. call[c].key \in Coins
      BY <2>5, CallOf DEF CallOK, CoinOps, SaveRegistration, At
    <3>2. /\ Registered(call[c].key) /\ CurrencyRegistered(call[c].key) /\ Returns(c)
          /\ UNCHANGED <<parcels, payouts, chain, sent>>
      BY <2>5 DEF SaveRegistration, OnlyJournal
    <3> QED
      BY <3>1, <3>2, RegisteredStep
  <2>6. CASE SaveVerification(c)
    BY <2>6, SaveVerificationStep
  <2>7. CASE SaveParcel(c) \/ ReleaseParcel(c)
    BY <2>7, ClaimEnds
  <2>8. CASE PaysOut(c)
    BY <2>8, PaysOutStep
  <2>9. CASE SavePayout(c)
    BY <2>9, SavePayoutStep
  <2> QED
    BY <1>1, <2>1, <2>2, <2>3, <2>4, <2>5, <2>6, <2>7, <2>8, <2>9 DEF Answers
<1>2. ASSUME NEW k \in Coins, GasIsSpent(k) \/ OwnerSetsIcon(k) PROVE ServiceInv' /\ Keeps
  BY <1>2, GasIsSpentStep, OwnerSetsIconStep
<1>3. ASSUME NEW c \in Callers, NEW t \in Payouts, GrantStarterSui(c, t)
      PROVE  ServiceInv' /\ Keeps
  BY <1>3, AskPayoutStep DEF GrantStarterSui
<1> QED
  BY <1>1, <1>2, <1>3, FailureStep DEF Service

LEMMA ProcessStep ==
    ASSUME ServiceInv, NEW k \in Coins, Process(k)
    PROVE  ServiceInv' /\ Keeps
<1>1. CASE Asks(k)
  <2>1. ASSUME NEW c \in Callers,
               \/ ClaimPublication(c, k) \/ SubmitPublication(c, k)
               \/ RegisterCurrency(c, k)
        PROVE  ServiceInv' /\ Keeps
    BY <2>1, ClaimPublicationStep, SubmitPublicationStep, RegisterCurrencyStep
  <2> QED
    BY <1>1, <2>1, AcceptPublicationStep, ReconcilePublicationStep DEF Asks
<1>2. CASE UNCHANGED serviceVars
  BY <1>2, StandsStill
<1> QED
  BY <1>1, <1>2 DEF Process, RecordPublication, VerifySupply

LEMMA OperatorStep ==
    ASSUME ServiceInv, NEW k \in Coins, Operator(k)
    PROVE  ServiceInv' /\ Keeps
<1>1. CASE RecoverRegistration(k)
  <2>1. /\ Registered(k) /\ CurrencyRegistered(k)
        /\ UNCHANGED <<parcels, payouts, chain, sent, call>>
    BY <1>1 DEF RecoverRegistration, OnlyJournal
  <2> QED
    BY <2>1, RegisteredStep
<1> QED
  BY <1>1, RecoverPublicationStep, RecoverMetadataCapStep DEF Operator

\* Nothing a coin on the chain relies on is taken back, by any step.
LEMMA ServiceKeeps ==
    ASSUME ServiceInv, [Next]_allVars
    PROVE  ServiceInv' /\ Keeps
<1>1. CASE UNCHANGED serviceVars
  BY <1>1, StandsStill
<1>2. ASSUME NEW k \in Coins, Process(k) \/ Operator(k) \/ AcceptByHand(k)
      PROVE  ServiceInv' /\ Keeps
  BY <1>2, ProcessStep, OperatorStep, AcceptPublicationStep DEF AcceptByHand
<1>3. ASSUME NEW c \in Callers, NEW k \in Coins, NEW u \in Urls, AskImage(c, k, u)
      PROVE  ServiceInv' /\ Keeps
  BY <1>3, PrepareImageStep DEF AskImage
<1>4. ASSUME NEW c \in Callers, ImageStep(c) PROVE ServiceInv' /\ Keeps
  BY <1>4, SaveImageStep, VerifyImageStep DEF ImageStep
<1>5. ASSUME NEW o \in Orders, AskDelivery(o) PROVE ServiceInv' /\ Keeps
  BY <1>5, AcceptParcelStep, ClaimParcelStep DEF AskDelivery
<1>6. ASSUME NEW k \in Coins,
             Draft(k) \/ PreparePayload(k) \/ PrepareForced(k) \/ ReusePackage(k)
      PROVE  UNCHANGED serviceVars
  BY <1>6 DEF Draft, PreparePayload, PrepareForced, ReusePackage, ToolLeaves
<1>7. ASSUME NEW o \in Orders, Paid(o) \/ RecordDelivery(o) \/ RequestExecution(o)
      PROVE  UNCHANGED serviceVars
  BY <1>7 DEF Paid, RecordDelivery, RequestExecution
<1>8. ASSUME NEW e \in Edges,
             RegisterEdge(e) \/ RevokeEdge(e) \/ \E h \in Challenges : Challenge(h, e)
      PROVE  UNCHANGED serviceVars
  BY <1>8 DEF RegisterEdge, RevokeEdge, Challenge
<1>9. ASSUME NEW h \in Challenges,
             Expires(h) \/ \E o \in Orders :
                               Authenticate(h, o) \/ LockChallenge(h, o) \/ Claim(h, o)
      PROVE  UNCHANGED serviceVars
  BY <1>9 DEF Expires, Authenticate, LockChallenge, Claim
<1>10. CASE UNCHANGED allVars
  BY <1>1, <1>10 DEF allVars
<1> QED
  BY <1>1, <1>2, <1>3, <1>4, <1>5, <1>6, <1>7, <1>8, <1>9, <1>10, ServiceStep
  DEF Next, Deliver

-----------------------------------------------------------------------------
(* FANZ's record of its coins.                                             *)

Assets == [status : {"none", "draft", "active"}, coin : 0..MaxSigned,
           fixed : BOOLEAN, payload : {"none", "ready", "package"}]

\* A coin, by what the chain has of it
Lives(q, n) == n # 0 /\ q.tx[n] = "ok" /\ q.currency = "registered"

AssetOK ==
    /\ asset \in [Coins -> Assets]
    /\ \A k \in Coins : asset[k].status = "active" => Lives(chain[k], asset[k].coin)

LEMMA LivesOn ==
    ASSUME ServiceInv, Keeps, AssetOK
    PROVE  \A k \in Coins : asset[k].status = "active" => Lives(chain'[k], asset[k].coin)
<1> SUFFICES ASSUME NEW k \in Coins, asset[k].status = "active"
             PROVE  Lives(chain'[k], asset[k].coin)
  OBVIOUS
<1>1. asset[k].coin \in 0..MaxSigned /\ Lives(chain[k], asset[k].coin)
  BY DEF AssetOK, Assets
<1>2. Grows(journal[k], chain[k], journal'[k], chain'[k])
  BY DEF Keeps
<1> QED
  BY <1>1, <1>2 DEF Grows, Lives

\* The asset of one coin changes.
LEMMA AssetStep ==
    ASSUME ServiceInv, Keeps, AssetOK, NEW k \in Coins, NEW r \in Assets,
           r.status = "active" => \/ asset[k].status = "active" /\ r.coin = asset[k].coin
                                  \/ Lives(chain'[k], r.coin),
           asset' = [asset EXCEPT ![k] = r]
    PROVE  AssetOK'
<1>1. /\ asset' \in [Coins -> Assets] /\ asset'[k] = r
      /\ \A j \in Coins : j # k => asset'[j] = asset[j]
  BY DEF AssetOK
<1> QED
  BY <1>1, LivesOn DEF AssetOK, Lives

LEMMA AssetKept ==
    ASSUME ServiceInv, AssetOK, [Next]_allVars
    PROVE  AssetOK'
<1> USE ServiceKeeps
<1>1. ASSUME UNCHANGED asset PROVE AssetOK'
  BY <1>1, LivesOn DEF AssetOK, Lives
<1>2. ASSUME NEW k \in Coins PROVE asset[k] \in Assets
  BY DEF AssetOK
<1>3. ASSUME NEW k \in Coins, Draft(k) PROVE AssetOK'
  <2> DEFINE r == [asset[k] EXCEPT !.status = "draft"]
  <2>1. r \in Assets /\ r.status # "active" /\ asset' = [asset EXCEPT ![k] = r]
    BY <1>2, <1>3 DEF Assets, Draft, AssetOK
  <2> HIDE DEF r
  <2> QED
    BY <2>1, AssetStep
<1>4. ASSUME NEW k \in Coins, NEW results, ToolLeaves(k, results),
             results \subseteq {"ready", "package"}
      PROVE  AssetOK'
  <2>1. PICK v \in results : asset' = [asset EXCEPT ![k].payload = v]
    BY <1>4 DEF ToolLeaves
  <2> DEFINE r == [asset[k] EXCEPT !.payload = v]
  <2>2. /\ r \in Assets /\ r.status = asset[k].status /\ r.coin = asset[k].coin
        /\ asset' = [asset EXCEPT ![k] = r]
    BY <1>2, <1>4, <2>1 DEF Assets, AssetOK
  <2> HIDE DEF r
  <2> QED
    BY <2>2, AssetStep
<1>5. ASSUME NEW k \in Coins, RecordPublication(k) PROVE AssetOK'
  <2> DEFINE n == journal[k].digest
             r == [asset[k] EXCEPT !.coin = n, !.status = "active"]
  <2>1. Lives(chain'[k], n) /\ n \in 0..MaxSigned
    BY <1>5, RowOf DEF RecordPublication, serviceVars, Completed, CoinOK, Rows, Lives
  <2>2. asset' = [asset EXCEPT ![k] = r]
    BY <1>2, <1>5 DEF RecordPublication, AssetOK
  <2>3. r \in Assets /\ r.coin = n
    BY <1>2, <2>1 DEF Assets
  <2>4. Lives(chain'[k], r.coin)
    BY <2>1, <2>3
  <2> HIDE DEF r
  <2> QED
    BY <2>2, <2>3, <2>4, AssetStep
<1>6. ASSUME NEW k \in Coins, VerifySupply(k) PROVE AssetOK'
  <2> DEFINE r == [asset[k] EXCEPT !.fixed = TRUE]
  <2>1. /\ r \in Assets /\ r.status = asset[k].status /\ r.coin = asset[k].coin
        /\ asset' = [asset EXCEPT ![k] = r]
    BY <1>2, <1>6 DEF Assets, VerifySupply, AssetOK
  <2> HIDE DEF r
  <2> QED
    BY <2>1, AssetStep
<1>7. ASSUME NEW k \in Coins, Process(k) PROVE AssetOK'
  BY <1>1, <1>5, <1>6, <1>7 DEF Process
<1>8. ASSUME NEW k \in Coins, PreparePayload(k) \/ PrepareForced(k) \/ ReusePackage(k)
      PROVE  AssetOK'
  BY <1>4, <1>8 DEF PreparePayload, PrepareForced, ReusePackage, Pipeline
<1>9. CASE UNCHANGED allVars
  BY <1>1, <1>9 DEF allVars
<1>10. ASSUME NEW k \in Coins, Operator(k) \/ AcceptByHand(k) PROVE UNCHANGED asset
  BY <1>10 DEF Operator, AcceptByHand
<1>11. CASE Service \/ (\E c \in Callers, k \in Coins, u \in Urls : AskImage(c, k, u))
            \/ \E c \in Callers : ImageStep(c)
  BY <1>1, <1>11 DEF Service, AskImage, ImageStep
<1>12. CASE \E o \in Orders : Paid(o) \/ Deliver(o)
  BY <1>1, <1>12 DEF Paid, Deliver, AskDelivery, RecordDelivery, RequestExecution
<1>13. CASE \E e \in Edges : RegisterEdge(e) \/ RevokeEdge(e)
  BY <1>1, <1>13 DEF RegisterEdge, RevokeEdge
<1>14. CASE (\E h \in Challenges, e \in Edges : Challenge(h, e))
            \/ (\E h \in Challenges : Expires(h))
            \/ \E h \in Challenges, o \in Orders :
                  Authenticate(h, o) \/ LockChallenge(h, o) \/ Claim(h, o)
  BY <1>1, <1>14 DEF Challenge, Expires, Authenticate, LockChallenge, Claim
<1> QED
  BY <1>1, <1>3, <1>7, <1>8, <1>9, <1>10, <1>11, <1>12, <1>13, <1>14 DEF Next

-----------------------------------------------------------------------------
(* The claims of the Edges.                                                *)

Executions == [status : {"none", "pending", "claimed"}, by : Edges \cup {NoEdge},
               nonce : Challenges \cup {NoChallenge}]
ChallengeRows == [edge : Edges \cup {NoEdge},
                  state : {"none", "open", "expired", "consumed"}]

\* A claim has used up its challenge, and a challenge is locked for one claim at a
\* time, which nobody has got for it yet.
ClaimsOK ==
    /\ execution \in [Orders -> Executions]
    /\ challenge \in [Challenges -> ChallengeRows]
    /\ edge \in [Edges -> {"none", "active", "revoked"}]
    /\ claiming \subseteq Challenges \X Orders
    /\ \A o \in Orders :
          IF execution[o].status = "claimed"
          THEN /\ execution[o].nonce \in Challenges
               /\ challenge[execution[o].nonce].state = "consumed"
               /\ \A p \in Orders : <<execution[o].nonce, p>> \notin claiming
          ELSE execution[o].nonce = NoChallenge
    /\ \A h \in Challenges, o, p \in Orders :
          <<h, o>> \in claiming /\ <<h, p>> \in claiming => o = p

\* The action of ClaimsAreSeparate
Separate ==
    \A o \in Orders :
       /\ execution[o].status = "claimed" => execution'[o] = execution[o]
       /\ execution'[o] # execution[o] /\ execution'[o].status = "claimed" =>
             /\ <<execution'[o].by, o>> \in Serves
             /\ \A p \in Orders \ {o} : execution'[p].nonce # execution'[o].nonce

\* The action of RevokedClaimsNothing
Revoked ==
    \A e \in Edges : CutOff(e) =>
       /\ CutOff(e)'
       /\ \A o \in Orders : execution'[o].by = e => execution[o].by = e

LEMMA LockStep ==
    ASSUME ClaimsOK, NEW h \in Challenges, NEW o \in Orders, LockChallenge(h, o)
    PROVE  ClaimsOK' /\ Separate /\ Revoked
<1>1. CASE ~ Usable(h)
  BY <1>1 DEF LockChallenge, ClaimsOK, Separate, Revoked, CutOff
<1>2. CASE Usable(h)
  <2>1. /\ claiming' = claiming \cup {<<h, o>>}
        /\ UNCHANGED <<execution, edge, challenge>>
        /\ \A p \in Orders : <<h, p>> \notin claiming
        /\ challenge[h].state = "open" /\ edge[challenge[h].edge] = "active"
    BY <1>2 DEF LockChallenge, Usable
  <2>2. ASSUME NEW p \in Orders, execution[p].status = "claimed",
               NEW q \in Orders, <<execution[p].nonce, q>> \in claiming'
        PROVE  FALSE
    <3>1. execution[p].nonce # h /\ <<execution[p].nonce, q>> \notin claiming
      BY <2>1, <2>2 DEF ClaimsOK
    <3> QED
      BY <2>1, <2>2, <3>1
  <2>3. ASSUME NEW g \in Challenges, NEW p \in Orders, NEW q \in Orders,
               <<g, p>> \in claiming', <<g, q>> \in claiming'
        PROVE  p = q
    BY <2>1, <2>3 DEF ClaimsOK
  <2>4. claiming' \subseteq Challenges \X Orders
    BY <2>1 DEF ClaimsOK
  <2>5. ClaimsOK'
    BY <2>1, <2>2, <2>3, <2>4 DEF ClaimsOK
  <2>6. Separate
    BY <2>1 DEF Separate
  <2>7. ASSUME NEW e \in Edges, CutOff(e) PROVE CutOff(e)'
    BY <2>1, <2>7 DEF CutOff
  <2> QED
    BY <2>1, <2>5, <2>6, <2>7 DEF Revoked
<1> QED
  BY <1>1, <1>2

\* A claim changes neither an Edge nor what another challenge is locked for.
LEMMA ClaimStep ==
    ASSUME ClaimsOK, NEW h \in Challenges, NEW o \in Orders, Claim(h, o)
    PROVE  ClaimsOK' /\ Separate /\ Revoked
<1> DEFINE e == challenge[h].edge
           r == ClaimOf(e, h)
           x == [challenge[h] EXCEPT !.state = "consumed"]
<1>1. challenge[h] \in ChallengeRows /\ execution[o] \in Executions
  BY DEF ClaimsOK
<1>2. x \in ChallengeRows /\ x.state = "consumed" /\ x.edge = e /\ e \in Edges \cup {NoEdge}
  BY <1>1 DEF ChallengeRows
<1>3. r \in Executions /\ r.status = "claimed" /\ r.nonce = h /\ r.by = e
  BY <1>2 DEF Executions, ClaimOf
<1>4. /\ <<h, o>> \in claiming /\ claiming' = claiming \ {<<h, o>>} /\ UNCHANGED edge
      /\ \A p \in Orders : <<h, p>> \notin claiming'
      /\ \A p \in Orders : execution[p].nonce # h
  BY CoinsAssumption DEF Claim, ClaimsOK
<1>5. ASSUME NEW f \in Edges, CutOff(f) PROVE f # e
  BY <1>4, <1>5 DEF CutOff
<1>6. CASE UNCHANGED <<challenge, execution>>
  <2>1. ClaimsOK' /\ Separate
    BY <1>4, <1>6 DEF ClaimsOK, Separate
  <2>2. Revoked
    BY <1>4, <1>6 DEF Revoked, CutOff
  <2> QED
    BY <2>1, <2>2
<1>7. ASSUME challenge' = [challenge EXCEPT ![h] = x]
      PROVE  /\ challenge' \in [Challenges -> ChallengeRows] /\ challenge'[h].state = "consumed"
             /\ \A g \in Challenges : g # h => challenge'[g] = challenge[g]
             /\ \A f \in Edges : CutOff(f) => CutOff(f)'
  <2> HIDE DEF x, e
  <2>1. /\ challenge' \in [Challenges -> ChallengeRows] /\ challenge'[h] = x
        /\ \A g \in Challenges : g # h => challenge'[g] = challenge[g]
    BY <1>2, <1>7 DEF ClaimsOK
  <2>2. \A g \in Challenges : challenge'[g].edge = challenge[g].edge
    BY <1>2, <2>1 DEF e
  <2>3. ASSUME NEW f \in Edges, CutOff(f) PROVE CutOff(f)'
    BY <1>4, <2>2, <2>3 DEF CutOff
  <2> QED
    BY <1>2, <2>1, <2>3
<1>8. CASE challenge' = [challenge EXCEPT ![h] = x] /\ UNCHANGED execution
  <2>1. ClaimsOK'
    BY <1>4, <1>7, <1>8 DEF ClaimsOK
  <2>2. Separate /\ Revoked
    BY <1>7, <1>8 DEF Separate, Revoked
  <2> QED
    BY <2>1, <2>2
<1>9. CASE /\ challenge' = [challenge EXCEPT ![h] = x]
           /\ <<e, o>> \in Serves /\ execution[o].status = "pending"
           /\ execution' = [execution EXCEPT ![o] = r]
  <2> HIDE DEF r, x, e
  <2>1. /\ execution' \in [Orders -> Executions] /\ execution'[o] = r
        /\ \A p \in Orders : p # o => execution'[p] = execution[p]
    BY <1>3, <1>9 DEF ClaimsOK
  <2>2. ClaimsOK'
    BY <1>3, <1>4, <1>7, <1>9, <2>1 DEF ClaimsOK
  <2>3. Separate
    BY <1>3, <1>4, <1>9, <2>1 DEF Separate
  <2>4. ASSUME NEW f \in Edges, CutOff(f), NEW p \in Orders, execution'[p].by = f
        PROVE  execution[p].by = f
    BY <1>3, <1>5, <2>1, <2>4
  <2>5. Revoked
    BY <1>7, <1>9, <2>4 DEF Revoked
  <2> QED
    BY <2>2, <2>3, <2>5
<1>10. execution = [execution EXCEPT ![o] = execution[o]]
  BY DEF ClaimsOK
<1>11. [challenge EXCEPT ![h].state = "consumed"] = [challenge EXCEPT ![h] = x]
  BY DEF ClaimsOK
<1> QED
  BY <1>6, <1>8, <1>9, <1>10, <1>11 DEF Claim, Claimed

\* An Edge that registers or is revoked
LEMMA EdgeStep ==
    ASSUME ClaimsOK, NEW e \in Edges, RegisterEdge(e) \/ RevokeEdge(e)
    PROVE  ClaimsOK' /\ Separate /\ Revoked
<1>1. UNCHANGED <<execution, challenge, claiming>>
  BY DEF RegisterEdge, RevokeEdge
<1>2. /\ edge' \in [Edges -> {"none", "active", "revoked"}]
      /\ \A f \in Edges : edge[f] = "revoked" => edge'[f] = "revoked"
  BY DEF ClaimsOK, RegisterEdge, RevokeEdge
<1>3. ClaimsOK'
  BY <1>1, <1>2 DEF ClaimsOK
<1>4. Separate
  BY <1>1 DEF Separate
<1>5. Revoked
  BY <1>1, <1>2 DEF Revoked, CutOff
<1> QED
  BY <1>3, <1>4, <1>5

\* A challenge that is given out or expires
LEMMA ChallengeStep ==
    ASSUME ClaimsOK, NEW h \in Challenges,
           Expires(h) \/ \E e \in Edges : Challenge(h, e)
    PROVE  ClaimsOK' /\ Separate /\ Revoked
<1>1. /\ UNCHANGED <<execution, edge, claiming>> /\ challenge[h].state # "consumed"
      /\ \A g \in Challenges : g # h => challenge'[g] = challenge[g]
  BY DEF ClaimsOK, Expires, Challenge
<1>2. /\ challenge' \in [Challenges -> ChallengeRows]
      /\ challenge'[h].edge = challenge[h].edge \/ edge[challenge'[h].edge] = "active"
  <2>1. CASE Expires(h)
    <3>1. challenge[h] \in ChallengeRows
      BY DEF ClaimsOK
    <3> QED
      BY <2>1, <3>1 DEF ClaimsOK, ChallengeRows, Expires
  <2>2. ASSUME NEW e \in Edges, Challenge(h, e)
        PROVE  /\ challenge' \in [Challenges -> ChallengeRows]
               /\ edge[challenge'[h].edge] = "active"
    <3>1. [edge |-> e, state |-> "open"] \in ChallengeRows
      BY DEF ChallengeRows
    <3> QED
      BY <2>2, <3>1 DEF ClaimsOK, Challenge
  <2> QED
    BY <2>1, <2>2
<1>3. ClaimsOK'
  BY <1>1, <1>2 DEF ClaimsOK
<1>4. Separate
  BY <1>1 DEF Separate
<1>5. ASSUME NEW f \in Edges, CutOff(f) PROVE CutOff(f)'
  BY <1>1, <1>2, <1>5 DEF CutOff
<1> QED
  BY <1>1, <1>3, <1>4, <1>5 DEF Revoked

LEMMA ClaimsKept ==
    ASSUME ClaimsOK, [Next]_allVars
    PROVE  ClaimsOK' /\ Separate /\ Revoked
<1>1. ASSUME UNCHANGED <<challenge, execution, edge, claiming>>
      PROVE  ClaimsOK' /\ Separate /\ Revoked
  BY <1>1 DEF ClaimsOK, Separate, Revoked, CutOff
<1>2. ASSUME NEW o \in Orders, RequestExecution(o) PROVE ClaimsOK' /\ Separate /\ Revoked
  <2> DEFINE r == [execution[o] EXCEPT !.status = "pending"]
  <2>1. r \in Executions /\ r.status = "pending" /\ r.nonce = NoChallenge /\ r.by = NoEdge
    BY <1>2 DEF ClaimsOK, Executions, RequestExecution, NoExecution
  <2>2. /\ execution' = [execution EXCEPT ![o] = r] /\ UNCHANGED <<challenge, edge, claiming>>
        /\ execution[o].status = "none"
    BY <1>2 DEF RequestExecution, NoExecution
  <2> HIDE DEF r
  <2>3. /\ execution' \in [Orders -> Executions] /\ execution'[o] = r
        /\ \A p \in Orders : p # o => execution'[p] = execution[p]
    BY <2>1, <2>2 DEF ClaimsOK
  <2>4. ClaimsOK' /\ Separate
    BY <2>1, <2>2, <2>3 DEF ClaimsOK, Separate
  <2>5. Revoked
    BY <2>1, <2>2, <2>3, CoinsAssumption DEF Revoked, CutOff
  <2> QED
    BY <2>4, <2>5
<1>3. CASE Service \/ (\E c \in Callers, k \in Coins, u \in Urls : AskImage(c, k, u))
           \/ \E c \in Callers : ImageStep(c)
  BY <1>1, <1>3 DEF Service, AskImage, ImageStep, edgeVars
<1>4. CASE \E k \in Coins : Draft(k) \/ Process(k) \/ Operator(k)
  BY <1>1, <1>4 DEF Draft, Process, Operator, edgeVars
<1>5. CASE \E k \in Coins :
              PreparePayload(k) \/ PrepareForced(k) \/ ReusePackage(k) \/ AcceptByHand(k)
  BY <1>1, <1>5 DEF PreparePayload, PrepareForced, ReusePackage, ToolLeaves,
                    AcceptByHand, edgeVars
<1>6. CASE \E o \in Orders : Paid(o) \/ Deliver(o)
  BY <1>1, <1>2, <1>6 DEF Paid, Deliver, AskDelivery, RecordDelivery, edgeVars
<1>7. ASSUME NEW h \in Challenges, NEW o \in Orders, Authenticate(h, o)
       PROVE  ClaimsOK' /\ Separate /\ Revoked
  BY <1>1, <1>7 DEF Authenticate
<1>8. CASE UNCHANGED allVars
  BY <1>1, <1>8 DEF allVars, edgeVars
<1> QED
  BY <1>3, <1>4, <1>5, <1>6, <1>7, <1>8, EdgeStep, ChallengeStep, LockStep, ClaimStep
  DEF Next

-----------------------------------------------------------------------------
(* The theorems.                                                           *)

CoinsInv == ServiceInv /\ AssetOK /\ ClaimsOK

LEMMA CoinsInit ==
    ASSUME Init
    PROVE  CoinsInv
<1>1. /\ journal = [k \in Coins |-> NoRow] /\ chain = [k \in Coins |-> NoCoin]
      /\ call = [c \in Callers |-> Idle] /\ parcels = [d \in Parcels |-> NoParcel]
      /\ payouts = [t \in Payouts |-> "none"] /\ sent = [t \in Payouts |-> 0]
  BY DEF Init, ServiceInit
<1>2. MaxSigned \in Nat
  BY ServiceAssumption
<1>3. NoRow \in Rows /\ NoParcel \in ParcelRows
  BY <1>2 DEF Rows, NoRow, Images, ParcelRows, NoParcel
<1>4. <<>> \in Seq(Images) /\ Len(<<>>) = 0
  OBVIOUS
<1>5. NoCoin \in CoinsOnChain
  BY <1>2, <1>4 DEF CoinsOnChain, NoCoin
<1>6. CoinOK(NoRow, NoCoin)
  BY <1>3, <1>4, <1>5 DEF CoinOK, NoRow, NoCoin
<1>7. PayoutsOK
  BY <1>1 DEF PayoutsOK, Pays, Idle
<1>8. ServiceInv
  BY <1>1, <1>3, <1>5, <1>6, <1>7, IdleCall DEF ServiceInv
<1>9. AssetOK
  <2>1. NoAsset \in Assets /\ NoAsset.status # "active"
    BY <1>2 DEF NoAsset, Assets
  <2>2. asset = [k \in Coins |-> NoAsset]
    BY DEF Init
  <2> QED
    BY <2>1, <2>2 DEF AssetOK
<1>10. ClaimsOK
  BY DEF Init, ClaimsOK, NoExecution, Executions, ChallengeRows
<1> QED
  BY <1>8, <1>9, <1>10 DEF CoinsInv

\* The journal, the chain, what FANZ has recorded and the claims stay in agreement.
THEOREM CoinsInvariant == Spec => []CoinsInv
<1>1. Init => CoinsInv
  BY CoinsInit
<1>2. CoinsInv /\ [Next]_allVars => CoinsInv'
  BY ServiceKeeps, AssetKept, ClaimsKept DEF CoinsInv
<1> QED
  BY <1>1, <1>2, PTL DEF Spec

\* One package for a key and one payout for a request, for any number of requests
\* at once, of lost answers, failures and kills: publication and payout of server.ts.
THEOREM OneOfEach == Spec => []SentOnce
<1>1. CoinsInv => SentOnce
  <2> SUFFICES ASSUME CoinsInv PROVE SentOnce
    OBVIOUS
  <2>1. ASSUME NEW k \in Coins
        PROVE  Cardinality({n \in 1..MaxSigned : chain[k].tx[n] = "ok"}) <= 1
    <3> DEFINE S == {n \in 1..MaxSigned : chain[k].tx[n] = "ok"}
    <3>1. S \in SUBSET {journal[k].bytes}
      BY RowOf DEF CoinsInv, CoinOK
    <3>2. IsFiniteSet({journal[k].bytes}) /\ Cardinality({journal[k].bytes}) = 1
      BY FS_Singleton
    <3> HIDE DEF S
    <3>3. Cardinality(S) <= 1
      BY <3>1, <3>2, FS_Subset
    <3> QED
      BY <3>3 DEF S
  <2>2. \A t \in Payouts : sent[t] <= 1
    BY DEF CoinsInv, ServiceInv, PayoutsOK
  <2> QED
    BY <2>1, <2>2 DEF SentOnce
<1> QED
  BY <1>1, CoinsInvariant, PTL

\* What is signed is not signed again, in any order of claims, answers, releases
\* and recoveries of server.ts and of the operators.
THEOREM SignedMaterialStays == Spec => SignedForGood
<1>1. CoinsInv /\ [Next]_allVars =>
         [/\ \A k \in Coins : journal[k].bytes # 0 => journal'[k].bytes = journal[k].bytes
          /\ \A d \in Parcels : parcels[d].bytes # 0 => parcels'[d].bytes = parcels[d].bytes
          ]_<<journal, parcels>>
  BY ServiceKeeps DEF CoinsInv, Keeps, Grows
<1> QED
  BY <1>1, CoinsInvariant, PTL DEF Spec, SignedForGood

\* An active coin of FANZ exists, and its Currency is registered: what
\* reconcile_confirmed_creator_publication records stays true of the chain.
THEOREM ActiveCoinsExist == Spec => []ActiveIsOnChain
<1>1. CoinsInv => ActiveIsOnChain
  BY DEF CoinsInv, AssetOK, Lives, ActiveIsOnChain
<1> QED
  BY <1>1, CoinsInvariant, PTL

\* The image of the journal is on the chain, whatever was prepared while it was
\* verified: verifyCreatorCoinImageRebrand.
THEOREM ImagesAreOnChain == Spec => []ImageIsOnChain
<1>1. CoinsInv => ImageIsOnChain
  BY DEF CoinsInv, ServiceInv, CoinOK, ImageIsOnChain
<1> QED
  BY <1>1, CoinsInvariant, PTL

\* One claim for a request and one challenge for a claim, by an Edge of its coin, for
\* any Edges and challenges that authenticate at once:
\* authenticate_and_claim_creator_execution.
THEOREM EdgesClaimOnce == Spec => ClaimsAreSeparate
<1>1. CoinsInv /\ [Next]_allVars => Separate
  BY ClaimsKept DEF CoinsInv
<1>2. Spec => [][Separate]_allVars
  BY <1>1, CoinsInvariant, PTL DEF Spec
<1> QED
  BY <1>2 DEF Separate, ClaimsAreSeparate

\* A revoked Edge gets no claim beyond those that had found it active under the lock
\* of their challenge before: revoke_creator_edge locks the Edge, and
\* authenticate_and_claim_creator_execution does not.
THEOREM RevocationHolds == Spec => RevokedClaimsNothing
<1>1. CoinsInv /\ [Next]_allVars => Revoked
  BY ClaimsKept DEF CoinsInv
<1>2. Spec => [][Revoked]_allVars
  BY <1>1, CoinsInvariant, PTL DEF Spec
<1> QED
  BY <1>2 DEF Revoked, RevokedClaimsNothing

==============================================================================
