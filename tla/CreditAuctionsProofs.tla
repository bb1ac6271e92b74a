------------------------ MODULE CreditAuctionsProofs ------------------------
(***************************************************************************)
(* What is proved of the credit auctions: that a bid in progress keeps the *)
(* auction live and its bidder's wallet still, that the command's stale    *)
(* reads do no harm, and from these that prices, winners and payments      *)
(* agree with the bids.                                                    *)
(***************************************************************************)
EXTENDS CreditAuctions, SumTheorems, SequenceTheorems

-----------------------------------------------------------------------------
(* The inductive invariant.                                                *)

\* What the command keeps of an auction it has read
Row == [auction : Auctions, winner : Users \cup {NoUser}, mailed : BOOLEAN]

Phases == {"none", "ending", "saving", "telling", "relisting", "resetting"}

AuctionRow == [status : {"live", "ended"}, bids : Seq(Users), price : Nat,
               winner : Users \cup {NoUser}, mailed : BOOLEAN]

Bid == [by : Users, credits : Nat, takings : Nat]

TypeOK ==
    /\ auctions \in [Auctions -> AuctionRow]
    /\ time \in [Auctions -> {"running", "over", "stale"}]
    /\ credits \in [Users -> Nat]
    /\ takings \in Nat
    /\ paid \in [Users -> Nat]
    /\ bidding \in [Auctions -> {NoBid} \cup Bid]
    /\ run \in [phase : Phases, todo : SUBSET Row, row : Row \cup {NoUser},
                winner : Users \cup {NoUser}, crashes : Nat]

\* The rows a bid has locked are still as it has read them: its auction is
\* live and the bidder's balance the one it will decrement.  The platform's
\* wallet is not locked, yet what was read of it was paid.
BidsInProgress ==
    /\ \A a \in Auctions : InBid(a) =>
          /\ auctions[a].status = "live"
          /\ bidding[a].credits = credits[bidding[a].by] /\ bidding[a].credits > 0
          /\ bidding[a].takings <= SumFunction(paid)
    /\ \A a, b \in Auctions :
          InBid(a) /\ InBid(b) /\ bidding[a].by = bidding[b].by => a = b

\* What the command has read still holds where it matters: an auction to be
\* ended had no winner when it was read, the winner it is about to save has a
\* bid, an auction to be relisted has ended long ago, and the one whose bids
\* it has deleted has got none since.
RunReads ==
    /\ \A r, s \in run.todo : r.auction = s.auction => r = s
    /\ run.phase \in {"saving", "telling", "resetting"} =>
          run.row \in Row /\ \A r \in run.todo : r.auction # run.row.auction
    /\ run.phase \in {"ending", "saving", "telling"} => \A r \in run.todo : r.winner = NoUser
    /\ run.phase = "saving" =>
          run.winner \in Range(auctions[run.row.auction].bids) \cup {NoUser}
    /\ run.phase \in {"relisting", "resetting"} => \A r \in run.todo : Relistable(r.auction)
    /\ run.phase = "resetting" =>
          Relistable(run.row.auction) /\ auctions[run.row.auction].bids = <<>>

AuctionsInv ==
    /\ TypeOK
    /\ BidsInProgress
    /\ RunReads
    /\ PriceCountsBids
    /\ WinnerHasBid
    /\ BidsArePaid

-----------------------------------------------------------------------------
(* Lemmas about rows and bids.                                             *)

LEMMA AuctionsRow ==
    ASSUME TypeOK, NEW a \in Auctions
    PROVE  /\ auctions[a] \in AuctionRow
           /\ auctions[a].status \in {"live", "ended"}
           /\ auctions[a].bids \in Seq(Users)
           /\ auctions[a].price \in Nat
           /\ auctions[a].winner \in Users \cup {NoUser}
           /\ auctions[a].mailed \in BOOLEAN
           /\ time[a] \in {"running", "over", "stale"}
BY DEF TypeOK, AuctionRow

LEMMA BidRow ==
    ASSUME TypeOK, NEW a \in Auctions, InBid(a)
    PROVE  /\ bidding[a] \in Bid
           /\ bidding[a].by \in Users
           /\ bidding[a].credits \in Nat
           /\ bidding[a].takings \in Nat
BY DEF TypeOK, InBid, Bid

\* Whoever bids has a name.
LEMMA BidderIs ==
    ASSUME TypeOK, NEW a \in Auctions, NEW u \in Users, bidding[a].by = u
    PROVE  InBid(a)
BY AuctionsAssumption DEF InBid, NoBid

LEMMA RunRow ==
    ASSUME TypeOK
    PROVE  /\ run.phase \in Phases
           /\ run.todo \in SUBSET Row
           /\ run.row \in Row \cup {NoUser}
           /\ run.winner \in Users \cup {NoUser}
           /\ run.crashes \in Nat
           /\ \A r \in Row : r.auction \in Auctions /\ r.winner \in Users \cup {NoUser}
BY DEF TypeOK, Row

\* The last bidder has a bid.
LEMMA LastBidderBids ==
    ASSUME TypeOK, NEW a \in Auctions
    PROVE  /\ LastBidder(a) \in Users \cup {NoUser}
           /\ LastBidder(a) # NoUser => LastBidder(a) \in Range(auctions[a].bids)
<1>1. auctions[a].bids \in Seq(Users)
  BY AuctionsRow
<1>2. CASE auctions[a].bids = <<>>
  BY <1>2 DEF LastBidder
<1>3. CASE auctions[a].bids # <<>>
  <2> DEFINE n == Len(auctions[a].bids)
  <2>1. n \in Nat /\ n # 0 /\ DOMAIN auctions[a].bids = 1..n
    BY <1>1, <1>3, LenProperties, EmptySeq
  <2>2. LastBidder(a) = auctions[a].bids[n]
    BY <1>3 DEF LastBidder, Last
  <2> HIDE DEF n
  <2>3. n \in DOMAIN auctions[a].bids
    BY <2>1
  <2> QED
    BY <1>1, <2>2, <2>3, ElementOfSeq, LenProperties DEF Range
<1> QED
  BY <1>2, <1>3

\* A bid more: nobody's bid is lost.
LEMMA OneBidMore ==
    ASSUME NEW s \in Seq(Users), NEW u \in Users
    PROVE  /\ Append(s, u) \in Seq(Users)
           /\ Len(Append(s, u)) = Len(s) + 1
           /\ Len(s) \in Nat
           /\ Range(s) \subseteq Range(Append(s, u))
<1>1. /\ Append(s, u) \in Seq(Users) /\ Len(Append(s, u)) = Len(s) + 1
      /\ \A i \in 1..Len(s) : Append(s, u)[i] = s[i]
      /\ DOMAIN s = 1..Len(s) /\ Len(s) \in Nat
      /\ DOMAIN Append(s, u) = 1..(Len(s) + 1)
  BY AppendProperties, LenProperties
<1> QED
  BY <1>1 DEF Range

LEMMA NobodyPaid ==
    ASSUME TypeOK PROVE SumFunction(paid) \in Nat
BY SumFunctionIs, SumNat, AuctionsAssumption DEF TypeOK

LEMMA InitAuctions == Init => AuctionsInv
<1> SUFFICES ASSUME Init PROVE AuctionsInv
  OBVIOUS
<1>1. /\ <<>> \in Seq(Users) /\ Len(<<>>) = 0
  BY EmptySeq, LenProperties
<1>2. TypeOK
  BY <1>1, AuctionsAssumption
     DEF Init, TypeOK, AuctionRow, Fresh, NoRun, Phases
<1>3. BidsInProgress /\ PriceCountsBids /\ WinnerHasBid
  BY <1>1 DEF Init, BidsInProgress, InBid, PriceCountsBids, WinnerHasBid, Fresh
<1>4. RunReads
  BY DEF Init, RunReads, NoRun
<1>5. SumFunction(paid) \in Nat
  BY <1>2, NobodyPaid
<1>6. BidsArePaid
  BY <1>5, AuctionsAssumption DEF Init, BidsArePaid
<1> QED
  BY <1>2, <1>3, <1>4, <1>6 DEF AuctionsInv

-----------------------------------------------------------------------------
(* Bids.                                                                   *)

LEMMA BidLocksStep ==
    ASSUME AuctionsInv, NEW u \in Users, NEW a \in Auctions, BidLocks(u, a)
    PROVE  AuctionsInv'
<1> DEFINE new == [by |-> u, credits |-> credits[u], takings |-> takings]
<1>1. TypeOK /\ UNCHANGED <<auctions, time, credits, takings, paid, run>>
  BY DEF AuctionsInv, BidLocks
<1>2. /\ bidding'[a] = new
      /\ \A b \in Auctions : b # a => bidding'[b] = bidding[b]
      /\ bidding' \in [Auctions -> {NoBid} \cup Bid]
  BY <1>1 DEF BidLocks, TypeOK, Bid
<1>3. new.by = u /\ new.credits = credits[u] /\ new.takings = takings
  OBVIOUS
<1> HIDE DEF new
<1>4. TypeOK'
  BY <1>1, <1>2 DEF TypeOK
<1>5. BidsInProgress'
  <2>1. ASSUME NEW b \in Auctions, InBid(b)'
        PROVE  /\ auctions'[b].status = "live"
               /\ bidding'[b].credits = credits'[bidding'[b].by] /\ bidding'[b].credits > 0
               /\ bidding'[b].takings <= SumFunction(paid)'
    <3>1. CASE b = a
      BY <1>1, <1>2, <1>3, <3>1 DEF BidLocks, Biddable, AuctionsInv, BidsArePaid
    <3>2. CASE b # a
      <4>1. InBid(b)
        BY <1>2, <2>1, <3>2 DEF InBid
      <4> QED
        BY <1>1, <1>2, <3>2, <4>1 DEF AuctionsInv, BidsInProgress
    <3> QED
      BY <3>1, <3>2
  <2>2. ASSUME NEW b \in Auctions, NEW c \in Auctions, InBid(b)', InBid(c)',
               bidding'[b].by = bidding'[c].by
        PROVE  b = c
    <3>1. \A d \in Auctions : d # a => bidding'[d].by # u
      BY <1>2 DEF BidLocks, WalletFree
    <3>2. \A d \in Auctions : InBid(d)' /\ d # a => InBid(d)
      BY <1>2 DEF InBid
    <3> QED
      BY <1>2, <1>3, <2>2, <3>1, <3>2 DEF AuctionsInv, BidsInProgress
  <2> QED
    BY <2>1, <2>2 DEF BidsInProgress
<1>6. RunReads' /\ PriceCountsBids' /\ WinnerHasBid' /\ BidsArePaid'
  BY <1>1 DEF AuctionsInv, RunReads, Relistable, PriceCountsBids, WinnerHasBid, BidsArePaid
<1> QED
  BY <1>4, <1>5, <1>6 DEF AuctionsInv

\* A bid that ends leaves the others as they were.
LEMMA BidReleased ==
    ASSUME TypeOK, BidsInProgress, NEW a \in Auctions,
           bidding' = [bidding EXCEPT ![a] = NoBid],
           \A b \in Auctions : b # a /\ InBid(b) =>
               /\ auctions'[b].status = "live"
               /\ credits'[bidding[b].by] = credits[bidding[b].by],
           \A n \in Int : n <= SumFunction(paid) => n <= SumFunction(paid)'
    PROVE  BidsInProgress' /\ bidding' \in [Auctions -> {NoBid} \cup Bid] /\ ~ InBid(a)'
<1>1. /\ bidding'[a] = NoBid
      /\ \A b \in Auctions : b # a => bidding'[b] = bidding[b]
      /\ bidding' \in [Auctions -> {NoBid} \cup Bid]
  BY DEF TypeOK
<1>2. \A b \in Auctions : InBid(b)' => b # a /\ InBid(b)
  BY <1>1 DEF InBid
<1>3. \A b \in Auctions : InBid(b) => bidding[b].takings \in Int
  BY BidRow
<1>4. ~ InBid(a)'
  BY <1>2
<1> QED
  BY <1>1, <1>2, <1>3, <1>4 DEF BidsInProgress

LEMMA BidFailsStep ==
    ASSUME AuctionsInv, NEW a \in Auctions, BidFails(a)
    PROVE  AuctionsInv'
<1>1. /\ TypeOK /\ BidsInProgress /\ UNCHANGED <<auctions, time, credits, takings, paid, run>>
      /\ bidding' = [bidding EXCEPT ![a] = NoBid]
  BY DEF AuctionsInv, BidFails
<1>2. BidsInProgress' /\ bidding' \in [Auctions -> {NoBid} \cup Bid]
  <2>1. \A b \in Auctions : b # a /\ InBid(b) =>
           /\ auctions'[b].status = "live"
           /\ credits'[bidding[b].by] = credits[bidding[b].by]
    BY <1>1 DEF BidsInProgress
  <2>2. \A n \in Int : n <= SumFunction(paid) => n <= SumFunction(paid)'
    BY <1>1
  <2> QED
    BY <1>1, <2>1, <2>2, BidReleased
<1>3. TypeOK'
  BY <1>1, <1>2 DEF TypeOK
<1>4. RunReads' /\ PriceCountsBids' /\ WinnerHasBid' /\ BidsArePaid'
  BY <1>1 DEF AuctionsInv, RunReads, Relistable, PriceCountsBids, WinnerHasBid, BidsArePaid
<1> QED
  BY <1>2, <1>3, <1>4 DEF AuctionsInv


LEMMA BidCommitsStep ==
    ASSUME AuctionsInv, NEW a \in Auctions, BidCommits(a)
    PROVE  AuctionsInv'
<1>1. TypeOK /\ BidsInProgress /\ RunReads /\ InBid(a) /\ run' = run
  BY DEF AuctionsInv, BidCommits
<1>2. PICK w \in Users : w = bidding[a].by
  BY <1>1, BidRow
<1>3. /\ auctions[a].status = "live" /\ auctions[a].winner = NoUser
      /\ bidding[a].credits = credits[w] /\ credits[w] > 0
      /\ bidding[a].takings <= SumFunction(paid) /\ bidding[a].takings \in Nat
  BY <1>1, <1>2, BidRow DEF BidsInProgress, AuctionsInv, WinnerHasBid
<1>4. /\ auctions' = [auctions EXCEPT ![a].bids = Append(@, w), ![a].price = @ + 1]
      /\ credits' = [credits EXCEPT ![w] = credits[w] - 1]
      /\ takings' = bidding[a].takings + 1
      /\ paid' = [paid EXCEPT ![w] = @ + 1]
      /\ bidding' = [bidding EXCEPT ![a] = NoBid]
      /\ time' \in {time, [time EXCEPT ![a] = "running"]}
  BY <1>2, <1>3 DEF BidCommits
<1>5. /\ Append(auctions[a].bids, w) \in Seq(Users)
      /\ Len(Append(auctions[a].bids, w)) = Len(auctions[a].bids) + 1
      /\ Range(auctions[a].bids) \subseteq Range(Append(auctions[a].bids, w))
      /\ auctions[a] \in AuctionRow /\ Len(auctions[a].bids) \in Nat
      /\ auctions[a].price \in Nat
  BY <1>1, OneBidMore, AuctionsRow
<1>6. /\ auctions'[a] = [auctions[a] EXCEPT !.bids = Append(@, w), !.price = @ + 1]
      /\ \A b \in Auctions : b # a => auctions'[b] = auctions[b] /\ time'[b] = time[b]
      /\ auctions' \in [Auctions -> AuctionRow]
      /\ time' \in [Auctions -> {"running", "over", "stale"}]
  <2> DEFINE row == [auctions[a] EXCEPT !.bids = Append(@, w), !.price = @ + 1]
  <2>1. row \in AuctionRow
    <3>1. PICK n \in Nat, s \in Seq(Users) :
             n = auctions[a].price + 1 /\ s = Append(auctions[a].bids, w)
      <4>1. auctions[a].price + 1 \in Nat
        BY <1>5
      <4> QED
        BY <1>5, <4>1
    <3>2. row = [auctions[a] EXCEPT !.bids = s, !.price = n]
      BY <3>1
    <3> QED
      BY <1>5, <3>2 DEF AuctionRow
  <2>2. auctions' = [auctions EXCEPT ![a] = row]
    BY <1>1, <1>4 DEF TypeOK
  <2> HIDE DEF row
  <2>3. /\ auctions'[a] = row
        /\ \A b \in Auctions : b # a => auctions'[b] = auctions[b]
        /\ auctions' \in [Auctions -> AuctionRow]
    BY <1>1, <2>1, <2>2 DEF TypeOK
  <2>4. /\ \A b \in Auctions : b # a => time'[b] = time[b]
        /\ time' \in [Auctions -> {"running", "over", "stale"}]
    BY <1>1, <1>4 DEF TypeOK
  <2> QED
    BY <2>3, <2>4 DEF row
<1>7. /\ auctions'[a].status = "live" /\ auctions'[a].winner = NoUser
      /\ auctions'[a].bids = Append(auctions[a].bids, w)
      /\ auctions'[a].price = auctions[a].price + 1
  BY <1>3, <1>5, <1>6 DEF AuctionRow
<1>8. /\ credits' \in [Users -> Nat] /\ paid' \in [Users -> Nat] /\ takings' \in Nat
      /\ credits'[w] = credits[w] - 1 /\ paid'[w] = paid[w] + 1
      /\ \A u \in Users : u # w => credits'[u] = credits[u] /\ paid'[u] = paid[u]
  BY <1>1, <1>3, <1>4 DEF TypeOK
<1>9. /\ SumFunction(paid') = SumFunction(paid) + 1
      /\ SumFunction(paid) \in Nat
  <2>1. /\ SumFunction(paid') = SumFunctionOnSet(paid', Users)
        /\ SumFunction(paid) = SumFunctionOnSet(paid, Users)
    BY <1>1, <1>8, SumFunctionIs DEF TypeOK
  <2>2. PICK p, q : p = paid /\ q = paid'
    OBVIOUS
  <2>3. /\ p \in [Users -> Nat] /\ q \in [Users -> Nat]
        /\ \A u \in Users : u # w => q[u] = p[u]
        /\ q[w] = p[w] + 1
    BY <1>1, <1>8, <2>2 DEF TypeOK
  <2>4. SumFunctionOnSet(q, Users) = SumFunctionOnSet(p, Users) + (q[w] - p[w])
    BY <2>3, SumChange, AuctionsAssumption
  <2>5. SumFunctionOnSet(p, Users) \in Nat
    BY <2>3, SumNat, AuctionsAssumption
  <2> QED
    BY <2>1, <2>2, <2>3, <2>4, <2>5
<1>10. /\ BidsInProgress' /\ bidding' \in [Auctions -> {NoBid} \cup Bid]
  <2>1. \A b \in Auctions : b # a /\ InBid(b) =>
           /\ auctions'[b].status = "live"
           /\ credits'[bidding[b].by] = credits[bidding[b].by]
    BY <1>1, <1>2, <1>6, <1>8, BidRow DEF BidsInProgress
  <2>2. \A n \in Int : n <= SumFunction(paid) => n <= SumFunction(paid)'
    BY <1>9
  <2> QED
    BY <1>1, <1>4, <2>1, <2>2, BidReleased
<1>11. TypeOK'
  BY <1>1, <1>6, <1>8, <1>10 DEF TypeOK
<1>12. RunReads'
  <2>1. \A r \in Row : Relistable(r.auction) => Relistable(r.auction)'
                          /\ auctions'[r.auction].bids = auctions[r.auction].bids
    BY <1>1, <1>3, <1>6, RunRow DEF Relistable
  <2>2. \A r \in Row : Range(auctions[r.auction].bids) \subseteq
                         Range(auctions'[r.auction].bids)
    BY <1>1, <1>5, <1>6, <1>7, RunRow
  <2> QED
    BY <1>1, <2>1, <2>2, RunRow DEF RunReads
<1>13. PriceCountsBids'
  BY <1>3, <1>5, <1>6, <1>7 DEF AuctionsInv, PriceCountsBids
<1>14. WinnerHasBid'
  <2>1. \A b \in Auctions : auctions'[b].winner # NoUser =>
           b # a /\ auctions'[b] = auctions[b] /\ time'[b] = time[b]
    BY <1>6, <1>7
  <2> QED
    BY <2>1 DEF AuctionsInv, WinnerHasBid
<1>15. BidsArePaid'
  <2>1. \A u \in Users : /\ credits[u] = InitialCredits[u] - paid[u]
                         /\ InitialCredits[u] \in Nat /\ paid[u] \in Nat
    BY <1>1, AuctionsAssumption DEF AuctionsInv, BidsArePaid, TypeOK
  <2>2. \A u \in Users : credits'[u] = InitialCredits[u] - paid'[u]
    BY <1>8, <2>1
  <2>3. takings' <= SumFunction(paid')
    BY <1>3, <1>4, <1>9
  <2> QED
    BY <2>2, <2>3 DEF BidsArePaid
<1> QED
  BY <1>10, <1>11, <1>12, <1>13, <1>14, <1>15 DEF AuctionsInv

-----------------------------------------------------------------------------
(* Steps that leave bids, wallets and payments alone.                      *)

\* An auction that changes has no bid in progress, unless it stays live.
LEMMA OthersKept ==
    ASSUME AuctionsInv, UNCHANGED <<credits, takings, paid, bidding>>,
           NEW a \in Auctions, ~ InBid(a),
           \A b \in Auctions : b # a => auctions'[b] = auctions[b] /\ time'[b] = time[b]
    PROVE  BidsInProgress' /\ BidsArePaid'
<1>1. \A b \in Auctions : InBid(b)' => InBid(b) /\ b # a
  BY DEF InBid
<1>2. BidsInProgress'
  BY <1>1 DEF AuctionsInv, BidsInProgress
<1> QED
  BY <1>2 DEF AuctionsInv, BidsArePaid

\* An auction that ends with a winner who has bid
LEMMA Ended ==
    ASSUME AuctionsInv, UNCHANGED <<time, credits, takings, paid, bidding>>,
           NEW a \in Auctions, RowFree(a),
           NEW winner \in Users \cup {NoUser}, NEW mailed \in BOOLEAN,
           auctions' = [auctions EXCEPT ![a] = [EndedAs(@, winner) EXCEPT !.mailed = mailed]],
           winner # NoUser => winner \in Range(auctions[a].bids)
    PROVE  /\ auctions' \in [Auctions -> AuctionRow]
           /\ \A b \in Auctions : auctions'[b].bids = auctions[b].bids
           /\ \A b \in Auctions : Relistable(b) => Relistable(b)'
           /\ BidsInProgress' /\ BidsArePaid' /\ PriceCountsBids' /\ WinnerHasBid'
<1>1. TypeOK /\ auctions[a] \in AuctionRow
  BY AuctionsRow DEF AuctionsInv
<1>2. /\ auctions'[a] = [[auctions[a] EXCEPT !.status = "ended", !.winner = winner]
                            EXCEPT !.mailed = mailed]
      /\ \A b \in Auctions : b # a => auctions'[b] = auctions[b]
      /\ auctions' \in [Auctions -> AuctionRow]
  BY <1>1 DEF TypeOK, AuctionRow, EndedAs
<1>3. /\ auctions'[a].status = "ended" /\ auctions'[a].winner = winner
      /\ auctions'[a].bids = auctions[a].bids
  BY <1>1, <1>2 DEF AuctionRow
<1>4. \A b \in Auctions : Relistable(b) => Relistable(b)'
  BY <1>2, <1>3 DEF Relistable
<1>5. BidsInProgress' /\ BidsArePaid'
  BY <1>2, OthersKept DEF RowFree
<1>6. PriceCountsBids' /\ WinnerHasBid'
  BY <1>2, <1>3 DEF AuctionsInv, PriceCountsBids, WinnerHasBid
<1> QED
  BY <1>2, <1>3, <1>4, <1>5, <1>6

LEMMA CloseByPageStep ==
    ASSUME AuctionsInv, NEW a \in Auctions, CloseByPage(a)
    PROVE  AuctionsInv'
<1> DEFINE winner == WinnerOr(auctions[a].winner, LastBidder(a))
           mailed == auctions[a].mailed \/ winner # NoUser
<1>1. /\ TypeOK /\ RunReads /\ run' = run
      /\ UNCHANGED <<time, credits, takings, paid, bidding>>
      /\ RowFree(a) /\ auctions[a].status = "live" /\ auctions[a] \in AuctionRow
  BY AuctionsRow DEF AuctionsInv, CloseByPage
<1>2. auctions[a].winner = NoUser
  BY <1>1 DEF AuctionsInv, WinnerHasBid
<1>3. /\ winner \in Users \cup {NoUser}
      /\ winner # NoUser => winner \in Range(auctions[a].bids)
  BY <1>1, <1>2, LastBidderBids DEF WinnerOr
<1>4. auctions' = [auctions EXCEPT ![a] = [EndedAs(@, winner) EXCEPT !.mailed = mailed]]
  <2>1. EndedAs(auctions[a], winner).mailed = auctions[a].mailed
    BY <1>1 DEF EndedAs, AuctionRow
  <2>2. auctions' = [auctions EXCEPT ![a] = [EndedAs(auctions[a], winner)
                       EXCEPT !.mailed = EndedAs(auctions[a], winner).mailed \/ winner # NoUser]]
    BY DEF CloseByPage
  <2> QED
    BY <2>1, <2>2
<1>5. mailed \in BOOLEAN
  BY <1>1 DEF AuctionRow
<1> HIDE DEF winner, mailed
<1>6. /\ auctions' \in [Auctions -> AuctionRow]
      /\ \A b \in Auctions : auctions'[b].bids = auctions[b].bids
      /\ \A b \in Auctions : Relistable(b) => Relistable(b)'
      /\ BidsInProgress' /\ BidsArePaid' /\ PriceCountsBids' /\ WinnerHasBid'
  BY <1>1, <1>3, <1>4, <1>5, Ended
<1>7. TypeOK'
  BY <1>1, <1>6 DEF TypeOK
<1>8. RunReads'
  BY <1>1, <1>6, RunRow DEF RunReads
<1> QED
  BY <1>6, <1>7, <1>8 DEF AuctionsInv


LEMMA EndSavesStep ==
    ASSUME AuctionsInv, EndSaves
    PROVE  AuctionsInv'
<1> DEFINE tells == run.winner # NoUser /\ ~ run.row.mailed
<1>1. TypeOK /\ RunReads /\ run.phase = "saving"
  BY DEF AuctionsInv, EndSaves
<1>2. PICK a \in Auctions : a = run.row.auction
  BY <1>1, RunRow DEF RunReads
<1>3. PICK winner \in Users \cup {NoUser} : winner = run.winner
  BY <1>1, RunRow
<1>4. /\ UNCHANGED <<time, credits, takings, paid, bidding>>
      /\ RowFree(a) /\ auctions[a] \in AuctionRow
      /\ auctions' = [auctions EXCEPT ![a] = EndedAs(auctions[a], winner)]
  BY <1>1, <1>2, <1>3, AuctionsRow DEF EndSaves
<1>5. winner # NoUser => winner \in Range(auctions[a].bids)
  BY <1>1, <1>2, <1>3 DEF RunReads
<1>6. EndedAs(auctions[a], winner)
         = [EndedAs(auctions[a], winner) EXCEPT !.mailed = auctions[a].mailed]
  BY <1>4 DEF EndedAs, AuctionRow
<1>7. auctions[a].mailed \in BOOLEAN
  BY <1>4 DEF AuctionRow
<1>8. /\ auctions' \in [Auctions -> AuctionRow]
      /\ BidsInProgress' /\ BidsArePaid' /\ PriceCountsBids' /\ WinnerHasBid'
  BY <1>4, <1>5, <1>6, <1>7, Ended
<1>9. /\ run'.phase \in {"telling", "ending"} /\ run'.todo = run.todo
      /\ run'.phase = "telling" => run'.row = run.row
      /\ run' \in [phase : Phases, todo : SUBSET Row, row : Row \cup {NoUser},
                   winner : Users \cup {NoUser}, crashes : Nat]
  <2>1. run' = [run EXCEPT !.phase = IF tells THEN "telling" ELSE "ending",
                           !.row = IF tells THEN run.row ELSE NoUser, !.winner = NoUser]
    BY <1>1 DEF EndSaves, TypeOK
  <2>2. CASE tells
    BY <1>1, <2>1, <2>2 DEF TypeOK, Phases
  <2>3. CASE ~ tells
    BY <1>1, <2>1, <2>3 DEF TypeOK, Phases
  <2> QED
    BY <2>2, <2>3
<1>10. TypeOK'
  BY <1>1, <1>4, <1>8, <1>9 DEF TypeOK
<1>11. RunReads'
  BY <1>1, <1>9 DEF RunReads
<1> QED
  BY <1>8, <1>10, <1>11 DEF AuctionsInv

LEMMA TellsStep ==
    ASSUME AuctionsInv, NEW told \in BOOLEAN, Tells(told)
    PROVE  AuctionsInv'
<1>1. /\ TypeOK /\ RunReads /\ run.phase = "telling"
      /\ UNCHANGED <<time, credits, takings, paid, bidding>>
  BY DEF AuctionsInv, Tells
<1>2. PICK a \in Auctions : a = run.row.auction
  BY <1>1, RunRow DEF RunReads
<1>3. auctions[a] \in AuctionRow
  BY <1>1, AuctionsRow
<1>4. /\ auctions' = [auctions EXCEPT ![a].mailed = @ \/ told]
      /\ run' = [run EXCEPT !.phase = "ending", !.row = NoUser]
  BY <1>2 DEF Tells
<1>5. /\ auctions'[a] = [auctions[a] EXCEPT !.mailed = @ \/ told]
      /\ \A b \in Auctions : b # a => auctions'[b] = auctions[b]
      /\ auctions' \in [Auctions -> AuctionRow]
  <2> DEFINE row == [auctions[a] EXCEPT !.mailed = @ \/ told]
  <2>1. row \in AuctionRow
    BY <1>3 DEF AuctionRow
  <2>2. auctions' = [auctions EXCEPT ![a] = row]
    BY <1>1, <1>4 DEF TypeOK
  <2> HIDE DEF row
  <2>3. /\ auctions'[a] = row
        /\ \A b \in Auctions : b # a => auctions'[b] = auctions[b]
        /\ auctions' \in [Auctions -> AuctionRow]
    BY <1>1, <2>1, <2>2 DEF TypeOK
  <2> QED
    BY <2>3 DEF row
<1>6. \A b \in Auctions : /\ auctions'[b].status = auctions[b].status
                          /\ auctions'[b].bids = auctions[b].bids
                          /\ auctions'[b].price = auctions[b].price
                          /\ auctions'[b].winner = auctions[b].winner
  BY <1>3, <1>5 DEF AuctionRow
<1>7. /\ run'.phase = "ending" /\ run'.todo = run.todo
      /\ run' \in [phase : Phases, todo : SUBSET Row, row : Row \cup {NoUser},
                   winner : Users \cup {NoUser}, crashes : Nat]
  BY <1>1, <1>4 DEF TypeOK, Phases
<1>8. TypeOK'
  BY <1>1, <1>5, <1>7 DEF TypeOK
<1>9. RunReads'
  BY <1>1, <1>7 DEF RunReads
<1>10. BidsInProgress' /\ BidsArePaid' /\ PriceCountsBids' /\ WinnerHasBid'
  BY <1>1, <1>6 DEF AuctionsInv, BidsInProgress, InBid, BidsArePaid, PriceCountsBids,
                    WinnerHasBid
<1> QED
  BY <1>8, <1>9, <1>10 DEF AuctionsInv

LEMMA RelistDeletesStep ==
    ASSUME AuctionsInv, NEW r \in run.todo, RelistDeletes(r)
    PROVE  AuctionsInv'
<1>1. /\ TypeOK /\ RunReads /\ run.phase = "relisting"
      /\ UNCHANGED <<time, credits, takings, paid, bidding>>
  BY DEF AuctionsInv, RelistDeletes
<1>2. r \in Row
  BY <1>1, RunRow
<1>3. PICK a \in Auctions : a = r.auction
  BY <1>1, <1>2, RunRow
<1>4. auctions[a] \in AuctionRow /\ Relistable(a)
  BY <1>1, <1>3, AuctionsRow DEF RunReads
<1>5. /\ auctions'[a] = [auctions[a] EXCEPT !.bids = <<>>]
      /\ \A b \in Auctions : b # a => auctions'[b] = auctions[b]
      /\ auctions' \in [Auctions -> AuctionRow]
  <2> DEFINE row == [auctions[a] EXCEPT !.bids = <<>>]
  <2>1. row \in AuctionRow
    BY <1>4, EmptySeq DEF AuctionRow
  <2>2. auctions' = [auctions EXCEPT ![a] = row]
    BY <1>1, <1>3 DEF TypeOK, RelistDeletes
  <2> HIDE DEF row
  <2>3. /\ auctions'[a] = row
        /\ \A b \in Auctions : b # a => auctions'[b] = auctions[b]
        /\ auctions' \in [Auctions -> AuctionRow]
    BY <1>1, <2>1, <2>2 DEF TypeOK
  <2> QED
    BY <2>3 DEF row
<1>6. auctions'[a].bids = <<>> /\ auctions'[a].status = "ended"
  BY <1>4, <1>5 DEF AuctionRow, Relistable
<1>7. /\ run'.phase = "resetting" /\ run'.todo = run.todo \ {r} /\ run'.row = r
      /\ run' \in [phase : Phases, todo : SUBSET Row, row : Row \cup {NoUser},
                   winner : Users \cup {NoUser}, crashes : Nat]
  BY <1>1, <1>2 DEF TypeOK, Phases, RelistDeletes
<1>8. TypeOK'
  BY <1>1, <1>5, <1>7 DEF TypeOK
<1>9. \A b \in Auctions : Relistable(b) => Relistable(b)'
  BY <1>1, <1>5, <1>6 DEF Relistable
<1>10. RunReads'
  <2>1. \A s \in run.todo : s.auction \in Auctions
    BY <1>1, RunRow
  <2>2. \A s \in run'.todo : s \in run.todo /\ s.auction # r.auction /\ Relistable(s.auction)'
    BY <1>1, <1>7, <1>9, <2>1 DEF RunReads
  <2>3. Relistable(a)'
    BY <1>4, <1>9
  <2> QED
    BY <1>1, <1>2, <1>3, <1>6, <1>7, <2>2, <2>3 DEF RunReads
<1>11. ~ InBid(a)
  BY <1>4 DEF AuctionsInv, BidsInProgress, Relistable
<1>12. BidsInProgress' /\ BidsArePaid'
  BY <1>1, <1>5, <1>11, OthersKept
<1>13. PriceCountsBids' /\ WinnerHasBid'
  <2>1. \A b \in Auctions : auctions'[b].winner = auctions[b].winner
    BY <1>4, <1>5 DEF AuctionRow
  <2>2. PriceCountsBids'
    BY <1>5, <1>6 DEF AuctionsInv, PriceCountsBids
  <2>3. ASSUME NEW b \in Auctions, auctions'[b].winner # NoUser
        PROVE  /\ auctions'[b].status = "ended"
               /\ \/ auctions'[b].winner \in Range(auctions'[b].bids)
                  \/ auctions'[b].bids = <<>> /\ time'[b] = "stale"
    <3>1. CASE b = a
      BY <1>1, <1>4, <1>6, <3>1 DEF Relistable
    <3>2. CASE b # a
      BY <1>1, <1>5, <2>3, <3>2 DEF AuctionsInv, WinnerHasBid
    <3> QED
      BY <3>1, <3>2
  <2> QED
    BY <2>2, <2>3 DEF WinnerHasBid
<1> QED
  BY <1>8, <1>10, <1>12, <1>13 DEF AuctionsInv

LEMMA RelistSavesStep ==
    ASSUME AuctionsInv, RelistSaves
    PROVE  AuctionsInv'
<1>1. /\ TypeOK /\ RunReads /\ run.phase = "resetting"
      /\ UNCHANGED <<credits, takings, paid, bidding>>
  BY DEF AuctionsInv, RelistSaves
<1>2. PICK a \in Auctions : a = run.row.auction
  BY <1>1, RunRow DEF RunReads
<1>3. auctions[a] \in AuctionRow /\ Relistable(a) /\ auctions[a].bids = <<>>
  BY <1>1, <1>2, AuctionsRow DEF RunReads
<1>4. /\ auctions'[a] = Relisted(auctions[a])
      /\ \A b \in Auctions : b # a => auctions'[b] = auctions[b] /\ time'[b] = time[b]
      /\ auctions' \in [Auctions -> AuctionRow]
      /\ time' \in [Auctions -> {"running", "over", "stale"}]
  <2> DEFINE row == Relisted(auctions[a])
  <2>1. row \in AuctionRow
    BY <1>3 DEF AuctionRow, Relisted
  <2>2. auctions' = [auctions EXCEPT ![a] = row] /\ time' = [time EXCEPT ![a] = "running"]
    BY <1>1, <1>2 DEF TypeOK, RelistSaves
  <2> HIDE DEF row
  <2>3. /\ auctions'[a] = row
        /\ \A b \in Auctions : b # a => auctions'[b] = auctions[b] /\ time'[b] = time[b]
        /\ auctions' \in [Auctions -> AuctionRow]
        /\ time' \in [Auctions -> {"running", "over", "stale"}]
    BY <1>1, <2>1, <2>2 DEF TypeOK
  <2> QED
    BY <2>3 DEF row
<1>5. /\ auctions'[a].bids = <<>> /\ auctions'[a].status = "live"
      /\ auctions'[a].price = 0 /\ auctions'[a].winner = NoUser
  BY <1>3, <1>4 DEF AuctionRow, Relisted
<1>6. /\ run'.phase = "relisting" /\ run'.todo = run.todo
      /\ run' \in [phase : Phases, todo : SUBSET Row, row : Row \cup {NoUser},
                   winner : Users \cup {NoUser}, crashes : Nat]
  BY <1>1 DEF TypeOK, Phases, RelistSaves
<1>7. TypeOK'
  BY <1>1, <1>4, <1>6 DEF TypeOK
<1>8. RunReads'
  <2>1. \A s \in run.todo : /\ s.auction \in Auctions /\ s.auction # a
                            /\ Relistable(s.auction)
    BY <1>1, <1>2, RunRow DEF RunReads
  <2>2. \A s \in run.todo : Relistable(s.auction)'
    BY <1>4, <2>1 DEF Relistable
  <2> QED
    BY <1>1, <1>6, <2>2 DEF RunReads
<1>9. BidsInProgress' /\ BidsArePaid'
  <2>1. ~ InBid(a)
    BY <1>3 DEF AuctionsInv, BidsInProgress, Relistable
  <2> QED
    BY <1>1, <1>4, <2>1, OthersKept
<1>10. PriceCountsBids' /\ WinnerHasBid'
  <2>1. Len(<<>>) = 0
    BY LenProperties, EmptySeq
  <2> QED
    BY <1>4, <1>5, <2>1 DEF AuctionsInv, PriceCountsBids, WinnerHasBid
<1> QED
  BY <1>7, <1>8, <1>9, <1>10 DEF AuctionsInv

-----------------------------------------------------------------------------
(* Steps of the command that change nothing but itself, and time.          *)

\* What the command reads does not disturb what it has read before, nor the
\* auctions.
LEMMA OnlyRunChanges ==
    ASSUME AuctionsInv, UNCHANGED <<auctions, time, credits, takings, paid, bidding>>,
           run' \in [phase : Phases, todo : SUBSET Row, row : Row \cup {NoUser},
                     winner : Users \cup {NoUser}, crashes : Nat],
           RunReads'
    PROVE  AuctionsInv'
<1>1. TypeOK'
  BY DEF AuctionsInv, TypeOK
<1> QED
  BY <1>1 DEF AuctionsInv, BidsInProgress, InBid, BidsArePaid, PriceCountsBids, WinnerHasBid

LEMMA ReadRows ==
    ASSUME TypeOK, NEW S \in SUBSET Auctions
    PROVE  /\ {AsRead(a) : a \in S} \in SUBSET Row
           /\ \A r \in {AsRead(a) : a \in S} :
                 r.auction \in S /\ r.winner = auctions[r.auction].winner
           /\ \A r, s \in {AsRead(a) : a \in S} : r.auction = s.auction => r = s
<1>1. \A a \in S : /\ AsRead(a) \in Row /\ AsRead(a).auction = a
                   /\ AsRead(a).winner = auctions[a].winner
  BY AuctionsRow DEF AsRead, Row
<1> QED
  BY <1>1

LEMMA RunStartsStep == ASSUME AuctionsInv, RunStarts PROVE AuctionsInv'
<1> DEFINE S == {b \in Auctions : Expired(b)}
           read == {AsRead(a) : a \in S}
<1>1. TypeOK /\ UNCHANGED <<auctions, time, credits, takings, paid, bidding>>
  BY DEF AuctionsInv, RunStarts
<1>2. S \in SUBSET Auctions
  OBVIOUS
<1>3. \A a \in S : auctions[a].winner = NoUser
  BY DEF AuctionsInv, WinnerHasBid, Expired
<1>4. run' = [run EXCEPT !.phase = "ending", !.todo = read]
  BY DEF RunStarts
<1> HIDE DEF S
<1>5. /\ read \in SUBSET Row
      /\ \A r \in read : r.winner = NoUser
      /\ \A r, s \in read : r.auction = s.auction => r = s
  BY <1>1, <1>2, <1>3, ReadRows
<1> HIDE DEF read
<1>6. /\ run' \in [phase : Phases, todo : SUBSET Row, row : Row \cup {NoUser},
                   winner : Users \cup {NoUser}, crashes : Nat]
      /\ run'.phase = "ending" /\ run'.todo = read
  BY <1>1, <1>4, <1>5 DEF TypeOK, Phases
<1>7. RunReads'
  BY <1>5, <1>6 DEF RunReads
<1> QED
  BY <1>1, <1>6, <1>7, OnlyRunChanges

LEMMA EndReadsStep ==
    ASSUME AuctionsInv, NEW r \in run.todo, EndReads(r)
    PROVE  AuctionsInv'
<1>1. /\ TypeOK /\ RunReads /\ run.phase = "ending"
      /\ UNCHANGED <<auctions, time, credits, takings, paid, bidding>>
  BY DEF AuctionsInv, EndReads
<1>2. r \in Row /\ r.winner = NoUser
  BY <1>1, RunRow DEF RunReads
<1>3. PICK a \in Auctions : a = r.auction
  BY <1>1, <1>2, RunRow
<1>4. PICK winner \in Users \cup {NoUser} : winner = LastBidder(a)
  BY <1>1, LastBidderBids
<1>5. winner # NoUser => winner \in Range(auctions[a].bids)
  BY <1>1, <1>4, LastBidderBids
<1>6. run' = [run EXCEPT !.phase = "saving", !.todo = @ \ {r}, !.row = r, !.winner = winner]
  BY <1>2, <1>3, <1>4 DEF EndReads, WinnerOr
<1>7. /\ run' \in [phase : Phases, todo : SUBSET Row, row : Row \cup {NoUser},
                   winner : Users \cup {NoUser}, crashes : Nat]
      /\ run'.phase = "saving" /\ run'.todo = run.todo \ {r} /\ run'.row = r
      /\ run'.winner = winner
  BY <1>1, <1>2, <1>6 DEF TypeOK, Phases
<1>8. RunReads'
  BY <1>1, <1>2, <1>3, <1>5, <1>7 DEF RunReads
<1> QED
  BY <1>1, <1>7, <1>8, OnlyRunChanges

\* The command ends, or is killed.
LEMMA RunStopsStep ==
    ASSUME AuctionsInv, UNCHANGED <<auctions, time, credits, takings, paid, bidding>>,
           NEW n \in Nat, run' = [NoRun EXCEPT !.crashes = n]
    PROVE  AuctionsInv'
<1>1. /\ run' \in [phase : Phases, todo : SUBSET Row, row : Row \cup {NoUser},
                   winner : Users \cup {NoUser}, crashes : Nat]
      /\ run'.phase = "none" /\ run'.todo = {}
  BY DEF NoRun, Phases
<1>2. RunReads'
  BY <1>1 DEF RunReads
<1> QED
  BY <1>1, <1>2, OnlyRunChanges

LEMMA RelistStartsStep == ASSUME AuctionsInv, RelistStarts PROVE AuctionsInv'
<1> DEFINE S == {b \in Auctions : Relistable(b)}
           read == {AsRead(a) : a \in S}
<1>1. TypeOK /\ UNCHANGED <<auctions, time, credits, takings, paid, bidding>>
  BY DEF AuctionsInv, RelistStarts
<1>2. CASE RunStops
  BY <1>1, <1>2, RunRow, RunStopsStep DEF RunStops
<1>3. CASE run' = [run EXCEPT !.phase = "relisting", !.todo = read]
  <2>1. S \in SUBSET Auctions
    OBVIOUS
  <2>2. \A a \in S : Relistable(a)'
    BY <1>1 DEF Relistable
  <2> HIDE DEF S
  <2>3. /\ read \in SUBSET Row
        /\ \A r \in read : r.auction \in S
        /\ \A r, s \in read : r.auction = s.auction => r = s
    BY <1>1, <2>1, ReadRows
  <2> HIDE DEF read
  <2>4. /\ run' \in [phase : Phases, todo : SUBSET Row, row : Row \cup {NoUser},
                     winner : Users \cup {NoUser}, crashes : Nat]
        /\ run'.phase = "relisting" /\ run'.todo = read
    BY <1>1, <1>3, <2>3 DEF TypeOK, Phases
  <2>5. RunReads'
    BY <2>2, <2>3, <2>4 DEF RunReads
  <2> QED
    BY <1>1, <2>4, <2>5, OnlyRunChanges
<1> QED
  BY <1>2, <1>3 DEF RelistStarts

LEMMA TimePassesStep ==
    ASSUME AuctionsInv, NEW a \in Auctions, TimePasses(a)
    PROVE  AuctionsInv'
<1>1. /\ TypeOK /\ UNCHANGED <<auctions, credits, takings, paid, bidding, run>>
      /\ time' \in [Auctions -> {"running", "over", "stale"}]
      /\ \A b \in Auctions : time[b] = "stale" => time'[b] = "stale"
  BY DEF AuctionsInv, TimePasses, TypeOK
<1>2. TypeOK' /\ BidsInProgress' /\ BidsArePaid' /\ PriceCountsBids'
  BY <1>1 DEF AuctionsInv, TypeOK, BidsInProgress, InBid, BidsArePaid, PriceCountsBids
<1>3. \A b \in Auctions : Relistable(b) => Relistable(b)'
  BY <1>1 DEF Relistable
<1>4. RunReads'
  BY <1>1, <1>3, RunRow DEF AuctionsInv, RunReads
<1>5. WinnerHasBid'
  BY <1>1 DEF AuctionsInv, WinnerHasBid
<1> QED
  BY <1>2, <1>4, <1>5 DEF AuctionsInv

LEMMA NextAuctions == AuctionsInv /\ [Next]_vars => AuctionsInv'
<1> SUFFICES ASSUME AuctionsInv, [Next]_vars PROVE AuctionsInv'
  OBVIOUS
<1>1. CASE UNCHANGED vars
  BY <1>1 DEF vars, AuctionsInv, TypeOK, BidsInProgress, InBid, BidsArePaid, PriceCountsBids,
              WinnerHasBid, RunReads, Relistable
<1>2. CASE RunEnds
  BY <1>2, RunStopsStep, RunRow DEF RunEnds, RunStops, AuctionsInv
<1>3. CASE RunCrashes
  <2>1. run.crashes + 1 \in Nat
    BY RunRow DEF AuctionsInv
  <2> QED
    BY <1>3, <2>1, RunStopsStep DEF RunCrashes
<1> QED
  BY <1>1, <1>2, <1>3, BidLocksStep, BidCommitsStep, BidFailsStep, CloseByPageStep,
     RunStartsStep, EndReadsStep, EndSavesStep, TellsStep, RelistStartsStep,
     RelistDeletesStep, RelistSavesStep, TimePassesStep DEF Next, Run

-----------------------------------------------------------------------------
(* The theorems.                                                           *)

\* Every behaviour keeps the inductive invariant, whenever the command is
\* killed and whatever it has read.
THEOREM AuctionsInvariant == Spec => []AuctionsInv
BY InitAuctions, NextAuctions, PTL DEF Spec

\* The price of a live auction is its starting price and an increment for each
\* bid on it.
THEOREM PricesCountBids == Spec => []PriceCountsBids
<1>1. AuctionsInv => PriceCountsBids
  BY DEF AuctionsInv
<1> QED
  BY <1>1, AuctionsInvariant, PTL

\* Who wins has bid in this round.
THEOREM WinnersHaveBid == Spec => []WinnerHasBid
<1>1. AuctionsInv => WinnerHasBid
  BY DEF AuctionsInv
<1> QED
  BY <1>1, AuctionsInvariant, PTL

\* Every bid is paid for once, by its bidder, and the platform never gets more.
THEOREM EveryBidIsPaid == Spec => []BidsArePaid
<1>1. AuctionsInv => BidsArePaid
  BY DEF AuctionsInv
<1> QED
  BY <1>1, AuctionsInvariant, PTL

\* An auction that has ended takes no bid before it is relisted.
THEOREM EndedTakesNoBid == Spec => NoBidAfterEnd
<1>1. ASSUME AuctionsInv, [Next]_vars, NEW a \in Auctions,
             auctions[a].status = "ended", auctions'[a].status = "ended"
      PROVE  /\ auctions'[a].price = auctions[a].price
             /\ Len(auctions'[a].bids) <= Len(auctions[a].bids)
  <2> DEFINE Kept == auctions'[a].price = auctions[a].price
                     /\ auctions'[a].bids \in {auctions[a].bids, <<>>}
  <2>1. /\ TypeOK /\ auctions[a] \in AuctionRow
        /\ Len(auctions[a].bids) \in Nat /\ Len(<<>>) = 0
    BY <1>1, AuctionsRow, LenProperties, EmptySeq DEF AuctionsInv
  <2>2. ASSUME NEW b \in Auctions, BidCommits(b) PROVE Kept
    <3>1. b # a
      BY <1>1, <2>2 DEF AuctionsInv, BidsInProgress, BidCommits
    <3> QED
      BY <2>1, <2>2, <3>1 DEF BidCommits, TypeOK
  <2>3. ASSUME NEW b \in Auctions, CloseByPage(b) PROVE Kept
    BY <2>1, <2>3 DEF CloseByPage, EndedAs, TypeOK, AuctionRow
  <2>4. ASSUME EndSaves PROVE Kept
    BY <2>1, <2>4 DEF EndSaves, EndedAs, TypeOK, AuctionRow
  <2>5. ASSUME NEW told \in BOOLEAN, Tells(told) PROVE Kept
    BY <2>1, <2>5 DEF Tells, TypeOK, AuctionRow
  <2>6. ASSUME NEW r \in run.todo, RelistDeletes(r) PROVE Kept
    BY <2>1, <2>6 DEF RelistDeletes, TypeOK, AuctionRow
  <2>7. ASSUME RelistSaves PROVE Kept
    <3>1. run.row.auction # a
      BY <1>1, <2>1, <2>7 DEF RelistSaves, Relisted, TypeOK, AuctionRow
    <3> QED
      BY <2>1, <2>7, <3>1 DEF RelistSaves, TypeOK
  <2>8. ASSUME UNCHANGED auctions PROVE Kept
    BY <2>8
  <2>9. /\ \A u, b : BidLocks(u, b) => UNCHANGED auctions
        /\ \A b : BidFails(b) \/ TimePasses(b) => UNCHANGED auctions
        /\ \A r : EndReads(r) => UNCHANGED auctions
        /\ RunStarts \/ RelistStarts \/ RunEnds \/ RunCrashes => UNCHANGED auctions
        /\ UNCHANGED vars => UNCHANGED auctions
    BY DEF vars, BidLocks, BidFails, RunStarts, EndReads, RelistStarts, RunEnds,
           RunCrashes, TimePasses
  <2> HIDE DEF Kept
  <2>10. ASSUME Run PROVE Kept
    <3>1. CASE RunStarts \/ RelistStarts \/ RunEnds \/ EndSaves \/ RelistSaves
      BY <2>4, <2>7, <2>8, <2>9, <3>1
    <3>2. CASE \E r \in run.todo : EndReads(r)
      BY <2>8, <2>9, <3>2
    <3>3. CASE \E told \in BOOLEAN : Tells(told)
      BY <2>5, <3>3
    <3>4. CASE \E r \in run.todo : RelistDeletes(r)
      BY <2>6, <3>4
    <3> QED
      BY <2>10, <3>1, <3>2, <3>3, <3>4 DEF Run
  <2>11. Kept
    BY <1>1, <2>2, <2>3, <2>8, <2>9, <2>10 DEF Next
  <2> QED
    BY <2>1, <2>11 DEF Kept
<1>2. AuctionsInv /\ [Next]_vars =>
         [\A a \in Auctions :
            auctions[a].status = "ended" /\ auctions'[a].status = "ended" =>
               /\ auctions'[a].price = auctions[a].price
               /\ Len(auctions'[a].bids) <= Len(auctions[a].bids)]_vars
  BY <1>1
<1> QED
  BY <1>2, AuctionsInvariant, PTL DEF Spec, NoBidAfterEnd

=============================================================================
