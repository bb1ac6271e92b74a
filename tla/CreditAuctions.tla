---------------------------- MODULE CreditAuctions ----------------------------
(***************************************************************************)
(* The credit auctions: place_bid and close_auction (services.py), which   *)
(* the pages call, and the part of process_auctions.py that ends and       *)
(* relists auctions.                                                       *)
(*                                                                         *)
(* A bid is one transaction, cut in two here: it locks the auction and the *)
(* bidder's wallet and reads the platform's wallet, which it does not lock;*)
(* then it writes everything and commits, or fails with the e-mail it sends*)
(* to the bidder it outbids.  The command runs outside any transaction:    *)
(* each of its reads and writes is a step, its writes wait for the row, and*)
(* it may be killed between any two.                                       *)
(*                                                                         *)
(* Left out: drafts, and what else the pages do with wallets               *)
(* (CreditWallets).                                                        *)
(***************************************************************************)
EXTENDS Integers, FiniteSets, SequencesExt, FiniteSetsExt

CONSTANTS
    Auctions,        \* credit auctions, live at first
    Users,           \* customers; the platform account is not one of them
    NoUser,          \* no winner, no last bidder
    InitialCredits,  \* the credits of each customer
    MaxCrashes       \* bound on the runs of the command killed before they end

ASSUME AuctionsAssumption ==
    /\ IsFiniteSet(Users) /\ NoUser \notin Users
    /\ InitialCredits \in [Users -> Nat]
    /\ MaxCrashes \in Nat

VARIABLES
    auctions,  \* Auction: status, bids (Bid.user, oldest first), price, winner, mailed
    time,      \* where now is with respect to Auction.ends_at
    credits,   \* BidWallet.credits of the customers
    takings,   \* BidWallet.credits of the platform account
    paid,      \* WalletTransaction rows a customer has sent
    bidding,   \* place_bid in progress: the bidder and what it has read, per auction
    run        \* the run of process_auctions

vars == <<auctions, time, credits, takings, paid, bidding, run>>

NoBid == [by |-> NoUser, credits |-> 0, takings |-> 0]
NoRun == [phase |-> "none", todo |-> {}, row |-> NoUser, winner |-> NoUser, crashes |-> 0]

\* current_price counts increments from starting_price
Fresh == [status |-> "live", bids |-> <<>>, price |-> 0, winner |-> NoUser, mailed |-> FALSE]

Init ==
    /\ auctions = [a \in Auctions |-> Fresh]
    /\ time = [a \in Auctions |-> "running"]
    /\ credits = InitialCredits
    /\ takings = 0
    /\ paid = [u \in Users |-> 0]
    /\ bidding = [a \in Auctions |-> NoBid]
    /\ run = NoRun

LastBidder(a) == IF auctions[a].bids = <<>> THEN NoUser ELSE Last(auctions[a].bids)

-----------------------------------------------------------------------------
(* Faulty variants of the operators below.                                 *)

NeverLocked(a) == TRUE
WalletUnlocked(u) == TRUE
TimeIsUp(a) == time[a] = "over" /\ auctions[a].bids # <<>>
RelistedForNobody(old) == [Fresh EXCEPT !.winner = old.winner]
RelistedAtItsPrice(old) == [Fresh EXCEPT !.price = old.price]

-----------------------------------------------------------------------------
(* place_bid                                                               *)

\* The rows it locks, and keeps until it ends.
InBid(a) == bidding[a] # NoBid
RowFree(a) == ~ InBid(a)
WalletFree(u) == \A a \in Auctions : bidding[a].by # u

Biddable(a) == auctions[a].status = "live" /\ time[a] = "running"

BidLocks(u, a) ==
    /\ RowFree(a) /\ WalletFree(u)
    /\ Biddable(a)
    /\ credits[u] > 0
    /\ bidding' = [bidding EXCEPT ![a] =
                      [by |-> u, credits |-> credits[u], takings |-> takings]]
    /\ UNCHANGED <<auctions, time, credits, takings, paid, run>>

\* The platform wallet is overwritten with what was read and one more.  In the
\* last 45 seconds the auction is extended by 15.
BidCommits(a) ==
    LET bid == bidding[a]
    IN /\ InBid(a)
       /\ auctions' = [auctions EXCEPT ![a].bids = Append(@, bid.by), ![a].price = @ + 1]
       /\ credits' = [credits EXCEPT ![bid.by] = bid.credits - 1]
       /\ takings' = bid.takings + 1
       /\ paid' = [paid EXCEPT ![bid.by] = @ + 1]
       /\ \E extended \in BOOLEAN :
             time' = IF extended THEN [time EXCEPT ![a] = "running"] ELSE time
       /\ bidding' = [bidding EXCEPT ![a] = NoBid]
       /\ UNCHANGED run

\* The e-mail to the last bidder is not accepted: everything is rolled back.
BidFails(a) ==
    /\ InBid(a)
    /\ LastBidder(a) \notin {NoUser, bidding[a].by}
    /\ bidding' = [bidding EXCEPT ![a] = NoBid]
    /\ UNCHANGED <<auctions, time, credits, takings, paid, run>>

BidEnds(a) == BidCommits(a) \/ BidFails(a)

-----------------------------------------------------------------------------
(* Ending an auction.                                                      *)

WinnerOr(old, bidder) == IF bidder = NoUser THEN old ELSE bidder

EndedAs(old, winner) == [old EXCEPT !.status = "ended", !.winner = winner]

\* close_auction, from auction_list and auction_detail, which swallow its
\* failure; when the winner cannot be told, it rolls back and ends nothing.
CloseByPage(a) ==
    /\ RowFree(a)
    /\ auctions[a].status = "live" /\ time[a] # "running"
    /\ LET winner == WinnerOr(auctions[a].winner, LastBidder(a))
           old == auctions[a]
       IN auctions' = [auctions EXCEPT ![a] =
                          [EndedAs(old, winner) EXCEPT !.mailed = @ \/ winner # NoUser]]
    /\ UNCHANGED <<time, credits, takings, paid, bidding, run>>

\* The command reads the auctions that have expired,
Expired(a) == auctions[a].status = "live" /\ time[a] # "running"

AsRead(a) == [auction |-> a, winner |-> auctions[a].winner, mailed |-> auctions[a].mailed]

RunStarts ==
    /\ run.phase = "none"
    /\ run' = [run EXCEPT !.phase = "ending", !.todo = {AsRead(a) : a \in {b \in Auctions : Expired(b)}}]
    /\ UNCHANGED <<auctions, time, credits, takings, paid, bidding>>

\* then the last bid of each, without a lock,
EndReads(row) ==
    /\ run.phase = "ending" /\ row \in run.todo
    /\ run' = [run EXCEPT !.phase = "saving", !.todo = @ \ {row}, !.row = row,
                          !.winner = WinnerOr(row.winner, LastBidder(row.auction))]
    /\ UNCHANGED <<auctions, time, credits, takings, paid, bidding>>

\* and writes its status and winner, whatever the row has become.
EndSaves ==
    LET a == run.row.auction
        tells == run.winner # NoUser /\ ~ run.row.mailed
    IN /\ run.phase = "saving"
       /\ RowFree(a)
       /\ auctions' = [auctions EXCEPT ![a] = EndedAs(@, run.winner)]
       /\ run' = [run EXCEPT !.phase = IF tells THEN "telling" ELSE "ending",
                             !.row = IF tells THEN @ ELSE NoUser, !.winner = NoUser]
       /\ UNCHANGED <<time, credits, takings, paid, bidding>>

\* The winner is told; a failure is printed and forgotten.
Tells(told) ==
    /\ run.phase = "telling"
    /\ auctions' = [auctions EXCEPT ![run.row.auction].mailed = @ \/ told]
    /\ run' = [run EXCEPT !.phase = "ending", !.row = NoUser]
    /\ UNCHANGED <<time, credits, takings, paid, bidding>>

-----------------------------------------------------------------------------
(* Relisting.                                                              *)

RunStops == run' = [NoRun EXCEPT !.crashes = run.crashes]

\* AUCTION_RELIST_DAYS after it ended an auction starts again.
Relistable(a) == auctions[a].status = "ended" /\ time[a] = "stale"

\* A close of a Founder listing may raise first, and end the run.
RelistStarts ==
    /\ run.phase = "ending" /\ run.todo = {}
    /\ \/ run' = [run EXCEPT !.phase = "relisting", !.todo = {AsRead(a) : a \in {b \in Auctions : Relistable(b)}}]
       \/ RunStops
    /\ UNCHANGED <<auctions, time, credits, takings, paid, bidding>>

RelistDeletes(row) ==
    /\ run.phase = "relisting" /\ row \in run.todo
    /\ auctions' = [auctions EXCEPT ![row.auction].bids = <<>>]
    /\ run' = [run EXCEPT !.phase = "resetting", !.todo = @ \ {row}, !.row = row]
    /\ UNCHANGED <<time, credits, takings, paid, bidding>>

Relisted(old) == [old EXCEPT !.status = "live", !.price = 0, !.winner = NoUser, !.mailed = FALSE]

RelistSaves ==
    LET a == run.row.auction
    IN /\ run.phase = "resetting"
       /\ auctions' = [auctions EXCEPT ![a] = Relisted(@)]
       /\ time' = [time EXCEPT ![a] = "running"]
       /\ run' = [run EXCEPT !.phase = "relisting", !.row = NoUser]
       /\ UNCHANGED <<credits, takings, paid, bidding>>

RunEnds ==
    /\ run.phase = "relisting" /\ run.todo = {}
    /\ RunStops
    /\ UNCHANGED <<auctions, time, credits, takings, paid, bidding>>

RunCrashes ==
    /\ run.phase # "none" /\ run.crashes < MaxCrashes
    /\ run' = [NoRun EXCEPT !.crashes = run.crashes + 1]
    /\ UNCHANGED <<auctions, time, credits, takings, paid, bidding>>

Run ==
    \/ RunStarts
    \/ \E row \in run.todo : EndReads(row)
    \/ EndSaves
    \/ \E told \in BOOLEAN : Tells(told)
    \/ RelistStarts
    \/ \E row \in run.todo : RelistDeletes(row)
    \/ RelistSaves
    \/ RunEnds

\* ends_at passes, and then AUCTION_RELIST_DAYS, longer than any request lasts.
TimePasses(a) ==
    /\ \/ time[a] = "running" /\ time' = [time EXCEPT ![a] = "over"]
       \/ /\ time[a] = "over" /\ RowFree(a) /\ run.phase = "none"
          /\ time' = [time EXCEPT ![a] = "stale"]
    /\ UNCHANGED <<auctions, credits, takings, paid, bidding, run>>

Next ==
    \/ \E u \in Users, a \in Auctions : BidLocks(u, a)
    \/ \E a \in Auctions : BidCommits(a)
    \/ \E a \in Auctions : BidFails(a)
    \/ \E a \in Auctions : CloseByPage(a)
    \/ Run
    \/ RunCrashes
    \/ \E a \in Auctions : TimePasses(a)

\* run_auction_tasks.sh starts the command again for ever, transactions end, and a
\* write that waits for a row gets it in its turn (SF).  Nothing is assumed of
\* customers, of the pages or of the mail.
Fairness == SF_vars(Run) /\ \A a \in Auctions : WF_vars(BidEnds(a))

Spec == Init /\ [][Next]_vars /\ Fairness

-----------------------------------------------------------------------------
(* Properties.                                                             *)

\* Every round starts from nothing and counts its own bids: the price of a live
\* auction is its starting price and one increment for each bid on it, though
\* the command deletes bids and resets the row in separate transactions and
\* writes rows that have changed since it read them.
PriceCountsBids ==
    \A a \in Auctions :
        auctions[a].status = "live" => auctions[a].price = Len(auctions[a].bids)

\* Who wins has bid in this round: no winner of the round before stays, and a
\* winner's bid is only deleted to relist the auction.
WinnerHasBid ==
    \A a \in Auctions :
        auctions[a].winner # NoUser =>
            /\ auctions[a].status = "ended"
            /\ \/ auctions[a].winner \in Range(auctions[a].bids)
               \/ auctions[a].bids = <<>> /\ time[a] = "stale"

\* A customer's balance and WalletTransactions agree, whatever auctions the
\* customer bids on at once; the platform, whose wallet bids do not lock, may
\* have less than was paid but never more.
BidsArePaid ==
    /\ \A u \in Users : credits[u] = InitialCredits[u] - paid[u]
    /\ takings <= SumFunction(paid)

\* An auction that has ended takes no bid and no price before it is relisted,
\* even from a bid that was in progress when the command read it.
NoBidAfterEnd ==
    [][\A a \in Auctions :
         auctions[a].status = "ended" /\ auctions'[a].status = "ended" =>
            /\ auctions'[a].price = auctions[a].price
            /\ Len(auctions'[a].bids) <= Len(auctions[a].bids)]_vars

\* An auction whose time is up ends, though the command may be killed, unless a
\* last bid extends it.
ExpiredEnds ==
    \A a \in Auctions :
        Expired(a) ~> (auctions[a].status = "ended" \/ time[a] = "running")

==============================================================================
