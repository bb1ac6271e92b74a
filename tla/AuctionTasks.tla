----------------------------- MODULE AuctionTasks -----------------------------
(***************************************************************************)
(* The scheduler of the Founder market: run_auction_tasks.sh, which runs   *)
(* process_auctions every ten seconds and fulfill_settled_payments every   *)
(* minute, forever, whatever the previous run ended with.                  *)
(*                                                                         *)
(* A run of process_auctions reads once which Tienda blind sales are due,  *)
(* newest first (FounderListing.Meta.ordering), and closes them one by one,*)
(* each in a transaction of its own, while customers go on.  Nothing       *)
(* catches a close that raises: the run ends there.  Only a run that has   *)
(* closed a listing refills the Tienda.  A run that finds nothing due does *)
(* nothing to the market and is no step here; the credit auctions the same *)
(* command ends are another component.                                     *)
(***************************************************************************)
EXTENDS FounderVending

Sequence == INSTANCE SequencesExt

CONSTANTS
    MaxCrashes   \* bound on the runs killed before they end

ASSUME CrashesAssumption == MaxCrashes \in Nat

VARIABLES
    running,  \* a run of process_auctions is in progress
    queue,    \* the due listings it has not yet closed
    closed,   \* it has closed a listing (founder_closed_count)
    crashes   \* runs killed so far

runVars == <<running, queue, closed, crashes>>
tasksVars == <<allVars, runVars>>

TasksInit == VendingInit /\ running = FALSE /\ queue = <<>> /\ closed = FALSE /\ crashes = 0

-----------------------------------------------------------------------------
(* A faulty variant, as in FounderMarket: the filter takes the other source *)

DueElsewhere(l) == Active(l) /\ listings[l].lane = "none" /\ listings[l].ended

-----------------------------------------------------------------------------
(* A run of process_auctions.                                              *)

Due(l) == Active(l) /\ listings[l].lane = "blind" /\ listings[l].ended

NewestFirst(ls) == Sequence!SetToSortSeq(ls, LAMBDA l, m : l > m)

RunStarts ==
    LET due == {l \in DOMAIN listings : Due(l)}
    IN /\ ~ running
       /\ due # {}
       /\ running' = TRUE
       /\ queue' = NewestFirst(due)
       /\ closed' = FALSE
       /\ UNCHANGED <<allVars, crashes>>

RunStops == running' = FALSE /\ queue' = <<>> /\ UNCHANGED closed

ClosesNext ==
    /\ running /\ queue # <<>>
    /\ CloseBlind(Head(queue)) /\ WalletsLocked
    /\ queue' = Tail(queue)
    /\ closed' = TRUE
    /\ UNCHANGED <<vendingVars, running, crashes>>

\* close_founder_blind_listing raises, and process_auctions with it.
CloseRaises ==
    /\ running /\ queue # <<>>
    /\ ~ ENABLED CloseBlind(Head(queue))
    /\ RunStops
    /\ UNCHANGED <<allVars, crashes>>

RunReplenishes ==
    /\ running /\ queue = <<>> /\ closed
    /\ AnyReplenish
    /\ RunStops
    /\ UNCHANGED <<vendingVars, crashes>>

\* There was nothing to refill, or the Tienda cannot be refilled.
RunEnds ==
    /\ running /\ queue = <<>>
    /\ ~ ENABLED AnyReplenish
    /\ RunStops
    /\ UNCHANGED <<allVars, crashes>>

\* The process is killed: what it has committed stays.
RunCrashes ==
    /\ running /\ crashes < MaxCrashes
    /\ crashes' = crashes + 1
    /\ RunStops
    /\ UNCHANGED allVars

Run == RunStarts \/ ClosesNext \/ CloseRaises \/ RunReplenishes \/ RunEnds

TasksNext ==
    \/ /\ \/ CustomerStep
          \/ AnyReplenish   \* the command, run by hand
          \/ \E l \in DOMAIN listings : EndsAtPasses(l)
       /\ WalletsLocked
       /\ UNCHANGED <<vendingVars, runVars>>
    \/ VendingStep /\ UNCHANGED runVars
    \/ Run
    \/ RunCrashes

\* fulfill_settled_payments tries every settled payment, each on its own.
Fulfills(u, a) == FulfillExternal(u, a) /\ UNCHANGED runVars

\* A reservation in progress ends: its transaction commits or fails.
ReservationEnds(u) == (ReserveCommits(u) \/ ReserveFails(u)) /\ UNCHANGED runVars

EndPasses(l) ==
    /\ l \in DOMAIN listings /\ EndsAtPasses(l) /\ WalletsLocked
    /\ UNCHANGED <<vendingVars, runVars>>

\* Time passes, transactions end, and the loop of run_auction_tasks.sh goes on.
\* Nothing is assumed of customers.
Fairness ==
    /\ WF_tasksVars(Run)
    /\ \A l \in ListingIds : WF_tasksVars(EndPasses(l))
    /\ \A u \in Users : WF_tasksVars(ReservationEnds(u))
    /\ \A u \in Users, a \in Assets : WF_tasksVars(Fulfills(u, a))

TasksSpec == TasksInit /\ [][TasksNext]_tasksVars /\ Fairness

-----------------------------------------------------------------------------
(* Properties.                                                             *)

Held(l, u) == hold[l][u] # 0
OfTienda(l) == l \in DOMAIN listings /\ listings[l].lane # "none"

\* A property sold elsewhere while its Tienda listing is still active
SoldAside == \E l \in DOMAIN listings :
    Active(l) /\ listings[l].lane = "blind" /\ status[listings[l].asset] # "listed"

\* Credits held for a bid in the Tienda settle: they come back or buy the
\* property, though a run may be killed anywhere and bids, closes and
\* reservations interleave, unless a listed property is reserved by a vending
\* purchaser.
SettlesUnlessVended ==
    \A l \in ListingIds, u \in Users :
        (OfTienda(l) /\ Held(l, u)) ~> (~ Held(l, u) \/ SoldAside)

\* FounderCreditHold: held credits "are either released back or consumed at
\* settlement", for a bid on any blind listing.
EveryHoldSettles ==
    \A l \in ListingIds, u \in Users : Held(l, u) ~> ~ Held(l, u)

==============================================================================
