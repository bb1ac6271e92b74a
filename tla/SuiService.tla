------------------------------ MODULE SuiService ------------------------------
(***************************************************************************)
(* The Sui service (deploy/sui-service/src/server.ts): a journal in SQLite *)
(* of the coins it publishes, the deliveries it signs and the SUI it pays  *)
(* out, and what it does on the chain for them.                            *)
(*                                                                         *)
(* The service is one thread: what a handler does between two awaits is    *)
(* one step, and any other request may run at an await.  A request keeps   *)
(* in call what it read before.  Any await may throw, and the service may  *)
(* be killed; the journal and the chain remain.                            *)
(*                                                                         *)
(* A signed transaction is a number; its digest, and the package it        *)
(* publishes, are the same number.  Handlers that only read the chain      *)
(* before one guarded UPDATE are one step.                                 *)
(***************************************************************************)
EXTENDS Naturals, FiniteSets, SequencesExt

CONSTANTS
    Coins,       \* publication keys, in the order of their EconomyAssets
    Parcels,     \* submission keys of deliveries from FANZ's inventory
    Payouts,     \* submission keys of starter grants and of sweeps to the treasury
    Urls, NoUrl, \* images of a coin
    Gates,       \* what the environment enables: "prepare", "submit", "register"
    Callers,     \* requests the service may be working on at once
    MaxCrashes,  \* bounds how often the service is killed
    MaxSigned,   \* bounds the transactions signed for a coin or a parcel
    MaxIcons     \* bounds the changes of a coin's image on the chain

ASSUME ServiceAssumption ==
    /\ Coins \subseteq Nat
    /\ NoUrl \notin Urls
    /\ MaxCrashes \in Nat /\ MaxSigned \in Nat \ {0} /\ MaxIcons \in Nat

VARIABLES
    journal,  \* creator_publications
    parcels,  \* deliveries
    payouts,  \* mainnet_transfers
    chain,    \* the chain: for each coin its transactions, Currency and image
    sent,     \* the chain: how often a payout has been sent
    call,     \* what each request is at
    crashes

serviceVars == <<journal, parcels, payouts, chain, sent, call, crashes>>

NoRow == [state |-> "none", bytes |-> 0, digest |-> 0, package |-> 0,
          registered |-> FALSE, cap |-> FALSE,
          image |-> NoUrl, imageTx |-> 0, pending |-> NoUrl, ready |-> FALSE]
NoParcel == [state |-> "none", bytes |-> 0, digest |-> 0]
NoCoin == [signed |-> 0, tx |-> [n \in 1..MaxSigned |-> "none"],
           currency |-> "none", icons |-> <<>>]
Idle == [op |-> "none", key |-> 0, tx |-> 0, done |-> FALSE, url |-> NoUrl]

ServiceInit ==
    /\ journal = [k \in Coins |-> NoRow]
    /\ parcels = [d \in Parcels |-> NoParcel]
    /\ payouts = [t \in Payouts |-> "none"]
    /\ chain = [k \in Coins |-> NoCoin]
    /\ sent = [t \in Payouts |-> 0]
    /\ call = [c \in Callers |-> Idle]
    /\ crashes = 0

Free(c) == call[c] = Idle
At(c, op, done) == call[c].op = op /\ call[c].done = done
Awaits(c, op, k, tx) ==
    call' = [call EXCEPT ![c] = [Idle EXCEPT !.op = op, !.key = k, !.tx = tx]]
Executed(c) == call' = [call EXCEPT ![c].done = TRUE]
Returns(c) == call' = [call EXCEPT ![c] = Idle]

OnlyJournal == UNCHANGED <<parcels, payouts, chain, sent, crashes>>
OnlyParcels == UNCHANGED <<journal, payouts, chain, sent, crashes>>
OnlyPayouts == UNCHANGED <<journal, parcels, chain, sent, crashes>>
OnlyChain == UNCHANGED <<journal, parcels, payouts, sent, crashes>>

-----------------------------------------------------------------------------
(* Faulty variants of the operators below.                                 *)

StillThere(row, state) == row.state # "none"
BuiltAgain(c) == chain[call[c].key].signed + 1
KeptClaimed(d) == parcels
AnyOutcome(k, n) == n # 0
Changed(c) == call[c].tx <= Len(chain[call[c].key].icons)

-----------------------------------------------------------------------------
Unsigned(row) == row.bytes = 0 /\ row.digest = 0

\* What the WHERE of an UPDATE asks of the row
Still(row, state) == row.state = state /\ Unsigned(row)

-----------------------------------------------------------------------------
(* Publication of a coin.                                                  *)

AcceptPublication(k) ==
    /\ journal[k].state = "none"
    /\ journal' = [journal EXCEPT ![k].state = "accepted"]
    /\ UNCHANGED call /\ OnlyJournal

\* prepareCreatorPublication claims the row, builds and signs, and stores what
\* it has signed.  An error in between leaves the claim.
ClaimPublication(c, k) ==
    /\ Free(c) /\ "prepare" \in Gates
    /\ Still(journal[k], "accepted")
    /\ journal' = [journal EXCEPT ![k].state = "preparing"]
    /\ Awaits(c, "publication", k, 0) /\ OnlyJournal

SavePublication(c) ==
    LET k == call[c].key
        n == chain[k].signed + 1
    IN /\ At(c, "publication", FALSE) /\ n <= MaxSigned
       /\ IF Unsigned(journal[k])
          THEN /\ journal' = [journal EXCEPT ![k].state = "prepared", ![k].bytes = n]
               /\ chain' = [chain EXCEPT ![k].signed = n]
          ELSE UNCHANGED <<journal, chain>>
       /\ Returns(c)
       /\ UNCHANGED <<parcels, payouts, sent, crashes>>

\* submitPreparedCreatorPublication sends the bytes of the row it has read.
SubmitPublication(c, k) ==
    /\ Free(c) /\ "submit" \in Gates
    /\ journal[k].state = "prepared" /\ journal[k].digest = 0 /\ journal[k].bytes # 0
    /\ Awaits(c, "submission", k, journal[k].bytes)
    /\ UNCHANGED journal /\ OnlyJournal

Sends(c) == call[c].tx

\* The chain executes a transaction once and gives the same answer every time;
\* one whose gas coin has been spent since, by a payout, it refuses for ever.
Publishes(c) ==
    LET k == call[c].key
        n == Sends(c)
    IN /\ At(c, "submission", FALSE)
       /\ n <= MaxSigned /\ chain[k].tx[n] # "stale"
       /\ \/ chain[k].tx[n] # "none" /\ UNCHANGED chain
          \/ /\ chain[k].tx[n] = "none"
             /\ chain' = [chain EXCEPT ![k].tx[n] = "ok", ![k].currency = "published",
                                       ![k].signed = IF n > @ THEN n ELSE @]
          \/ chain[k].tx[n] = "none" /\ chain' = [chain EXCEPT ![k].tx[n] = "failed"]
       /\ call' = [call EXCEPT ![c].done = TRUE, ![c].tx = n]
       /\ OnlyChain

GasIsSpent(k) ==
    /\ journal[k].bytes # 0 /\ chain[k].tx[journal[k].bytes] = "none"
    /\ chain' = [chain EXCEPT ![k].tx[journal[k].bytes] = "stale"]
    /\ UNCHANGED call /\ OnlyChain

SaveSubmission(c) ==
    LET k == call[c].key
        n == call[c].tx
    IN /\ At(c, "submission", TRUE)
       /\ IF journal[k].digest = 0
          THEN journal' = [journal EXCEPT
                   ![k].state = IF chain[k].tx[n] = "ok" THEN "submitted" ELSE "failed",
                   ![k].digest = n]
          ELSE UNCHANGED journal
       /\ Returns(c) /\ OnlyJournal

Succeeded(k, n) == n # 0 /\ chain[k].tx[n] = "ok"

Confirmed(row, n) == [row EXCEPT !.state = "confirmed", !.digest = n, !.package = n]

\* reconcileCreatorPublication
ReconcilePublication(k) ==
    /\ journal[k].state # "confirmed" /\ journal[k].package = 0
    /\ Succeeded(k, journal[k].digest)
    /\ journal' = [journal EXCEPT ![k] = Confirmed(@, @.digest)]
    /\ UNCHANGED call /\ OnlyJournal

\* recoverCreatorPublication: an operator gives the digest of the transaction,
\* in whatever state the row was left.  It is assumed to be one of this coin: the
\* service accepts any that has published one package.
RecoverPublication(k) ==
    /\ journal[k].state \notin {"none", "confirmed"}
    /\ \E n \in 1..MaxSigned :
          /\ Succeeded(k, n) /\ journal[k].digest \in {0, n}
          /\ journal' = [journal EXCEPT ![k] = Confirmed(@, n)]
    /\ UNCHANGED call /\ OnlyJournal

\* getCreatorPublicationSupply: the shared Currency, or before the journal knows
\* of the registration the object that the publication has made.
SupplyFound(k) ==
    /\ journal[k].state = "confirmed"
    /\ chain[k].currency = IF journal[k].registered THEN "registered" ELSE "published"

\* registerCreatorCurrency
RegisterCurrency(c, k) ==
    /\ Free(c) /\ "register" \in Gates
    /\ ~ journal[k].registered /\ SupplyFound(k)
    /\ Awaits(c, "registration", k, 0)
    /\ UNCHANGED journal /\ OnlyJournal

FinalizesRegistration(c) ==
    LET k == call[c].key
    IN /\ At(c, "registration", FALSE)
       /\ chain[k].currency = "published"
       /\ chain' = [chain EXCEPT ![k].currency = "registered"]
       /\ Executed(c)
       /\ OnlyChain

Registered(k) == journal' = [journal EXCEPT ![k].registered = TRUE]

\* verifyCreatorCurrencyRegistration
CurrencyRegistered(k) == chain[k].currency = "registered"

SaveRegistration(c) ==
    /\ At(c, "registration", TRUE) /\ CurrencyRegistered(call[c].key)
    /\ Registered(call[c].key)
    /\ Returns(c) /\ OnlyJournal

\* recoverCreatorCurrencyRegistration, with the digest an operator has found
RecoverRegistration(k) ==
    /\ journal[k].state = "confirmed" /\ ~ journal[k].registered
    /\ CurrencyRegistered(k)
    /\ Registered(k)
    /\ UNCHANGED call /\ OnlyJournal

RecoverMetadataCap(k) ==
    /\ journal[k].state = "confirmed" /\ ~ journal[k].cap
    /\ journal' = [journal EXCEPT ![k].cap = TRUE]
    /\ UNCHANGED call /\ OnlyJournal

-----------------------------------------------------------------------------
(* The image of a coin.                                                    *)

Branded(k) == journal[k].registered /\ journal[k].cap

PrepareImage(c, k, u) ==
    /\ Free(c) /\ Branded(k)
    /\ call' = [call EXCEPT ![c] = [Idle EXCEPT !.op = "image", !.key = k, !.url = u]]
    /\ UNCHANGED journal /\ OnlyJournal

SaveImage(c) ==
    /\ At(c, "image", FALSE)
    /\ journal' = [journal EXCEPT ![call[c].key].pending = call[c].url,
                                  ![call[c].key].ready = TRUE]
    /\ Returns(c) /\ OnlyJournal

\* The owner's wallet signs what has been prepared last.
OwnerSetsIcon(k) ==
    /\ journal[k].ready /\ Len(chain[k].icons) < MaxIcons
    /\ chain' = [chain EXCEPT ![k].icons = Append(@, journal[k].pending)]
    /\ UNCHANGED call /\ OnlyChain

\* verifyCreatorCoinImageRebrand of the n-th change of the image, which must be
\* the last one and to what the row said before the chain was asked.
VerifyImage(c, k, n) ==
    /\ Free(c) /\ Branded(k)
    /\ journal[k].ready /\ n \in 1..Len(chain[k].icons)
    /\ journal[k].imageTx # n \/ journal[k].image # journal[k].pending
    /\ call' = [call EXCEPT ![c] = [Idle EXCEPT !.op = "verification", !.key = k, !.tx = n,
                                                !.url = journal[k].pending]]
    /\ UNCHANGED journal /\ OnlyJournal

\* The transaction made the last change, to the URL that had been prepared.
Proved(c) ==
    LET icons == chain[call[c].key].icons
    IN Len(icons) = call[c].tx /\ Last(icons) = call[c].url

SaveVerification(c) ==
    LET k == call[c].key
    IN /\ At(c, "verification", FALSE)
       /\ Proved(c) /\ journal[k].pending = call[c].url
       /\ journal' = [journal EXCEPT ![k].image = call[c].url, ![k].imageTx = call[c].tx,
                                     ![k].ready = FALSE]
       /\ Returns(c) /\ OnlyJournal

-----------------------------------------------------------------------------
(* Deliveries from the inventory of FANZ.                                  *)

AcceptParcel(d) ==
    /\ parcels[d].state = "none"
    /\ parcels' = [parcels EXCEPT ![d].state = "accepted"]
    /\ UNCHANGED call /\ OnlyParcels

\* prepareDelivery selects coins, builds and signs after it has claimed the row.
ClaimParcel(c, d) ==
    /\ Free(c)
    /\ Still(parcels[d], "accepted")
    /\ parcels' = [parcels EXCEPT ![d].state = "preparing"]
    /\ Awaits(c, "parcel", d, 0) /\ OnlyParcels

SaveParcel(c) ==
    LET d == call[c].key
    IN /\ At(c, "parcel", FALSE) /\ parcels[d].bytes < MaxSigned
       /\ parcels' = IF Still(parcels[d], "preparing")
                     THEN [parcels EXCEPT ![d].state = "prepared", ![d].bytes = @ + 1]
                     ELSE parcels
       /\ Returns(c) /\ OnlyParcels

Reopened(d) == [parcels EXCEPT ![d].state = "accepted"]

\* "Release the claim so a later retry can safely prepare again."
ReleaseParcel(c) ==
    LET d == call[c].key
    IN /\ At(c, "parcel", FALSE)
       /\ parcels' = IF Still(parcels[d], "preparing")
                     THEN Reopened(d) ELSE parcels
       /\ Returns(c) /\ OnlyParcels

-----------------------------------------------------------------------------
(* SUI paid out of the hot wallet.                                         *)

New(t) == payouts[t] = "none"

\* executeMainnetStarterGrant, executeMainnetTreasuryTransfer: who asks again
\* gets the row.
AskPayout(c, t) ==
    /\ Free(c) /\ New(t)
    /\ payouts' = [payouts EXCEPT ![t] = "accepted"]
    /\ Awaits(c, "payout", t, 0) /\ OnlyPayouts

PaysOut(c) ==
    LET t == call[c].key
    IN /\ At(c, "payout", FALSE)
       /\ sent' = [sent EXCEPT ![t] = @ + 1]
       /\ Executed(c)
       /\ UNCHANGED <<journal, parcels, payouts, chain, crashes>>

SavePayout(c) ==
    LET t == call[c].key
    IN /\ \/ At(c, "payout", TRUE) /\ payouts' = [payouts EXCEPT ![t] = "confirmed"]
          \/ At(c, "payout", FALSE) /\ payouts' = [payouts EXCEPT ![t] = "failed"]
       /\ Returns(c) /\ OnlyPayouts

-----------------------------------------------------------------------------
(* Failures.                                                               *)

\* The chain, or the way to it, fails a request; the chain may have done its part.
CallFails(c) ==
    /\ call[c].op \notin {"none", "parcel"}
    /\ Returns(c)
    /\ UNCHANGED <<journal, parcels, payouts, chain, sent, crashes>>

ServiceCrashes ==
    /\ crashes < MaxCrashes
    /\ crashes' = crashes + 1
    /\ call' = [c \in Callers |-> Idle]
    /\ UNCHANGED <<journal, parcels, payouts, chain, sent>>

Answers(c) ==
    \/ SavePublication(c) \/ Publishes(c) \/ SaveSubmission(c)
    \/ FinalizesRegistration(c) \/ SaveRegistration(c)
    \/ SaveVerification(c)
    \/ SaveParcel(c) \/ ReleaseParcel(c)
    \/ PaysOut(c) \/ SavePayout(c)

==============================================================================
