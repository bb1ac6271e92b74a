----------------------------- MODULE CreatorCoins -----------------------------
(***************************************************************************)
(* Coins of Founder properties, from the draft to their delivery:          *)
(*                                                                         *)
(*  - the command that takes one coin through the Sui service's journal    *)
(*    and the worker that calls it every minute for the first that waits   *)
(*    (process_founder_coin_publication.py,                                *)
(*    process_next_founder_coin_publication.py), with the tool on the host *)
(*    that prepares payloads (sui/tools);                                  *)
(*  - the changes of a coin's image;                                        *)
(*  - deliveries of sold coins, signed by FANZ for its own coin or claimed *)
(*    by a creator's TG Edge (economy_delivery_services.py,                *)
(*    creator_edge_auth_services.py).                                      *)
(*                                                                         *)
(* Every HTTP request of Django to the service may time out while the      *)
(* service goes on: a request is the first step of a handler, and Django   *)
(* looks at the journal again later.  A property keeps its owner here.     *)
(***************************************************************************)
EXTENDS SuiService

CONSTANTS
    Orders,      \* EconomyAssetDelivery: coins that are paid for
    Edges,       \* CreatorEdgeRegistration
    Challenges,  \* CreatorEdgeAuthChallenge
    Serves,      \* <<edge, order>>: the same coin, and the same custody address
    NoEdge, NoChallenge

ASSUME CoinsAssumption ==
    /\ Serves \subseteq Edges \X Orders
    /\ NoEdge \notin Edges
    /\ NoChallenge \notin Challenges

VARIABLES
    asset,      \* EconomyAsset, and its prepared payload
    order,      \* EconomyAssetDelivery.status
    execution,  \* CreatorExecutionRequest
    edge,       \* CreatorEdgeRegistration.status
    challenge,  \* CreatorEdgeAuthChallenge
    verified,   \* authentications between the signature and the locks
    claiming    \* those that hold the lock of their challenge

edgeVars == <<execution, edge, challenge, verified, claiming>>
allVars == <<serviceVars, asset, order, edgeVars>>

NoAsset == [status |-> "none", coin |-> 0, fixed |-> FALSE, payload |-> "none"]
NoExecution == [status |-> "none", by |-> NoEdge, nonce |-> NoChallenge]
ClaimOf(e, h) == [status |-> "claimed", by |-> e, nonce |-> h]

Init ==
    /\ ServiceInit
    /\ asset = [k \in Coins |-> NoAsset]
    /\ order = [o \in Orders |-> "none"]
    /\ execution = [o \in Orders |-> NoExecution]
    /\ edge = [e \in Edges |-> "none"]
    /\ challenge = [h \in Challenges |-> [edge |-> NoEdge, state |-> "none"]]
    /\ verified = {}
    /\ claiming = {}

-----------------------------------------------------------------------------
(* Faulty variants of the operators below.                                 *)

UsableLater(h) == challenge[h].state # "none" /\ edge[challenge[h].edge] = "active"
UsableByAny(h) == challenge[h].state = "open"
LastDraft(k) == asset[k].status = "draft" /\ \A j \in Coins : asset[j].status = "draft" => j <= k

-----------------------------------------------------------------------------
(* Publication.                                                            *)

\* create_founder_coin_draft, once the property is owned
Draft(k) ==
    /\ asset[k].status = "none"
    /\ asset' = [asset EXCEPT ![k].status = "draft"]
    /\ UNCHANGED <<serviceVars, order, edgeVars>>

Candidates == {k \in Coins : asset[k].status = "draft" /\ asset[k].coin = 0}

\* prepare_founder_coin_publication.py generates a package, validates, builds and
\* packs it.  It may stop half way.
Pipeline == {"ready", "package"}

ToolLeaves(k, results) ==
    /\ \E result \in results : asset' = [asset EXCEPT ![k].payload = result]
    /\ UNCHANGED <<serviceVars, order, edgeVars>>

\* prepare_next_founder_coin.py, for the oldest draft or one an operator names:
\* after a run that stopped half way it asks for "manual review".
PreparePayload(k) ==
    k \in Candidates /\ asset[k].payload = "none" /\ ToolLeaves(k, Pipeline)

\* --force takes the payload away first, and then the pipeline refuses to write
\* over the package.
PrepareForced(k) ==
    k \in Candidates /\ asset[k].payload = "ready" /\ ToolLeaves(k, {"package"})

\* The manual review: --reuse-existing-package
ReusePackage(k) == asset[k].payload = "package" /\ ToolLeaves(k, Pipeline)

\* load_prepared_payload: it is there, and complete.  That it fits its asset
\* follows from how the tools make it.
Prepared(k) == asset[k].payload = "ready"

\* accept_founder_publication.py
AcceptByHand(k) ==
    Prepared(k) /\ AcceptPublication(k) /\ UNCHANGED <<asset, order, edgeVars>>

FirstDraft(k) == k \in Candidates /\ \A j \in Candidates : k <= j

\* The command asks the service for what comes next.
Asks(k) ==
    \/ AcceptPublication(k)
    \/ \E c \in Callers : ClaimPublication(c, k) \/ SubmitPublication(c, k)
    \/ journal[k].state = "submitted" /\ ReconcilePublication(k)
    \/ \E c \in Callers : RegisterCurrency(c, k)

Completed(k) == journal[k].state = "confirmed" /\ journal[k].registered

\* reconcile_confirmed_creator_publication
RecordPublication(k) ==
    /\ Completed(k) /\ asset[k].coin = 0
    /\ asset' = [asset EXCEPT ![k].coin = journal[k].digest, ![k].status = "active"]
    /\ UNCHANGED serviceVars

\* verify_economy_asset_fixed_supply, in a transaction of its own
VerifySupply(k) ==
    /\ Completed(k) /\ asset[k].coin # 0 /\ ~ asset[k].fixed
    /\ SupplyFound(k)
    /\ asset' = [asset EXCEPT ![k].fixed = TRUE]
    /\ UNCHANGED serviceVars

Process(k) ==
    /\ Prepared(k)
    /\ \/ Asks(k) /\ UNCHANGED asset
       \/ RecordPublication(k)
       \/ VerifySupply(k)
    /\ UNCHANGED <<order, edgeVars>>

\* What the worker takes up is the first draft, also when it cannot be processed.
Worker == \E k \in Coins : FirstDraft(k) /\ Process(k)

Operator(k) ==
    /\ RecoverPublication(k) \/ RecoverRegistration(k) \/ RecoverMetadataCap(k)
    /\ UNCHANGED <<asset, order, edgeVars>>

-----------------------------------------------------------------------------
(* Images.                                                                 *)

\* prepare_founder_coin_rebrand, resume_founder_coin_rebrand.  That an image after
\* the first is paid for is a matter of CreditWallets and ExternalPayments.
AskImage(c, k, u) ==
    /\ asset[k].status = "active"
    /\ PrepareImage(c, k, u)
    /\ UNCHANGED <<asset, order, edgeVars>>

ImageStep(c) ==
    /\ \/ SaveImage(c)
       \/ \E k \in Coins, n \in 1..MaxIcons :
             asset[k].status = "active" /\ VerifyImage(c, k, n)
    /\ UNCHANGED <<asset, order, edgeVars>>

-----------------------------------------------------------------------------
(* Deliveries.                                                             *)

\* fulfill_sui_coin_delivery
Paid(o) ==
    /\ order[o] = "none"
    /\ o \notin Parcels => \E k \in Coins : asset[k].status = "active"
    /\ order' = [order EXCEPT ![o] = "pending"]
    /\ UNCHANGED <<serviceVars, asset, edgeVars>>

\* process_pending_economy_delivery: the two requests of a run, and what it
\* records under the lock
AskDelivery(o) ==
    /\ o \in Parcels /\ order[o] = "pending"
    /\ AcceptParcel(o) \/ \E c \in Callers : ClaimParcel(c, o)
    /\ UNCHANGED <<asset, order, edgeVars>>

RecordDelivery(o) ==
    /\ o \in Parcels /\ order[o] = "pending"
    /\ parcels[o].state = "prepared"
    /\ order' = [order EXCEPT ![o] = "prepared"]
    /\ UNCHANGED <<serviceVars, asset, edgeVars>>

\* get_or_create_creator_execution_request
RequestExecution(o) ==
    /\ o \notin Parcels /\ order[o] = "pending"
    /\ execution[o] = NoExecution
    /\ execution' = [execution EXCEPT ![o].status = "pending"]
    /\ UNCHANGED <<serviceVars, asset, order, edge, challenge, verified, claiming>>

Deliver(o) == AskDelivery(o) \/ RecordDelivery(o) \/ RequestExecution(o)

RegisterEdge(e) ==
    /\ edge[e] = "none" /\ \E k \in Coins : asset[k].status # "none"
    /\ edge' = [edge EXCEPT ![e] = "active"]
    /\ UNCHANGED <<serviceVars, asset, order, execution, challenge, verified, claiming>>

RevokeEdge(e) ==
    /\ edge[e] = "active"
    /\ edge' = [edge EXCEPT ![e] = "revoked"]
    /\ UNCHANGED <<serviceVars, asset, order, execution, challenge, verified, claiming>>

Challenge(h, e) ==
    /\ challenge[h].state = "none" /\ edge[e] = "active"
    /\ challenge' = [challenge EXCEPT ![h] = [edge |-> e, state |-> "open"]]
    /\ UNCHANGED <<serviceVars, asset, order, execution, edge, verified, claiming>>

Expires(h) ==
    /\ challenge[h].state = "open"
    /\ challenge' = [challenge EXCEPT ![h].state = "expired"]
    /\ UNCHANGED <<serviceVars, asset, order, execution, edge, verified, claiming>>

Usable(h) == challenge[h].state = "open" /\ edge[challenge[h].edge] = "active"

\* authorize_edge_for_execution
Authorized(e, o) == edge[e] = "active" /\ <<e, o>> \in Serves

\* authenticate_and_claim_creator_execution looks at everything once, asks the
\* service to verify the signature,
Authenticate(h, o) ==
    /\ Usable(h) /\ execution[o].status # "none"
    /\ Authorized(challenge[h].edge, o)
    /\ verified' = verified \cup {<<h, o>>}
    /\ UNCHANGED <<serviceVars, asset, order, execution, edge, challenge, claiming>>

\* looks again at the challenge under its lock and at its Edge, whose row is joined
\* and not locked,
LockChallenge(h, o) ==
    /\ <<h, o>> \in verified
    /\ \A p \in Orders : <<h, p>> \notin claiming
    /\ verified' = verified \ {<<h, o>>}
    /\ claiming' = IF Usable(h) THEN claiming \cup {<<h, o>>} ELSE claiming
    /\ UNCHANGED <<serviceVars, asset, order, execution, edge, challenge>>

\* The claim of the same Edge is given again.
Claimed(e, h, o) ==
    IF execution[o].status = "pending" THEN ClaimOf(e, h) ELSE execution[o]

\* and claims when it has the lock of the request, whatever has become of the Edge
\* and of the time meanwhile.
Claim(h, o) ==
    LET e == challenge[h].edge
    IN /\ <<h, o>> \in claiming
       /\ claiming' = claiming \ {<<h, o>>}
       /\ IF <<e, o>> \in Serves /\ (execution[o].status = "pending" \/ execution[o].by = e)
          THEN /\ challenge' = [challenge EXCEPT ![h].state = "consumed"]
               /\ execution' = [execution EXCEPT ![o] = Claimed(e, h, o)]
          ELSE UNCHANGED <<challenge, execution>>
       /\ UNCHANGED <<serviceVars, asset, order, edge, verified>>

-----------------------------------------------------------------------------

\* grant_starter_sui asks for the payout of a new customer, once per purchase.
GrantStarterSui(c, t) == AskPayout(c, t)

Service ==
    /\ \/ \E c \in Callers : Answers(c) \/ CallFails(c)
       \/ \E k \in Coins : GasIsSpent(k) \/ OwnerSetsIcon(k)
       \/ \E c \in Callers, t \in Payouts : GrantStarterSui(c, t)
       \/ ServiceCrashes
    /\ UNCHANGED <<asset, order, edgeVars>>

Next ==
    \/ Service
    \/ \E k \in Coins : Draft(k) \/ Process(k) \/ Operator(k)
    \/ \E k \in Coins :
          PreparePayload(k) \/ PrepareForced(k) \/ ReusePackage(k) \/ AcceptByHand(k)
    \/ \E c \in Callers, k \in Coins, u \in Urls : AskImage(c, k, u)
    \/ \E c \in Callers : ImageStep(c)
    \/ \E o \in Orders : Paid(o) \/ Deliver(o)
    \/ \E e \in Edges : RegisterEdge(e) \/ RevokeEdge(e)
    \/ \E h \in Challenges, e \in Edges : Challenge(h, e)
    \/ \E h \in Challenges : Expires(h)
    \/ \E h \in Challenges, o \in Orders : Authenticate(h, o) \/ LockChallenge(h, o) \/ Claim(h, o)

Runs(A) == A /\ UNCHANGED <<asset, order, edgeVars>>

\* The workers run every minute, however many other requests the service has;
\* it answers what it is asked, and not every attempt fails.
Spec ==
    /\ Init /\ [][Next]_allVars
    /\ SF_allVars(Worker)
    /\ SF_allVars(\E o \in Orders : Deliver(o))
    /\ WF_allVars(Runs(\E c \in Callers : Answers(c) \/ CallFails(c)))
    /\ SF_allVars(Runs(\E c \in Callers : Publishes(c)))
    /\ SF_allVars(Runs(\E c \in Callers : SaveSubmission(c)))
    /\ SF_allVars(Runs(\E c \in Callers : FinalizesRegistration(c)))
    /\ SF_allVars(Runs(\E c \in Callers : SaveParcel(c)))

-----------------------------------------------------------------------------
(* Properties.                                                             *)

\* Whatever is lost between the service and the chain and asked again, one
\* package is published for a key, and one payout sent.
SentOnce ==
    /\ \A k \in Coins : Cardinality({n \in 1..MaxSigned : chain[k].tx[n] = "ok"}) <= 1
    /\ \A t \in Payouts : sent[t] <= 1

\* "Once signed material exists, NEVER rebuild it", in no order of claims,
\* failures, releases and recoveries.
SignedForGood ==
    [][/\ \A k \in Coins : journal[k].bytes # 0 => journal'[k].bytes = journal[k].bytes
       /\ \A d \in Parcels : parcels[d].bytes # 0 => parcels'[d].bytes = parcels[d].bytes
       ]_<<journal, parcels>>

\* A coin FANZ calls active is on the chain: its type is that of the one package
\* published for it, and its Currency is registered.
ActiveIsOnChain ==
    \A k \in Coins :
        asset[k].status = "active" =>
            /\ asset[k].coin # 0
            /\ chain[k].tx[asset[k].coin] = "ok"
            /\ chain[k].currency = "registered"

\* The worker cannot go on with a coin: no payload, a claim nobody works on, a
\* transaction that failed or can never be executed, or a registration that
\* the journal has not learned of.
Stuck(k) ==
    \/ ~ Prepared(k)
    \/ journal[k].state = "preparing"
    \/ journal[k].state = "failed"
    \/ journal[k].bytes # 0 /\ chain[k].tx[journal[k].bytes] = "stale"
    \/ chain[k].currency = "registered" /\ ~ journal[k].registered

\* A coin whose payload is there is published, unless itself or a draft before
\* it is stuck.
PublishedUnlessStuck ==
    \A k \in Coins :
        (k \in Candidates /\ Prepared(k)) ~>
            (k \notin Candidates \/ \E j \in Candidates : j <= k /\ Stuck(j))

\* A delivery of FANZ's coin is signed, unless the service was killed over it.
SignedUnlessKilled ==
    \A o \in Orders \cap Parcels :
        order[o] = "pending" ~>
            (order[o] = "prepared" \/ (crashes > 0 /\ parcels[o].state = "preparing"))

\* One claim for a request, by an Edge of its coin, and one challenge for a claim:
\* whoever authenticates twice or at the same time as another.
ClaimsAreSeparate ==
    [][\A o \in Orders :
          /\ execution[o].status = "claimed" => execution'[o] = execution[o]
          /\ execution'[o] # execution[o] /\ execution'[o].status = "claimed" =>
                /\ <<execution'[o].by, o>> \in Serves
                /\ \A p \in Orders \ {o} : execution'[p].nonce # execution'[o].nonce]_allVars

\* An Edge is revoked, and no transaction that still found it active is on its way
\* to claim.
CutOff(e) ==
    /\ edge[e] = "revoked"
    /\ \A h \in Challenges, o \in Orders : <<h, o>> \in claiming => challenge[h].edge # e

\* Such an Edge gets no claim any more, whatever it has authenticated before: what
\* a revocation leaves to it is the claims that were under way, one for each
\* challenge that was locked.
RevokedClaimsNothing ==
    [][\A e \in Edges : CutOff(e) =>
          /\ CutOff(e)'
          /\ \A o \in Orders : execution'[o].by = e => execution[o].by = e]_allVars

\* The image the journal has accepted is the one its transaction has put on the
\* chain, whatever is prepared while that transaction is verified.
ImageIsOnChain ==
    \A k \in Coins :
        journal[k].imageTx # 0 => chain[k].icons[journal[k].imageTx] = journal[k].image

==============================================================================
