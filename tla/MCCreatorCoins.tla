---------------------------- MODULE MCCreatorCoins ----------------------------
(* Instances of CreatorCoins for TLC. *)
EXTENDS CreatorCoins, TLC

AllServed == Edges \X Orders

\* The claims of the Edges, the changes of an image and the payouts share nothing:
\* a claim asks of the coin only whether it is active, which it remains.  Images
\* and payouts are explored before there is an Edge, claims without them.
Apart ==
    \/ \A e \in Edges : edge[e] = "none"
    \/ /\ \A t \in Payouts : payouts[t] = "none"
       /\ \A c \in Callers : call[c].op # "image"
       /\ \A k \in Coins : journal[k].pending = NoUrl

\* Nothing tells the members of these sets apart.
Interchangeable ==
    Permutations(Callers) \cup Permutations(Urls) \cup Permutations(Orders)
        \cup Permutations(Edges) \cup Permutations(Challenges)
==============================================================================
