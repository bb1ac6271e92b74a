---------------------------- MODULE MCAuctionTasks ----------------------------
(* Instances of AuctionTasks for TLC. *)
EXTENDS AuctionTasks

CONSTANTS p, u1, u2, x, y, z

\* Nobody owns x, u1 owns z if it is there, the Treasury owns the rest
Mixed == [a \in Assets |-> CASE a = x -> NoUser [] a = z -> u1 [] OTHER -> p]
\* The Treasury owns everything
Treasury == [a \in Assets |-> p]
Rich == [u \in Users |-> IF u = p THEN 0 ELSE 700]
LowFloor == [a \in Assets |-> 200]
Nobody == {}
==============================================================================
