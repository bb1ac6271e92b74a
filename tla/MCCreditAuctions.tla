--------------------------- MODULE MCCreditAuctions ---------------------------
(* Instances of CreditAuctions for TLC. *)
EXTENDS CreditAuctions

CONSTANTS u1, u2

FewCredits == [u \in Users |-> IF u = u1 THEN 2 ELSE 1]
==============================================================================
