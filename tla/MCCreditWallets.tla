---------------------------- MODULE MCCreditWallets ----------------------------
(* Instances of CreditWallets for TLC. *)
EXTENDS CreditWallets

CONSTANTS u1, u2, p1

Pocket == [a \in Accounts |-> IF a = u1 THEN 28 ELSE 6]
ByU2 == [p \in Posts |-> u2]
==============================================================================
