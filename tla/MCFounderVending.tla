--------------------------- MODULE MCFounderVending ---------------------------
(* Instances of FounderVending for TLC. *)
EXTENDS FounderVending

CONSTANTS p, u1, u2, x, y

\* Nobody owns x, the Treasury owns y
UnownedAndTreasury == [a \in Assets |-> IF a = x THEN NoUser ELSE p]
Rich == [u \in Users |-> IF u = p THEN 0 ELSE 700]
LowFloor == [a \in Assets |-> 200]
Modest == [u \in Users |-> IF u = p THEN 0 ELSE 400]
Nobody == {}
==============================================================================
