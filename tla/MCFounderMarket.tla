--------------------------- MODULE MCFounderMarket ---------------------------
(* Instances of FounderMarket for TLC. *)
EXTENDS FounderMarket

CONSTANTS p, u1, u2, u3, w, x, y, z

\* The Treasury owns every property but y, which nobody owns
TreasuryAndUnowned == [a \in Assets |-> IF a = y THEN NoUser ELSE p]
\* Both properties are private
BothPrivate == [a \in Assets |-> IF a = x THEN u1 ELSE u2]

Rich == [u \in Users |-> IF u = p THEN 0 ELSE 1200]
Poor == [u \in Users |-> IF u = p THEN 0 ELSE 500]
LowFloor == [a \in Assets |-> 200]

Nobody == {}
U1ControlsU2 == {<<u1, u2>>}
==============================================================================
