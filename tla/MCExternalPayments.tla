-------------------------- MODULE MCExternalPayments --------------------------
(* Instances of ExternalPayments for TLC. *)
EXTENDS ExternalPayments

CONSTANTS p, s, u1, u2, x

OfTheSeller == [a \in Assets |-> s]
SomeCredits == [u \in Users |-> IF u = u1 THEN 200 ELSE 0]
LowFloor == [a \in Assets |-> 200]
Nobody == {}
OneEach == {<<u1, "sui">>, <<u2, "btc">>}
==============================================================================
