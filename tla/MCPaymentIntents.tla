--------------------------- MODULE MCPaymentIntents ---------------------------
(* Instances of PaymentIntents for TLC. *)
EXTENDS PaymentIntents

CONSTANTS small, large, coin, h1, h2
==============================================================================
