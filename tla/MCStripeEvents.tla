--------------------------- MODULE MCStripeEvents ---------------------------
(* Instances of StripeEvents for TLC.                                       *)
EXTENDS StripeEvents, TLC

CONSTANTS e1, d1, d2

=============================================================================
