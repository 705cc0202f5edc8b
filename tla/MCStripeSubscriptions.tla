------------------------ MODULE MCStripeSubscriptions ------------------------
(* Instances of StripeSubscriptions for TLC. *)
EXTENDS StripeSubscriptions

CONSTANTS s1, h1, h2, w1, c1
=============================================================================
