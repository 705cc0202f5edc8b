------------------------ MODULE MCEcpaySubscriptions ------------------------
(* Instances of EcpaySubscriptions for TLC. *)
EXTENDS EcpaySubscriptions

CONSTANTS m1, h1, h2, w1, c1
=============================================================================
