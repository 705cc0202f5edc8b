-------------------------- MODULE MCAuthentication --------------------------
(* An instance of Authentication for TLC. *)
EXTENDS Authentication, TLC
CONSTANTS r1, r2, b1
=============================================================================
