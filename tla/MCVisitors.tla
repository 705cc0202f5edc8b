----------------------------- MODULE MCVisitors -----------------------------
(***************************************************************************)
(* An instance for TLC of what visitors of the site meet: the login, and   *)
(* the funnel that counts them. The two share no modelled state; a         *)
(* behaviour is one of `part', the other rests.                            *)
(***************************************************************************)
EXTENDS Authentication, Funnel, TLC

CONSTANTS r1, r2, b1, p1, x1, k1, c1, c2, s1

VARIABLE part

LinkedProduct == p1 :> x1
ChannelKeys == c1 :> 1 @@ c2 :> 2

VisitorInit ==
  /\ part \in {"login", "funnel"} /\ Init /\ FunnelInit
  /\ part = "funnel" => user = NewRow

VisitorNext ==
  \/ part = "login" /\ Next /\ UNCHANGED <<part, funnelVars>>
  \/ part = "funnel" /\ FunnelNext /\ UNCHANGED <<part, vars>>

VisitorSpec == VisitorInit /\ [][VisitorNext]_<<part, vars, funnelVars>>

\* What each component relies on at every step, the types of its variables first:
\* what a request for a session has read and counted (Authentication), and what a
\* report has been answered and what is left to answer it from (Funnel).
VisitorIInv == IInv /\ FunnelIInv
=============================================================================
