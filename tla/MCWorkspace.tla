----------------------------- MODULE MCWorkspace -----------------------------
(***************************************************************************)
(* An instance for TLC of four components that share no modelled state. A  *)
(* behaviour is one of `part', the others rest.                            *)
(***************************************************************************)
EXTENDS Team, WebhookDispatch, Credentials, RateLimit, TLC

CONSTANTS u1, u2, u3, i1, q1, q2, e1, e2, d1, v1, v2, p1, r1, r2, g1, c1, a1, ip1, t1, t2

VARIABLE part

vars == <<part, teamVars, webhookVars, credentialVars, limitVars>>

TeamWork == part = "team" /\ UNCHANGED <<part, webhookVars, credentialVars, limitVars>>
WebhookWork == part = "webhooks" /\ UNCHANGED <<part, teamVars, credentialVars, limitVars>>
CredentialWork == part = "credentials" /\ UNCHANGED <<part, teamVars, webhookVars, limitVars>>
LimitWork == part = "limits" /\ UNCHANGED <<part, teamVars, webhookVars, credentialVars>>

Init ==
  /\ part \in {"team", "webhooks", "credentials", "limits"}
  /\ TeamInit
  /\ WebhookInit
  /\ CredentialInit
  /\ LimitInit

Next ==
  \/ TeamNext /\ TeamWork
  \/ WebhookNext /\ WebhookWork
  \/ CredentialNext /\ CredentialWork
  \/ LimitNext /\ LimitWork

\* WebhookFairness and CredentialFairness, of the part at work.
Fairness ==
  /\ \A x \in Deliveries : WF_vars(Deliver(x) /\ WebhookWork)
  /\ \A r \in Visits : WF_vars(VisitStep(r) /\ CredentialWork)
  /\ SF_vars(OwnerRegisters /\ CredentialWork)
  /\ SF_vars(OwnerAsksAgain /\ CredentialWork)
  /\ SF_vars(OwnerVerifies /\ CredentialWork)

Spec == Init /\ [][Next]_vars /\ Fairness

\* What each component relies on at every step, the types of its variables first:
\* what a request has read and still holds (Team), what was posted and what was
\* seen of it (WebhookDispatch), who holds which link (Credentials), and what a
\* window has counted (RateLimit).
WorkspaceIInv == TeamIInv /\ WebhookIInv /\ CredentialIInv /\ LimitIInv

\* In the part of the accounts.
AddressBecomesUsable == part = "credentials" => AddressUsable
=============================================================================
