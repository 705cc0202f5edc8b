----------------------------- MODULE Credentials -----------------------------
(***************************************************************************)
(* How one address gets an account with a password that its owner can use: *)
(* registration, the links mailed to verify the address, to choose a       *)
(* password or to activate an account that a purchase made, and what       *)
(* becomes of links and account in between (actions/auth.ts,               *)
(* lib/auth-provision.ts, actions/admin-revenue.ts, actions/admin.ts).     *)
(*                                                                         *)
(* One SQL statement is one step. A password is set or not; what it is     *)
(* matters to signing in only. Each account of the address has a number,   *)
(* its id; a request that holds the id of a deleted one finds nothing.     *)
(***************************************************************************)
EXTENDS Integers, FiniteSets

CONSTANTS
  VerifyLinks,  \* rows of email_verification_tokens that may live at a time
  ResetLinks,   \* rows of password_reset_tokens that may live at a time
  NoLink,
  Visits,       \* requests in flight
  MaxAccounts,  \* bound on accounts the address has had
  MaxFailures   \* bound on requests that die, mails that fail included

ASSUME NoLinkAssumption == NoLink \notin VerifyLinks \cup ResetLinks
ASSUME LinksAssumption == VerifyLinks \cap ResetLinks = {}
ASSUME CountsAssumption == MaxAccounts \in Nat /\ MaxFailures \in Nat

Links == VerifyLinks \cup ResetLinks

VARIABLES
  account,  \* the row: its id, 0 when there is none; has it a password; is it verified
  made,     \* accounts made so far
  link,     \* of each token: no row, a row, mailed too, or mailed and too old
  visit,    \* of each request: next statement, what it read of the row, the link in hand
  failures,
  (* history *)
  used      \* the reset links that have set a password

credentialVars == <<account, made, link, visit, failures, used>>

-----------------------------------------------------------------------------
Accounts == [id: 0..MaxAccounts, password: BOOLEAN, verified: BOOLEAN]
NoAccount == [id |-> 0, password |-> FALSE, verified |-> FALSE]

LinkStates == {"none", "made", "mailed", "expired"}

VisitSteps == {"idle", "register", "provision", "claim", "clear verify", "clear reset",
               "mint verify", "mint reset", "mail", "verify", "password", "drop"}
VisitRows == [step: VisitSteps, id: 0..MaxAccounts, link: Links \cup {NoLink}]
NoVisit == [step |-> "idle", id |-> 0, link |-> NoLink]

CredentialTypeOK ==
  /\ account \in Accounts
  /\ made \in 0..MaxAccounts
  /\ link \in [Links -> LinkStates]
  /\ visit \in [Visits -> VisitRows]
  /\ failures \in 0..MaxFailures
  /\ used \subseteq ResetLinks

CredentialInit ==
  /\ account = NoAccount
  /\ made = 0
  /\ link = [t \in Links |-> "none"]
  /\ visit = [r \in Visits |-> NoVisit]
  /\ failures = 0
  /\ used = {}

-----------------------------------------------------------------------------
(* Steps of a request *)

On(r, step) == visit[r].step = step
Same(r) == visit[r].id = account.id
AccountExists == account.id # 0

\* The request reads the row and goes on, with a link or without one.
Visit(r, step, t) ==
  /\ On(r, "idle")
  /\ visit' = [visit EXCEPT ![r] = [step |-> step, id |-> account.id, link |-> t]]
  /\ UNCHANGED <<account, made, link, failures, used>>

Move(r, step) == visit' = [visit EXCEPT ![r].step = step]
Leave(r) == visit' = [visit EXCEPT ![r] = NoVisit]

-----------------------------------------------------------------------------
(* Accounts *)

\* A mistake: an account that a purchase made is taken for a registered one.
WrongNoShell(row) == FALSE

\* isUnclaimedShell.
UnclaimedShell(row) == row.id # 0 /\ ~row.password /\ ~row.verified

\* registerUser inserts an account, completes a shell, or does nothing.
RegisterUser(r) ==
  \/ ~AccountExists /\ Visit(r, "register", NoLink)
  \/ UnclaimedShell(account) /\ Visit(r, "claim", NoLink)

\* provisionUserForOrder inserts a shell for a buyer without an account.
ProvisionUser(r) == ~AccountExists /\ Visit(r, "provision", NoLink)

\* The address is unique: the second insert raises.
InsertUser(r) ==
  /\ On(r, "register") \/ On(r, "provision")
  /\ IF AccountExists
     THEN Leave(r) /\ UNCHANGED <<account, made>>
     ELSE /\ made < MaxAccounts
          /\ made' = made + 1
          /\ account' = [id |-> made', password |-> On(r, "register"), verified |-> FALSE]
          /\ visit' = [visit EXCEPT ![r] =
               [step |-> IF On(r, "register") THEN "mint verify" ELSE "mint reset",
                id |-> made', link |-> NoLink]]
  /\ UNCHANGED <<link, failures, used>>

\* UPDATE users SET password_hash ... WHERE id = ...: that the row is still a
\* shell is not asked again.
ClaimShell(r) ==
  /\ On(r, "claim")
  /\ IF Same(r)
     THEN account' = [account EXCEPT !.password = TRUE]
     ELSE UNCHANGED account
  /\ Move(r, "mint verify")
  /\ UNCHANGED <<made, link, failures, used>>

\* deleteUser; the tokens cascade.
DeleteAccount ==
  /\ AccountExists
  /\ made < MaxAccounts
  /\ account' = NoAccount
  /\ link' = [t \in Links |-> "none"]
  /\ UNCHANGED <<made, visit, failures, used>>

-----------------------------------------------------------------------------
(* Links *)

ResendVerification(r) ==
  /\ account.password /\ ~account.verified
  /\ Visit(r, "clear verify", NoLink)

RequestPasswordReset(r) ==
  /\ account.password
  /\ Visit(r, "clear reset", NoLink)

\* resendActivation: for an account without a password; nothing is cleared. The
\* bound: there is a reset link left for it.
ResendActivation(r) ==
  /\ AccountExists /\ ~account.password
  /\ Cardinality({q \in Visits : On(q, "mint reset")})
       < Cardinality({t \in ResetLinks : link[t] = "none" /\ \A q \in Visits : visit[q].link # t})
  /\ Visit(r, "mint reset", NoLink)

Without(kind) == [t \in Links |-> IF t \in kind THEN "none" ELSE link[t]]

\* The links of the account are deleted before a new one is made.
ClearLinks(r) ==
  /\ \/ /\ On(r, "clear verify")
        /\ link' = IF Same(r) THEN Without(VerifyLinks) ELSE link
        /\ Move(r, "mint verify")
     \/ /\ On(r, "clear reset")
        /\ link' = IF Same(r) THEN Without(ResetLinks) ELSE link
        /\ Move(r, "mint reset")
  /\ UNCHANGED <<account, made, failures, used>>

\* The row refers to the account; a new token differs from all others in use.
MintLink(r, t) ==
  /\ \/ On(r, "mint verify") /\ t \in VerifyLinks
     \/ On(r, "mint reset") /\ t \in ResetLinks
  /\ Same(r)
  /\ link[t] = "none"
  /\ \A q \in Visits : visit[q].link # t
  /\ link' = [link EXCEPT ![t] = "made"]
  /\ used' = used \ {t}
  /\ visit' = [visit EXCEPT ![r].step = "mail", ![r].link = t]
  /\ UNCHANGED <<account, made, failures>>

\* The account was deleted meanwhile: the insert raises.
OrphanLink(r) ==
  /\ On(r, "mint verify") \/ On(r, "mint reset")
  /\ ~Same(r)
  /\ Leave(r)
  /\ UNCHANGED <<account, made, link, failures, used>>

\* The link may have been deleted meanwhile.
SendMail(r) ==
  /\ On(r, "mail")
  /\ link' = [link EXCEPT ![visit[r].link] = IF @ = "made" THEN "mailed" ELSE @]
  /\ Leave(r)
  /\ UNCHANGED <<account, made, failures, used>>

\* A day or an hour has passed. What was never mailed does not matter.
LinkExpires(t) ==
  /\ link[t] = "mailed"
  /\ link' = [link EXCEPT ![t] = "expired"]
  /\ UNCHANGED <<account, made, visit, failures, used>>

-----------------------------------------------------------------------------
(* Redeeming *)

\* The owner opens a mailed link. An expired one is deleted.
Redeem(r, t, step) ==
  \/ link[t] = "mailed" /\ Visit(r, step, t)
  \/ link[t] = "expired" /\ Visit(r, "drop", t)

VerifyEmailToken(r, t) == t \in VerifyLinks /\ Redeem(r, t, "verify")
ResetPassword(r, t) == t \in ResetLinks /\ Redeem(r, t, "password")

SetVerified(r) ==
  /\ On(r, "verify")
  /\ account' = [account EXCEPT !.verified = (@ \/ Same(r))]
  /\ Move(r, "drop")
  /\ UNCHANGED <<made, link, failures, used>>

\* The password is set and the address is verified by one UPDATE.
SetPassword(r) ==
  LET t == visit[r].link IN
  /\ On(r, "password")
  /\ IF Same(r)
     THEN /\ account' = [account EXCEPT !.password = TRUE, !.verified = TRUE]
          /\ used' = used \cup {t}
     ELSE UNCHANGED <<account, used>>
  /\ Move(r, "drop")
  /\ UNCHANGED <<made, link, failures>>

\* A mistake: the link stays.
WrongDropLink(r) ==
  /\ On(r, "drop")
  /\ Leave(r)
  /\ UNCHANGED <<account, made, link, failures, used>>

\* It is used up.
DropLink(r) ==
  /\ On(r, "drop")
  /\ link' = [link EXCEPT ![visit[r].link] = "none"]
  /\ Leave(r)
  /\ UNCHANGED <<account, made, failures, used>>

\* A statement or the mail fails, or the process dies.
FailVisit(r) ==
  /\ ~On(r, "idle")
  /\ failures < MaxFailures
  /\ failures' = failures + 1
  /\ Leave(r)
  /\ UNCHANGED <<account, made, link, used>>

-----------------------------------------------------------------------------
VisitStep(r) ==
  \/ InsertUser(r)
  \/ ClaimShell(r)
  \/ ClearLinks(r)
  \/ \E t \in Links : MintLink(r, t)
  \/ OrphanLink(r)
  \/ SendMail(r)
  \/ SetVerified(r)
  \/ SetPassword(r)
  \/ DropLink(r)

Arrive(r) ==
  \/ RegisterUser(r)
  \/ ProvisionUser(r)
  \/ ResendVerification(r)
  \/ RequestPasswordReset(r)
  \/ ResendActivation(r)
  \/ \E t \in Links : VerifyEmailToken(r, t) \/ ResetPassword(r, t)

CredentialNext ==
  \/ \E r \in Visits : VisitStep(r) \/ Arrive(r) \/ FailVisit(r)
  \/ DeleteAccount
  \/ \E t \in Links : LinkExpires(t)

OwnerRegisters == \E r \in Visits : RegisterUser(r)
OwnerAsksAgain == \E r \in Visits : ResendVerification(r)
OwnerVerifies ==
  \E r \in Visits, t \in Links : link[t] = "mailed" /\ VerifyEmailToken(r, t)

\* A request that is not killed goes on. The owner of the address does not give
\* up: he registers, asks for the mail again, and opens a link that is not too old.
CredentialFairness ==
  /\ \A r \in Visits : WF_credentialVars(VisitStep(r))
  /\ SF_credentialVars(OwnerRegisters)
  /\ SF_credentialVars(OwnerAsksAgain)
  /\ SF_credentialVars(OwnerVerifies)

CredentialSpec == CredentialInit /\ [][CredentialNext]_credentialVars
FairCredentialSpec == CredentialSpec /\ CredentialFairness

-----------------------------------------------------------------------------
(* Properties *)

\* A reset or activation link sets a password once ("single-use",
\* lib/schema/auth.ts:107; read, used and deleted at actions/auth.ts:389-437),
\* unless it was opened twice at a time or a request died.
LinkGoodOnce ==
  [][\A r \in Visits :
       LET t == visit[r].link IN
       SetPassword(r) /\ Same(r) /\ t \in used =>
         link[t] = "none" \/ (\E q \in Visits \ {r} : visit[q].link = t) \/ failures > 0]_credentialVars

\* What the comment at actions/auth.ts:100 promises ("A shell has NO credentials, so
\* completing its registration cannot take over anything"): no registration writes
\* the password of an account that its owner has activated or verified.
RegistrationTakesNothing ==
  [][\A r \in Visits : ClaimShell(r) /\ Same(r) => ~account.verified]_credentialVars

\* A request is about to mail a verification link.
MailsAgain(r) ==
  On(r, "clear verify") \/ On(r, "mint verify") \/ (On(r, "mail") /\ visit[r].link \in VerifyLinks)

\* A request to mail the address again deletes the links while another is about
\* to mail one. The cooldown (lib/rate-limit.ts) keeps them apart in one process.
ResendsOverlap ==
  \E r, q \in Visits : r # q /\ On(r, "clear verify") /\ MailsAgain(q)

\* No purchase, no lost mail, no deleted account makes an address unusable: who
\* keeps registering and asking for mail ends up with an account he can use.
AddressUsable == []<>(account.password /\ account.verified) \/ []<>ResendsOverlap

-----------------------------------------------------------------------------
(* The inductive invariant *)

\* A request has a link in hand from the statement that made it or found it.
HoldInv ==
  \A r \in Visits :
    /\ visit[r].step \in {"mail", "verify", "drop"} => visit[r].link \in Links
    /\ On(r, "password") => visit[r].link \in ResetLinks

\* As long as no request has died, a link that has set a password is gone, or the
\* request that used it is about to delete it.
UsedInv ==
  failures = 0 =>
    \A t \in used : link[t] = "none" \/ \E r \in Visits : On(r, "drop") /\ visit[r].link = t

CredentialIInv == CredentialTypeOK /\ HoldInv /\ UsedInv
=============================================================================
