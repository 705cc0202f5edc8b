-------------------------- MODULE CredentialProofs --------------------------
(***************************************************************************)
(* Proofs about Credentials, for any number of links, requests, accounts   *)
(* and failures. A link outlives the password it has set only as long as   *)
(* the request that used it has not reached its DELETE.                    *)
(***************************************************************************)
EXTENDS Credentials, TLAPS

LEMMA CredentialInitEstablishes == CredentialInit => CredentialIInv
<1> SUFFICES ASSUME CredentialInit PROVE CredentialIInv
  OBVIOUS
<1>1. NoVisit \in VisitRows /\ NoVisit.step = "idle"
  BY CountsAssumption DEF NoVisit, VisitRows, VisitSteps
<1>2. NoAccount \in Accounts
  BY CountsAssumption DEF NoAccount, Accounts
<1>3. CredentialTypeOK
  BY <1>1, <1>2, CountsAssumption DEF CredentialInit, CredentialTypeOK, LinkStates
<1>4. \A r \in Visits : visit[r].step = "idle"
  BY <1>1 DEF CredentialInit
<1> QED
  BY <1>3, <1>4 DEF CredentialInit, CredentialIInv, HoldInv, UsedInv, On

\* A request that begins, goes on or leaves.
LEMMA VisitStepKeeps ==
  ASSUME CredentialIInv, NEW r \in Visits, NEW row \in VisitRows,
         visit' = [visit EXCEPT ![r] = row],
         account' \in Accounts, made' \in 0..MaxAccounts, failures' \in 0..MaxFailures,
         link' \in [Links -> LinkStates], used' \subseteq ResetLinks,
         row.step \in {"mail", "verify", "drop"} => row.link \in Links,
         row.step = "password" => row.link \in ResetLinks,
         failures' = 0 =>
           /\ failures = 0
           /\ \A t \in used' :
                \/ link'[t] = "none"
                \/ row.step = "drop" /\ row.link = t
                \/ /\ t \in used /\ link[t] # "none"
                   /\ ~(On(r, "drop") /\ visit[r].link = t)
  PROVE  CredentialIInv'
<1>1. /\ visit' \in [Visits -> VisitRows] /\ visit'[r] = row
      /\ \A q \in Visits \ {r} : visit'[q] = visit[q]
  BY DEF CredentialIInv, CredentialTypeOK
<1>2. CredentialTypeOK'
  BY <1>1 DEF CredentialTypeOK
<1>3. HoldInv'
  BY <1>1 DEF CredentialIInv, HoldInv, On
<1>4. UsedInv'
  <2> SUFFICES ASSUME failures' = 0, NEW t \in used', link'[t] # "none"
               PROVE  \E q \in Visits : visit'[q].step = "drop" /\ visit'[q].link = t
    BY DEF UsedInv, On
  <2>1. CASE row.step = "drop" /\ row.link = t
    BY <1>1, <2>1
  <2>2. CASE t \in used /\ link[t] # "none" /\ ~(On(r, "drop") /\ visit[r].link = t)
    <3>1. PICK q \in Visits : On(q, "drop") /\ visit[q].link = t
      BY <2>2 DEF CredentialIInv, UsedInv
    <3> QED
      BY <1>1, <2>2, <3>1 DEF On
  <2> QED
    BY <2>1, <2>2
<1> QED
  BY <1>2, <1>3, <1>4 DEF CredentialIInv

\* A request that leaves: it had no link to delete, has deleted it, or has died.
LEMMA LeaveKeeps ==
  ASSUME CredentialIInv, NEW r \in Visits, Leave(r),
         account' \in Accounts, made' \in 0..MaxAccounts, failures' \in 0..MaxFailures,
         link' \in [Links -> LinkStates], UNCHANGED used,
         \A t \in Links : link[t] = "none" => link'[t] = "none",
         failures' = 0 =>
           failures = 0 /\ (On(r, "drop") => link'[visit[r].link] = "none")
  PROVE  CredentialIInv'
<1>1. NoVisit \in VisitRows /\ NoVisit.step = "idle"
  BY CountsAssumption DEF NoVisit, VisitRows, VisitSteps
<1>2. visit' = [visit EXCEPT ![r] = NoVisit]
  BY DEF Leave
<1>3. used' \subseteq ResetLinks /\ ResetLinks \subseteq Links
  BY DEF CredentialIInv, CredentialTypeOK, Links
<1> HIDE DEF NoVisit
<1>4. ASSUME failures' = 0, NEW t \in used'
      PROVE  \/ link'[t] = "none"
             \/ t \in used /\ link[t] # "none" /\ ~(On(r, "drop") /\ visit[r].link = t)
  BY <1>3, <1>4
<1> QED
  BY <1>1, <1>2, <1>3, <1>4, VisitStepKeeps

\* One that goes on with what it has.
LEMMA MoveKeeps ==
  ASSUME CredentialIInv, NEW r \in Visits, NEW step \in VisitSteps, Move(r, step),
         ~On(r, "drop"), UNCHANGED failures,
         account' \in Accounts, made' \in 0..MaxAccounts,
         link' \in [Links -> LinkStates], used' \subseteq ResetLinks,
         step = "drop" => visit[r].link \in Links,
         step \notin {"mail", "verify", "password"},
         \A t \in Links : link[t] = "none" => link'[t] = "none",
         \A t \in used' : t \in used \/ (step = "drop" /\ visit[r].link = t)
  PROVE  CredentialIInv'
<1> DEFINE row == [visit[r] EXCEPT !.step = step]
<1>1. visit[r] \in VisitRows
  BY DEF CredentialIInv, CredentialTypeOK
<1>2. row \in VisitRows /\ row.step = step /\ row.link = visit[r].link
  BY <1>1 DEF VisitRows
<1>3. visit' = [visit EXCEPT ![r] = row]
  BY DEF Move
<1>4. failures' \in 0..MaxFailures /\ ResetLinks \subseteq Links
  BY DEF CredentialIInv, CredentialTypeOK, Links
<1> HIDE DEF row
<1>5. ASSUME failures' = 0, NEW t \in used'
      PROVE  \/ link'[t] = "none"
             \/ row.step = "drop" /\ row.link = t
             \/ t \in used /\ link[t] # "none" /\ ~(On(r, "drop") /\ visit[r].link = t)
  BY <1>2, <1>4, <1>5
<1> QED
  BY <1>2, <1>3, <1>4, <1>5, VisitStepKeeps

LEMMA BeginKeeps ==
  ASSUME CredentialIInv, NEW r \in Visits, NEW step \in VisitSteps, NEW t \in Links \cup {NoLink},
         Visit(r, step, t),
         step \in {"mail", "verify", "drop"} => t \in Links,
         step = "password" => t \in ResetLinks
  PROVE  CredentialIInv'
<1> DEFINE row == [step |-> step, id |-> account.id, link |-> t]
<1>1. account \in Accounts
  BY DEF CredentialIInv, CredentialTypeOK
<1>2. row \in VisitRows
  <2>1. account.id \in 0..MaxAccounts
    BY <1>1 DEF Accounts
  <2> HIDE DEF VisitSteps
  <2> QED
    BY <2>1 DEF VisitRows
<1>3. row.step = step /\ row.link = t
  OBVIOUS
<1>4. visit' = [visit EXCEPT ![r] = row] /\ UNCHANGED <<account, made, link, failures, used>>
  BY DEF Visit
<1>5. On(r, "idle")
  BY DEF Visit
<1> HIDE DEF row
<1>6. ResetLinks \subseteq Links
  BY DEF Links
<1> QED
  BY <1>2, <1>3, <1>4, <1>5, <1>6, VisitStepKeeps DEF CredentialIInv, CredentialTypeOK, On

-----------------------------------------------------------------------------
(* The actions *)

LEMMA ArriveKeeps ==
  ASSUME CredentialIInv, NEW r \in Visits, Arrive(r)
  PROVE  CredentialIInv'
<1>1. CASE RegisterUser(r)
  BY <1>1, BeginKeeps DEF RegisterUser, VisitSteps
<1>2. CASE ProvisionUser(r)
  BY <1>2, BeginKeeps DEF ProvisionUser, VisitSteps
<1>3. CASE ResendVerification(r)
  BY <1>3, BeginKeeps DEF ResendVerification, VisitSteps
<1>4. CASE RequestPasswordReset(r)
  BY <1>4, BeginKeeps DEF RequestPasswordReset, VisitSteps
<1>5. CASE ResendActivation(r)
  BY <1>5, BeginKeeps DEF ResendActivation, VisitSteps
<1>6. CASE \E t \in Links : VerifyEmailToken(r, t)
  BY <1>6, BeginKeeps DEF VerifyEmailToken, Redeem, VisitSteps
<1>7. CASE \E t \in Links : ResetPassword(r, t)
  BY <1>7, BeginKeeps DEF ResetPassword, Redeem, VisitSteps
<1> QED
  BY <1>1, <1>2, <1>3, <1>4, <1>5, <1>6, <1>7 DEF Arrive

LEMMA InsertKeeps ==
  ASSUME CredentialIInv, NEW r \in Visits, InsertUser(r)
  PROVE  CredentialIInv'
<1> USE DEF CredentialIInv, CredentialTypeOK
<1>1. /\ On(r, "register") \/ On(r, "provision")
      /\ UNCHANGED <<link, failures, used>>
  BY DEF InsertUser
<1>2. CASE AccountExists
  <2>1. Leave(r) /\ UNCHANGED <<account, made>>
    BY <1>2 DEF InsertUser
  <2> HIDE DEF CredentialIInv
  <2> QED
    BY <1>1, <2>1, LeaveKeeps DEF On, CredentialIInv
<1>3. CASE ~AccountExists
  <2>0. made' = made + 1 /\ made < MaxAccounts
    BY <1>3 DEF InsertUser
  <2> DEFINE row == [step |-> IF On(r, "register") THEN "mint verify" ELSE "mint reset",
                     id |-> made', link |-> NoLink]
  <2>1. /\ account' = [id |-> made', password |-> On(r, "register"), verified |-> FALSE]
        /\ visit' = [visit EXCEPT ![r] = row]
    BY <1>3 DEF InsertUser
  <2>2. made' \in 0..MaxAccounts
    <3>1. made \in 0..MaxAccounts
      OBVIOUS
    <3> QED
      BY <2>0, <3>1, CountsAssumption
  <2>3. account' \in Accounts
    <3>1. On(r, "register") \in BOOLEAN
      BY DEF On
    <3> QED
      BY <2>1, <2>2, <3>1 DEF Accounts
  <2>4. row \in VisitRows /\ row.step \in {"mint verify", "mint reset"}
    BY <2>2 DEF VisitRows, VisitSteps
  <2> HIDE DEF row
  <2>5. ResetLinks \subseteq Links
    BY DEF Links
  <2> QED
    BY <1>1, <2>1, <2>2, <2>3, <2>4, <2>5, VisitStepKeeps DEF On
<1> QED
  BY <1>2, <1>3

LEMMA MintKeeps ==
  ASSUME CredentialIInv, NEW r \in Visits, NEW t \in Links, MintLink(r, t)
  PROVE  CredentialIInv'
<1> DEFINE row == [visit[r] EXCEPT !.step = "mail", !.link = t]
<1>1. visit[r] \in VisitRows
  BY DEF CredentialIInv, CredentialTypeOK
<1>2. row \in VisitRows /\ row.step = "mail" /\ row.link = t
  BY <1>1 DEF VisitRows, VisitSteps
<1>3. /\ visit' = [visit EXCEPT ![r] = row]
      /\ link' = [link EXCEPT ![t] = "made"]
      /\ used' = used \ {t}
      /\ visit[r].step \in {"mint verify", "mint reset"}
      /\ UNCHANGED <<account, made, failures>>
  BY DEF MintLink, On
<1> HIDE DEF row
<1>4. /\ link' \in [Links -> LinkStates]
      /\ \A k \in Links \ {t} : link'[k] = link[k]
      /\ used' \subseteq ResetLinks /\ ResetLinks \subseteq Links
  BY <1>3 DEF CredentialIInv, CredentialTypeOK, LinkStates, Links
<1>5. ASSUME failures' = 0, NEW k \in used'
      PROVE  \/ link'[k] = "none"
             \/ k \in used /\ link[k] # "none" /\ ~(On(r, "drop") /\ visit[r].link = k)
  BY <1>3, <1>4, <1>5 DEF On
<1> QED
  BY <1>2, <1>3, <1>4, <1>5, VisitStepKeeps DEF CredentialIInv, CredentialTypeOK

LEMMA VisitKeeps ==
  ASSUME CredentialIInv, NEW r \in Visits, VisitStep(r)
  PROVE  CredentialIInv'
<1> USE DEF CredentialTypeOK
<1>0. CredentialTypeOK /\ ResetLinks \subseteq Links
  BY DEF CredentialIInv, Links
<1>1. CASE InsertUser(r)
  BY <1>1, InsertKeeps
<1>2. CASE ClaimShell(r)
  <2>1. account' \in Accounts
    BY <1>0, <1>2 DEF ClaimShell, Accounts
  <2> QED
    BY <1>0, <1>2, <2>1, MoveKeeps DEF ClaimShell, On, VisitSteps
<1>3. CASE ClearLinks(r)
  <2>1. /\ link' \in [Links -> LinkStates]
        /\ \A t \in Links : link[t] = "none" => link'[t] = "none"
    BY <1>0, <1>3 DEF ClearLinks, Without, LinkStates
  <2> QED
    BY <1>0, <1>3, <2>1, MoveKeeps DEF ClearLinks, On, VisitSteps
<1>4. CASE \E t \in Links : MintLink(r, t)
  BY <1>4, MintKeeps
<1>5. CASE OrphanLink(r)
  BY <1>0, <1>5, LeaveKeeps DEF OrphanLink, On
<1>6. CASE SendMail(r)
  <2>1. /\ link' \in [Links -> LinkStates]
        /\ \A t \in Links : link[t] = "none" => link'[t] = "none"
    BY <1>0, <1>6 DEF SendMail, LinkStates
  <2> QED
    BY <1>0, <1>6, <2>1, LeaveKeeps DEF SendMail, On
<1>7. CASE SetVerified(r)
  <2>1. account' \in Accounts
    <3> DEFINE new == (account.verified \/ Same(r))
    <3>1. new \in BOOLEAN
      BY DEF Same
    <3>2. account' = [account EXCEPT !.verified = new]
      BY <1>7 DEF SetVerified
    <3> HIDE DEF new
    <3> QED
      BY <1>0, <3>1, <3>2 DEF Accounts
  <2>2. visit[r].link \in Links
    BY <1>7 DEF SetVerified, On, CredentialIInv, HoldInv
  <2> QED
    BY <1>0, <1>7, <2>1, <2>2, MoveKeeps DEF SetVerified, On, VisitSteps
<1>8. CASE SetPassword(r)
  <2>1. account' \in Accounts
    BY <1>0, <1>8 DEF SetPassword, Accounts
  <2>2. visit[r].link \in ResetLinks
    BY <1>8 DEF SetPassword, CredentialIInv, HoldInv
  <2>3. /\ used' \subseteq ResetLinks
        /\ \A t \in used' : t \in used \/ visit[r].link = t
    BY <1>0, <1>8, <2>2 DEF SetPassword
  <2> QED
    BY <1>0, <1>8, <2>1, <2>2, <2>3, MoveKeeps DEF SetPassword, On, VisitSteps
<1>9. CASE DropLink(r)
  <2>1. visit[r].link \in Links
    BY <1>9 DEF DropLink, On, CredentialIInv, HoldInv
  <2>2. /\ link' \in [Links -> LinkStates]
        /\ \A t \in Links : link[t] = "none" => link'[t] = "none"
        /\ link'[visit[r].link] = "none"
    BY <1>0, <1>9, <2>1 DEF DropLink, LinkStates
  <2> QED
    BY <1>0, <1>9, <2>2, LeaveKeeps DEF DropLink
<1> QED
  BY <1>1, <1>2, <1>3, <1>4, <1>5, <1>6, <1>7, <1>8, <1>9 DEF VisitStep

LEMMA OtherKeeps ==
  ASSUME CredentialIInv,
         \/ \E r \in Visits : FailVisit(r)
         \/ DeleteAccount
         \/ \E t \in Links : LinkExpires(t)
         \/ UNCHANGED credentialVars
  PROVE  CredentialIInv'
<1>0. CredentialTypeOK /\ used \subseteq Links
  BY DEF CredentialIInv, CredentialTypeOK, Links
<1>1. CASE \E r \in Visits : FailVisit(r)
  <2>1. PICK r \in Visits : FailVisit(r)
    BY <1>1
  <2>2. failures' \in 0..MaxFailures /\ failures' # 0
    BY <1>0, <2>1, CountsAssumption DEF FailVisit, CredentialTypeOK
  <2> QED
    BY <1>0, <2>1, <2>2, LeaveKeeps DEF FailVisit, CredentialTypeOK
<1>2. CASE DeleteAccount
  <2>1. account' \in Accounts
    BY <1>2, CountsAssumption DEF DeleteAccount, NoAccount, Accounts
  <2>2. link' \in [Links -> LinkStates] /\ \A t \in Links : link'[t] = "none"
    BY <1>2 DEF DeleteAccount, LinkStates
  <2> QED
    BY <1>0, <1>2, <2>1, <2>2
    DEF DeleteAccount, CredentialIInv, CredentialTypeOK, HoldInv, UsedInv, On
<1>3. CASE \E t \in Links : LinkExpires(t)
  <2>1. /\ link' \in [Links -> LinkStates]
        /\ \A t \in Links : link[t] = "none" => link'[t] = "none"
        /\ UNCHANGED <<account, made, visit, failures, used>>
    BY <1>0, <1>3 DEF LinkExpires, CredentialTypeOK, LinkStates
  <2> QED
    BY <1>0, <2>1 DEF CredentialIInv, CredentialTypeOK, HoldInv, UsedInv, On
<1>4. CASE UNCHANGED credentialVars
  BY <1>4
  DEF credentialVars, CredentialIInv, CredentialTypeOK, HoldInv, UsedInv, On
<1> QED
  BY <1>1, <1>2, <1>3, <1>4

\* A used link lives on only until the request that used it deletes it.
THEOREM CredentialInductive == CredentialSpec => []CredentialIInv
<1>1. CredentialIInv /\ [CredentialNext]_credentialVars => CredentialIInv'
  BY ArriveKeeps, VisitKeeps, OtherKeeps DEF CredentialNext
<1> QED
  BY CredentialInitEstablishes, <1>1, PTL DEF CredentialSpec

\* A link sets a password twice only when two requests hold it at a time, one of
\* them has deleted it already, or a request has died (actions/auth.ts:389-437).
THEOREM LinksAreGoodOnce == CredentialSpec => LinkGoodOnce
<1> DEFINE Once(r) ==
      SetPassword(r) /\ Same(r) /\ visit[r].link \in used =>
        \/ link[visit[r].link] = "none"
        \/ \E q \in Visits \ {r} : visit[q].link = visit[r].link
        \/ failures > 0
<1>1. ASSUME CredentialIInv, NEW r \in Visits PROVE Once(r)
  <2> SUFFICES ASSUME SetPassword(r), visit[r].link \in used,
                      link[visit[r].link] # "none", failures = 0
               PROVE  \E q \in Visits \ {r} : visit[q].link = visit[r].link
    BY <1>1 DEF CredentialIInv, CredentialTypeOK
  <2>1. PICK q \in Visits : On(q, "drop") /\ visit[q].link = visit[r].link
    BY <1>1 DEF CredentialIInv, UsedInv
  <2>2. q # r
    BY <2>1 DEF SetPassword, On
  <2> QED
    BY <2>1, <2>2
<1>2. CredentialIInv =>
        [\A r \in Visits :
           LET t == visit[r].link IN
           SetPassword(r) /\ Same(r) /\ t \in used =>
             link[t] = "none" \/ (\E q \in Visits \ {r} : visit[q].link = t) \/ failures > 0]_credentialVars
  BY <1>1
<1> QED
  BY <1>2, CredentialInductive, PTL DEF LinkGoodOnce
=============================================================================
