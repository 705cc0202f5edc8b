------------------------ MODULE AuthenticationProofs ------------------------
(***************************************************************************)
(* Theorems about Authentication, for any number of requests and browsers, *)
(* any limit, and the lockout switched on or off.                          *)
(***************************************************************************)
EXTENDS Authentication, TLAPS

USE LockoutAssumption, LimitAssumption, BoundAssumption
-----------------------------------------------------------------------------
(* Types *)

LEMMA RowTypes ==
  ASSUME NEW row \in Rows, NEW seen \in Rows
  PROVE  /\ NextFailed(row) \in Nat
         /\ NextLock(row) \in Locks
         /\ Pass(row, seen) \in Rows
         /\ Off(row) \in Rows
         /\ Cleared(row) \in Rows
<1> USE DEF Rows
<1>1. NextFailed(row) \in Nat BY DEF NextFailed
<1>2. NextLock(row) \in Locks BY DEF NextLock, Locks
<1>3. Cleared(row) \in Rows BY DEF Cleared, Locks
<1>4. Pass(row, seen) \in Rows BY <1>3 DEF Pass
<1>5. Off(row) \in Rows
  <2>1. 0 \in 0..MaxSecrets /\ {} \in SUBSET Codes OBVIOUS
  <2> QED BY <2>1 DEF Off
<1> QED BY <1>1, <1>2, <1>3, <1>4, <1>5

LEMMA CodeTypes ==
  /\ NewRow \in Rows
  /\ NoCode \notin Codes
  /\ \A n \in 1..MaxSets : CodesOf(n) \in SUBSET Codes
BY DEF NewRow, Rows, Locks, NoCode, Codes, CodesOf

\* A request that leaves or reads the row keeps the types of what it touches.
LEMMA LeaveTypes ==
  ASSUME TypeOK, NEW r \in Requests, Leave(r)
  PROVE  /\ pc' \in [Requests -> Steps]
         /\ copy' \in [Requests -> Rows]
         /\ right' \in [Requests -> BOOLEAN]
         /\ code' \in [Requests -> Codes \cup {NoCode}]
         /\ by' \in [Requests -> SUBSET Browsers]
         /\ proved' \in [Requests -> BOOLEAN]
         /\ entries' \in [Requests -> Nat]
BY CodeTypes DEF TypeOK, Leave, Submit, Steps

LEMMA FinishTypes ==
  ASSUME TypeOK, NEW r \in Requests, NEW session \in BOOLEAN, Finish(r, session)
  PROVE  /\ pc' \in [Requests -> Steps]
         /\ copy' \in [Requests -> Rows]
         /\ right' \in [Requests -> BOOLEAN]
         /\ code' \in [Requests -> Codes \cup {NoCode}]
         /\ by' \in [Requests -> SUBSET Browsers]
         /\ proved' \in [Requests -> BOOLEAN]
         /\ entries' \in [Requests -> Nat]
         /\ misfiled' \in BOOLEAN
<1>1. Leave(r) BY DEF Finish
<1>2. misfiled' \in BOOLEAN BY Zenon DEF Finish, TypeOK
<1> QED BY <1>1, <1>2, LeaveTypes

LEMMA RequestTypes ==
  ASSUME TypeOK, NEW r \in Requests, NEW next \in Steps,
         Read(r, next) \/ Goto(r, next)
  PROVE  pc' \in [Requests -> Steps] /\ copy' \in [Requests -> Rows]
BY DEF TypeOK, Read, Goto

LEMMA SubmitTypes ==
  ASSUME TypeOK, NEW r \in Requests, NEW password \in BOOLEAN,
         NEW backup \in Codes \cup {NoCode}, NEW from \in SUBSET Browsers,
         Submit(r, password, backup, from)
  PROVE  /\ right' \in [Requests -> BOOLEAN]
         /\ code' \in [Requests -> Codes \cup {NoCode}]
         /\ by' \in [Requests -> SUBSET Browsers]
BY DEF TypeOK, Submit

LEMMA CountTypes ==
  ASSUME TypeOK, NEW r \in Requests,
         CountMiss(r) \/ ClearMisses(r)
  PROVE  /\ user' \in Rows
         /\ raced' \in BOOLEAN
         /\ misses' \in Nat
         /\ streak' \in Nat
         /\ valid' \subseteq Codes
         /\ confirmed' \subseteq 1..MaxSecrets
<1>1. copy[r] \in Rows /\ user \in Rows BY DEF TypeOK
<1>2. CASE CountMiss(r)
  <2>1. raced' \in BOOLEAN
    BY <1>2, Zenon DEF CountMiss, ActOnCopy, TypeOK
  <2> DEFINE n == NextFailed(copy[r])
             l == NextLock(copy[r])
             new == [user EXCEPT !.failed = n, !.lock = l]
  <2>4. n \in Nat /\ l \in Locks BY <1>1, RowTypes
  <2>5. user' = new \/ user' = user BY <1>2 DEF CountMiss
  <2> HIDE DEF n, l
  <2>6. new \in Rows BY <1>1, <2>4 DEF Rows
  <2>2. user' \in Rows BY <1>1, <2>5, <2>6
  <2>3. misses' \in Nat /\ streak' \in Nat
    BY <1>2 DEF CountMiss, TypeOK
  <2> QED BY <1>2, <2>1, <2>2, <2>3 DEF CountMiss, TypeOK
<1>3. CASE ClearMisses(r)
  <2>1. raced' \in BOOLEAN
    BY <1>3, Zenon DEF ClearMisses, ActOnCopy, TypeOK
  <2>2. user' \in Rows
    BY <1>1, <1>3, RowTypes DEF ClearMisses
  <2> QED BY <1>3, <2>1, <2>2 DEF ClearMisses, TypeOK
<1> QED BY <1>2, <1>3

LEMMA EndTypes ==
  ASSUME TypeOK, NEW r \in Requests, End(r)
  PROVE  /\ pc' \in [Requests -> Steps]
         /\ copy' \in [Requests -> Rows]
         /\ right' \in [Requests -> BOOLEAN]
         /\ code' \in [Requests -> Codes \cup {NoCode}]
         /\ by' \in [Requests -> SUBSET Browsers]
         /\ proved' \in [Requests -> BOOLEAN]
         /\ entries' \in [Requests -> Nat]
         /\ misfiled' \in BOOLEAN
BY FinishTypes DEF End

\* A step keeps the types.
LEMMA TypeStep ==
  ASSUME TypeOK, Next
  PROVE  TypeOK'
<1> USE DEF counters, historyVars, inputVars, loginVars, requestVars
<1>0. shut' \in [Requests -> BOOLEAN] /\ KeepShut
  <2>1. user' \in Rows => \A r \in Requests : (user'.enabled /\ (pc'[r] = "idle" \/ shut[r])) \in BOOLEAN
    BY Zenon DEF Rows
  <2>2. shut' = [r \in Requests |-> user'.enabled /\ (pc'[r] = "idle" \/ shut[r])] /\ KeepShut
    BY DEF Next, KeepShut
  <2>3. \A r \in Requests : (user'.enabled /\ (pc'[r] = "idle" \/ shut[r])) \in BOOLEAN
    BY Zenon
  <2> QED BY <2>2, <2>3, Zenon
<1>1. ASSUME NEW r \in Requests, RequestStep(r) PROVE TypeOK'
  <2>1. CASE Authorize(r)
    BY <1>0, <2>1, EndTypes, RequestTypes DEF Authorize, TypeOK, Steps
  <2>2. CASE PasswordMiss(r)
    BY <1>0, <2>2, EndTypes, CountTypes DEF PasswordMiss, TypeOK
  <2>3. CASE FirstFactorPass(r)
    BY <1>0, <2>3, EndTypes, CountTypes DEF FirstFactorPass, TypeOK
  <2>4. CASE PasswordPass(r)
    BY <1>0, <2>4, EndTypes, RequestTypes, CountTypes DEF PasswordPass, Continue, TypeOK, Steps
  <2>5. CASE RecountMiss(r)
    BY <1>0, <2>5, RequestTypes DEF RecountMiss, TypeOK, Steps
  <2>6. CASE SecondFactorMiss(r)
    BY <1>0, <2>6, EndTypes, CountTypes DEF SecondFactorMiss, TypeOK
  <2>7. CASE SpendCode(r)
    <3>1. copy[r] \in Rows /\ user \in Rows BY DEF TypeOK
    <3>2. user' \in Rows BY <2>7, <3>1, RowTypes DEF SpendCode, Rows
    <3>3. raced' \in BOOLEAN BY <2>7, Zenon DEF SpendCode, ActOnCopy, TypeOK
    <3>4. pc' \in [Requests -> Steps] /\ copy' \in [Requests -> Rows]
      BY <2>7, RequestTypes DEF SpendCode, Continue, Steps
    <3>5. valid' \subseteq Codes /\ streak' \in Nat BY <2>7 DEF SpendCode, TypeOK
    <3> QED BY <1>0, <2>7, <3>2, <3>3, <3>4, <3>5 DEF SpendCode, Continue, TypeOK
  <2>8. CASE SecondFactorPass(r)
    <3>1. pc' \in [Requests -> Steps] /\ copy' \in [Requests -> Rows]
      BY <2>8, RequestTypes DEF SecondFactorPass, Steps
    <3>2. proved' \in [Requests -> BOOLEAN] BY <2>8 DEF SecondFactorPass, TypeOK
    <3> QED BY <1>0, <2>8, <3>1, <3>2, CountTypes DEF SecondFactorPass, TypeOK
  <2>9. CASE RedeemNonce(r)
    BY <1>0, <2>9, EndTypes, RequestTypes DEF RedeemNonce, Continue, TypeOK, Steps
  <2>10. CASE AuditLogin(r)
    BY <1>0, <2>10, RequestTypes DEF AuditLogin, TypeOK, Steps
  <2>11. CASE CreateSession(r)
    BY <1>0, <2>11, FinishTypes DEF CreateSession, TypeOK
  <2>12. ASSUME EnrolmentStep(r)
         PROVE  /\ user' \in Rows
                /\ raced' \in BOOLEAN
                /\ secrets' \in 0..MaxSecrets
                /\ sets' \in 0..MaxSets
                /\ valid' \subseteq Codes
                /\ confirmed' \subseteq 1..MaxSecrets
                /\ End(r)
                /\ UNCHANGED <<pending, misses, streak>>
    <3>1. user \in Rows /\ copy[r] \in Rows BY DEF TypeOK
    <3>2. \E step \in Steps : \E row : Write(r, step, row)
      BY <2>12 DEF EnrolmentStep, WriteSecret, WriteEnabled, WriteCodes, WriteDisabled, Steps
    <3>3. raced' \in BOOLEAN BY <3>2, Zenon DEF Write, ActOnCopy, TypeOK
    <3>4. CASE WriteSecret(r)
      BY <3>1, <3>3, <3>4 DEF WriteSecret, Write, TypeOK, Rows
    <3>5. CASE WriteEnabled(r)
      <4> DEFINE new == [user EXCEPT !.enabled = TRUE, !.codes = CodesOf(sets')]
      <4>1. sets' \in 1..MaxSets /\ CodesOf(sets') \in SUBSET Codes
        BY <3>5, CodeTypes DEF WriteEnabled, NewCodes, TypeOK
      <4>2. new \in Rows BY <3>1, <4>1 DEF Rows
      <4>3. user' = new /\ End(r) /\ UNCHANGED <<pending, misses, streak>>
        BY <3>5 DEF WriteEnabled, Write
      <4>4. confirmed' \subseteq 1..MaxSecrets BY <3>1, <3>5 DEF WriteEnabled, Rows, TypeOK
      <4>5. secrets' \in 0..MaxSecrets /\ valid' \subseteq Codes
        BY <3>5, <4>1 DEF WriteEnabled, NewCodes, TypeOK
      <4> QED BY <3>3, <4>1, <4>2, <4>3, <4>4, <4>5
    <3>6. CASE WriteCodes(r)
      BY <3>1, <3>3, <3>6, CodeTypes DEF WriteCodes, NewCodes, Write, TypeOK, Rows
    <3>7. CASE WriteDisabled(r)
      BY <3>1, <3>3, <3>7, RowTypes DEF WriteDisabled, Write, TypeOK
    <3> QED BY <2>12, <3>4, <3>5, <3>6, <3>7 DEF EnrolmentStep
  <2>13. CASE EnrolmentStep(r)
    BY <1>0, <2>12, <2>13, EndTypes DEF TypeOK
  <2> QED BY <1>1, <2>1, <2>2, <2>3, <2>4, <2>5, <2>6, <2>7, <2>8, <2>9, <2>10, <2>11, <2>13
          DEF RequestStep, LoginStep
<1>2. ASSUME NEW r \in Requests, Abort(r) PROVE TypeOK'
  BY <1>0, <1>2, LeaveTypes DEF Abort, TypeOK
<1>3. ASSUME NEW r \in Logins, SignIn(r) PROVE TypeOK'
  <2> r \in Requests BY DEF Requests
  <2>1. ASSUME NEW b \in Browsers, NEW correct \in BOOLEAN,
               LoginAction(r, b, correct) \/ SignInDirectly(r, b, correct)
        PROVE TypeOK'
    <3>1. pc' \in [Requests -> Steps] /\ copy' \in [Requests -> Rows]
      BY <2>1, RequestTypes DEF LoginAction, SignInDirectly, Steps
    <3>2. Submit(r, correct, NoCode, {b}) /\ {b} \in SUBSET Browsers
      BY <2>1 DEF LoginAction, SignInDirectly
    <3>3. /\ right' \in [Requests -> BOOLEAN]
          /\ code' \in [Requests -> Codes \cup {NoCode}]
          /\ by' \in [Requests -> SUBSET Browsers]
      BY <3>2, SubmitTypes
    <3> QED BY <1>0, <2>1, <3>1, <3>3 DEF LoginAction, SignInDirectly, TypeOK
  <2>2. ASSUME NEW b \in Browsers, NEW secret \in {0, user.secret}, VerifyTotpLogin(r, b, secret)
        PROVE TypeOK'
    <3>1. pc' \in [Requests -> Steps] /\ copy' \in [Requests -> Rows]
      BY <2>2, RequestTypes DEF VerifyTotpLogin, Steps
    <3>2. Submit(r, FALSE, NoCode, {b}) /\ FALSE \in BOOLEAN /\ {b} \in SUBSET Browsers
      BY <2>2 DEF VerifyTotpLogin
    <3>3. /\ right' \in [Requests -> BOOLEAN]
          /\ code' \in [Requests -> Codes \cup {NoCode}]
          /\ by' \in [Requests -> SUBSET Browsers]
      BY <3>2, SubmitTypes
    <3> QED BY <1>0, <2>2, <3>1, <3>3 DEF VerifyTotpLogin, TypeOK
  <2>3. ASSUME NEW b \in Browsers, NEW c \in user.codes \cup {NoCode}, UseBackupCode(r, b, c)
        PROVE TypeOK'
    <3>1. pc' \in [Requests -> Steps] /\ copy' \in [Requests -> Rows]
      BY <2>3, RequestTypes DEF UseBackupCode, Steps
    <3>2. Submit(r, FALSE, c, {b}) /\ FALSE \in BOOLEAN /\ {b} \in SUBSET Browsers
      BY <2>3 DEF UseBackupCode
    <3>3. c \in Codes \cup {NoCode} BY DEF TypeOK, Rows
    <3>4. /\ right' \in [Requests -> BOOLEAN]
          /\ code' \in [Requests -> Codes \cup {NoCode}]
          /\ by' \in [Requests -> SUBSET Browsers]
      BY <3>2, <3>3, SubmitTypes
    <3> QED BY <1>0, <2>3, <3>1, <3>4 DEF UseBackupCode, TypeOK
  <2> QED BY <1>3, <2>1, <2>2, <2>3 DEF SignIn
<1>4. ASSUME NEW r \in Settings, ChangeSettings(r) PROVE TypeOK'
  <2> r \in Requests BY DEF Requests
  <2>1. PICK step \in Steps : Begin(r, step)
    BY <1>4 DEF ChangeSettings, SetupTotp, VerifyTotpSetup, DisableTotp, RegenerateBackupCodes, Steps
  <2> QED BY <1>0, <2>1, RequestTypes DEF Begin, TypeOK
<1>5. CASE ResetUserTotp
  BY <1>0, <1>5, RowTypes DEF ResetUserTotp, TypeOK
<1>6. CASE ResetPassword
  BY <1>0, <1>6, RowTypes DEF ResetPassword, TypeOK
<1>7. CASE LockExpires
  BY <1>0, <1>7 DEF LockExpires, TypeOK, Rows, Locks
<1>8. ASSUME NEW b \in Browsers, PendingExpires(b) PROVE TypeOK'
  BY <1>0, <1>8 DEF PendingExpires, TypeOK
<1> QED BY <1>1, <1>2, <1>3, <1>4, <1>5, <1>6, <1>7, <1>8 DEF Next, Step
-----------------------------------------------------------------------------
(* What a request knows *)

\* The other requests keep their place when one of them moves.
LEMMA OthersWait ==
  ASSUME TypeOK, NEW r \in Requests, NEW q \in Requests, q # r,
         \/ RequestStep(r)
         \/ Abort(r)
         \/ SignIn(r)
         \/ ChangeSettings(r)
  PROVE  UNCHANGED <<pc[q], copy[q], entries[q], proved[q]>>
<1> USE DEF TypeOK, Read, Goto, Continue, Leave, Finish, End, requestVars, loginVars
<1>1. CASE RequestStep(r)
  <2>1. CASE LoginStep(r)
    BY <2>1 DEF LoginStep, Authorize, PasswordMiss, FirstFactorPass, PasswordPass, RecountMiss,
                SecondFactorMiss, SpendCode, SecondFactorPass, RedeemNonce, AuditLogin, CreateSession
  <2>2. CASE EnrolmentStep(r)
    BY <2>2 DEF EnrolmentStep, WriteSecret, WriteEnabled, WriteCodes, WriteDisabled, Write
  <2> QED BY <1>1, <2>1, <2>2 DEF RequestStep
<1>2. CASE Abort(r) BY <1>2 DEF Abort
<1>3. CASE SignIn(r)
  BY <1>3 DEF SignIn, LoginAction, SignInDirectly, VerifyTotpLogin, UseBackupCode
<1>4. CASE ChangeSettings(r)
  BY <1>4 DEF ChangeSettings, SetupTotp, VerifyTotpSetup, DisableTotp, RegenerateBackupCodes, Begin
<1> QED BY <1>1, <1>2, <1>3, <1>4

LEMMA KnowsStep ==
  ASSUME TypeOK, TypeOK', RequestInv, Next
  PROVE  RequestInv'
<1>0. \A q \in Requests : shut'[q] = (user'.enabled /\ (pc'[q] = "idle" \/ shut[q]))
  BY DEF Next, KeepShut
<1>1. ASSUME NEW q \in Requests, UNCHANGED <<pc[q], copy[q], entries[q], proved[q]>>
      PROVE  Knows(q)'
  <2>1. Knows(q) BY DEF RequestInv
  <2> QED BY <1>0, <1>1, <2>1 DEF Knows, Locked
<1>2. ASSUME NEW r \in Requests, RequestStep(r) \/ Abort(r) \/ SignIn(r) \/ ChangeSettings(r),
             Knows(r)'
      PROVE  RequestInv'
  BY <1>1, <1>2, OthersWait DEF RequestInv
<1> USE DEF Knows, TypeOK, At, Read, Goto, Continue, Submit, Leave, Finish, End, loginVars, Locked
<1>3. ASSUME NEW r \in Requests, RequestStep(r) PROVE Knows(r)'
  <2>0. Knows(r) BY DEF RequestInv
  <2>1. CASE Authorize(r) BY <1>0, <2>0, <2>1 DEF Authorize
  <2>2. CASE PasswordMiss(r) BY <1>0, <2>0, <2>2 DEF PasswordMiss
  <2>3. CASE FirstFactorPass(r) BY <1>0, <2>0, <2>3 DEF FirstFactorPass
  <2>4. CASE PasswordPass(r) BY <1>0, <2>0, <2>4 DEF PasswordPass
  <2>5. CASE RecountMiss(r) BY <1>0, <2>0, <2>5 DEF RecountMiss
  <2>6. CASE SecondFactorMiss(r) BY <1>0, <2>0, <2>6 DEF SecondFactorMiss
  <2>7. CASE SpendCode(r) BY <1>0, <2>0, <2>7 DEF SpendCode
  <2>8. CASE SecondFactorPass(r) BY <1>0, <2>0, <2>8 DEF SecondFactorPass
  <2>9. CASE RedeemNonce(r) BY <1>0, <2>0, <2>9 DEF RedeemNonce
  <2>10. CASE AuditLogin(r) BY <1>0, <2>0, <2>10 DEF AuditLogin
  <2>11. CASE CreateSession(r) BY <1>0, <2>0, <2>11 DEF CreateSession
  <2>12. CASE EnrolmentStep(r)
    <3>1. End(r)
      BY <2>12 DEF EnrolmentStep, WriteSecret, WriteEnabled, WriteCodes, WriteDisabled, Write
    <3> QED BY <1>0, <3>1
  <2> QED BY <1>3, <2>1, <2>2, <2>3, <2>4, <2>5, <2>6, <2>7, <2>8, <2>9, <2>10, <2>11, <2>12
          DEF RequestStep, LoginStep
<1>4. ASSUME NEW r \in Requests, Abort(r) PROVE Knows(r)'
  BY <1>0, <1>4 DEF Abort
<1>5. ASSUME NEW r \in Requests, SignIn(r) PROVE Knows(r)'
  <2>0. Knows(r) BY DEF RequestInv
  <2> QED BY <1>0, <1>5, <2>0 DEF SignIn, LoginAction, SignInDirectly, VerifyTotpLogin, UseBackupCode, Challenged
<1>6. ASSUME NEW r \in Requests, ChangeSettings(r) PROVE Knows(r)'
  <2>0. Knows(r) BY DEF RequestInv
  <2> QED BY <1>0, <1>6, <2>0 DEF ChangeSettings, SetupTotp, VerifyTotpSetup, DisableTotp,
                                  RegenerateBackupCodes, Begin, HasCode
<1>7. ASSUME ResetUserTotp \/ ResetPassword \/ LockExpires \/ \E b \in Browsers : PendingExpires(b)
      PROVE  RequestInv'
  <2>1. UNCHANGED <<pc, copy, entries, proved>>
    BY <1>7 DEF ResetUserTotp, ResetPassword, LockExpires, PendingExpires, requestVars
  <2> QED BY <1>1, <2>1 DEF RequestInv
<1> QED BY <1>2, <1>3, <1>4, <1>5, <1>6, <1>7 DEF Next, Step, Requests

-----------------------------------------------------------------------------
(* Sessions *)

LEMMA SessionStep ==
  ASSUME TypeOK, TypeOK', RequestInv, RequestInv', SecondFactorRequired, LoginsAudited, Next
  PROVE  SecondFactorRequired' /\ LoginsAudited'
<1>0. \A q \in Requests : shut'[q] = (user'.enabled /\ (pc'[q] = "idle" \/ shut[q]))
  BY DEF Next, KeepShut
<1> DEFINE Proven(q) == pc[q] \in {"audit", "session"} => proved[q] \/ ~shut[q]
<1>1. ASSUME NEW q \in Requests, UNCHANGED <<pc[q], copy[q], entries[q], proved[q]>>
      PROVE  Proven(q)'
  BY <1>0, <1>1 DEF SecondFactorRequired
<1>2. ASSUME NEW r \in Requests, RequestStep(r) \/ Abort(r) \/ SignIn(r) \/ ChangeSettings(r),
             Proven(r)', LoginsAudited'
      PROVE  SecondFactorRequired' /\ LoginsAudited'
  <2>1. \A q \in Requests : Proven(q)'
    BY <1>1, <1>2, OthersWait
  <2> QED BY <1>2, <2>1 DEF SecondFactorRequired
<1> USE DEF TypeOK, At, Read, Goto, Continue, Leave, Finish, End, loginVars, LoginsAudited
<1>3. ASSUME NEW r \in Requests, RequestStep(r) PROVE Proven(r)' /\ LoginsAudited'
  <2>0. Knows(r) /\ Proven(r) BY DEF RequestInv, SecondFactorRequired
  <2> USE DEF Knows
  <2>1. CASE Authorize(r) BY <1>0, <2>0, <2>1 DEF Authorize
  <2>2. CASE PasswordMiss(r) BY <1>0, <2>0, <2>2 DEF PasswordMiss
  <2>3. CASE FirstFactorPass(r) BY <1>0, <2>0, <2>3 DEF FirstFactorPass
  <2>4. CASE PasswordPass(r) BY <1>0, <2>0, <2>4 DEF PasswordPass
  <2>5. CASE RecountMiss(r) BY <1>0, <2>0, <2>5 DEF RecountMiss
  <2>6. CASE SecondFactorMiss(r) BY <1>0, <2>0, <2>6 DEF SecondFactorMiss
  <2>7. CASE SpendCode(r) BY <1>0, <2>0, <2>7 DEF SpendCode
  <2>8. CASE SecondFactorPass(r) BY <1>0, <2>0, <2>8 DEF SecondFactorPass
  <2>9. CASE RedeemNonce(r) BY <1>0, <2>0, <2>9 DEF RedeemNonce
  <2>10. CASE AuditLogin(r) BY <1>0, <2>0, <2>10 DEF AuditLogin
  <2>11. CASE CreateSession(r) BY <1>0, <2>0, <2>11 DEF CreateSession
  <2>12. CASE EnrolmentStep(r)
    <3>1. End(r) /\ pc[r] # "session"
      BY <2>12 DEF EnrolmentStep, WriteSecret, WriteEnabled, WriteCodes, WriteDisabled, Write
    <3> QED BY <1>0, <2>0, <3>1
  <2> QED BY <1>3, <2>1, <2>2, <2>3, <2>4, <2>5, <2>6, <2>7, <2>8, <2>9, <2>10, <2>11, <2>12
          DEF RequestStep, LoginStep
<1>4. ASSUME NEW r \in Requests, Abort(r) PROVE Proven(r)' /\ LoginsAudited'
  BY <1>0, <1>4 DEF Abort
<1>5. ASSUME NEW r \in Requests, SignIn(r) PROVE Proven(r)' /\ LoginsAudited'
  BY <1>0, <1>5 DEF SignIn, LoginAction, SignInDirectly, VerifyTotpLogin, UseBackupCode, Challenged
<1>6. ASSUME NEW r \in Requests, ChangeSettings(r) PROVE Proven(r)' /\ LoginsAudited'
  BY <1>0, <1>6 DEF ChangeSettings, SetupTotp, VerifyTotpSetup, DisableTotp, RegenerateBackupCodes, Begin
<1>7. ASSUME ResetUserTotp \/ ResetPassword \/ LockExpires \/ \E b \in Browsers : PendingExpires(b)
      PROVE  SecondFactorRequired' /\ LoginsAudited'
  <2>1. UNCHANGED <<pc, copy, loginVars>>
    BY <1>7 DEF ResetUserTotp, ResetPassword, LockExpires, PendingExpires, requestVars
  <2> QED BY <1>1, <2>1 DEF SecondFactorRequired
<1> QED BY <1>2, <1>3, <1>4, <1>5, <1>6, <1>7 DEF Next, Step, Requests

-----------------------------------------------------------------------------
(* Failures and the lock *)

\* What a step may do to counter and lock: count one failure from a copy, clear
\* after a right factor, clear for a new password, let the lock run out, or none.
LEMMA LockSteps ==
  ASSUME TypeOK, Next
  PROVE  \/ \E r \in Requests : CountMiss(r) /\ pc[r] \in {"compare", "password", "miss"}
         \/ \E r \in Requests : ClearMisses(r) /\ pc[r] \in {"compare", "password", "clear"}
         \/ \E r \in Requests : SpendCode(r)
         \/ ResetPassword
         \/ LockExpires
         \/ /\ user'.failed = user.failed
            /\ user'.lock = user.lock
            /\ misses' = misses
            /\ streak' = streak
            /\ raced => raced'
<1> USE DEF TypeOK, Rows, historyVars, At
<1>1. ASSUME NEW r \in Requests, LoginStep(r)
      PROVE  \/ CountMiss(r) /\ pc[r] \in {"compare", "password", "miss"}
             \/ ClearMisses(r) /\ pc[r] \in {"compare", "password", "clear"}
             \/ SpendCode(r)
             \/ UNCHANGED <<user, misses, streak, raced>>
  BY <1>1 DEF LoginStep, Authorize, PasswordMiss, FirstFactorPass, PasswordPass, RecountMiss,
              SecondFactorMiss, SecondFactorPass, RedeemNonce, AuditLogin, CreateSession
<1>2. ASSUME NEW r \in Requests, EnrolmentStep(r)
      PROVE  /\ user'.failed = user.failed
             /\ user'.lock = user.lock
             /\ misses' = misses
             /\ streak' = streak
             /\ raced => raced'
  <2>1. CASE WriteSecret(r) BY <2>1 DEF WriteSecret, Write, ActOnCopy
  <2>2. CASE WriteEnabled(r)
    <3>1. user' = [user EXCEPT !.enabled = TRUE, !.codes = CodesOf(sets')]
      BY <2>2 DEF WriteEnabled, Write
    <3>2. user'.failed = user.failed /\ user'.lock = user.lock BY <3>1
    <3> QED BY <2>2, <3>2 DEF WriteEnabled, Write, ActOnCopy
  <2>3. CASE WriteCodes(r) BY <2>3 DEF WriteCodes, Write, ActOnCopy
  <2>4. CASE WriteDisabled(r)
    <3>1. user' = Off(user) BY <2>4 DEF WriteDisabled, Write
    <3>2. user'.failed = user.failed /\ user'.lock = user.lock BY <3>1 DEF Off
    <3> QED BY <2>4, <3>2 DEF WriteDisabled, Write, ActOnCopy
  <2> QED BY <1>2, <2>1, <2>2, <2>3, <2>4 DEF EnrolmentStep
<1>3. ASSUME NEW r \in Requests, Abort(r) \/ SignIn(r) \/ ChangeSettings(r)
      PROVE  UNCHANGED <<user, misses, streak, raced>>
  BY <1>3 DEF Abort, SignIn, LoginAction, SignInDirectly, VerifyTotpLogin, UseBackupCode,
              ChangeSettings, SetupTotp, VerifyTotpSetup, DisableTotp, RegenerateBackupCodes, Begin
<1>4. CASE ResetUserTotp
  BY <1>4 DEF ResetUserTotp, Off
<1>5. ASSUME NEW b \in Browsers, PendingExpires(b)
      PROVE  UNCHANGED <<user, misses, streak, raced>>
  BY <1>5 DEF PendingExpires
<1> QED BY <1>1, <1>2, <1>3, <1>4, <1>5 DEF Next, Step, RequestStep, Requests

\* The copies after a step are old copies, the row, or blank.
LEMMA CopySteps ==
  ASSUME TypeOK, Next, NEW q \in Requests
  PROVE  copy'[q] \in {copy[q], user, NewRow}
<1> USE DEF TypeOK, Read, Goto, Continue, Leave, Finish, End, requestVars, loginVars
<1>1. ASSUME NEW r \in Requests, LoginStep(r) PROVE copy'[q] \in {copy[q], user, NewRow}
  BY <1>1 DEF LoginStep, Authorize, PasswordMiss, FirstFactorPass, PasswordPass, RecountMiss,
              SecondFactorMiss, SpendCode, SecondFactorPass, RedeemNonce, AuditLogin, CreateSession
<1>2. ASSUME NEW r \in Requests, EnrolmentStep(r) PROVE copy'[q] \in {copy[q], user, NewRow}
  BY <1>2 DEF EnrolmentStep, WriteSecret, WriteEnabled, WriteCodes, WriteDisabled, Write
<1>3. ASSUME NEW r \in Requests, Abort(r) \/ SignIn(r) \/ ChangeSettings(r)
      PROVE  copy'[q] \in {copy[q], user, NewRow}
  BY <1>3 DEF Abort, SignIn, LoginAction, SignInDirectly, VerifyTotpLogin, UseBackupCode,
              ChangeSettings, SetupTotp, VerifyTotpSetup, DisableTotp, RegenerateBackupCodes, Begin
<1>4. ASSUME ResetUserTotp \/ ResetPassword \/ LockExpires \/ \E b \in Browsers : PendingExpires(b)
      PROVE  copy'[q] \in {copy[q], user, NewRow}
  BY <1>4 DEF ResetUserTotp, ResetPassword, LockExpires, PendingExpires
<1> QED BY <1>1, <1>2, <1>3, <1>4 DEF Next, Step, RequestStep, Requests

\* The counter and the lock after a failure, a right factor, a spent code.
LEMMA CountedLock ==
  ASSUME TypeOK, NEW r \in Requests
  PROVE  /\ CountMiss(r) /\ LockoutEnabled =>
              /\ user'.failed = NextFailed(copy[r])
              /\ user'.lock = NextLock(copy[r])
              /\ misses' = misses + 1
              /\ ActOnCopy(r)
              /\ streak' = IF raced' THEN 0 ELSE streak + 1
         /\ CountMiss(r) /\ ~LockoutEnabled => UNCHANGED <<user, misses, streak, raced>>
         /\ ClearMisses(r) \/ SpendCode(r) =>
              /\ LockoutEnabled /\ HasFailures(copy[r]) => user'.failed = 0 /\ user'.lock = "none"
              /\ ~(LockoutEnabled /\ HasFailures(copy[r])) =>
                   user'.failed = user.failed /\ user'.lock = user.lock
              /\ misses' = misses
              /\ streak' = 0
              /\ ActOnCopy(r)
<1>1. user \in Rows /\ Pass(user, copy[r]) \in Rows BY RowTypes DEF TypeOK
<1>2. CountMiss(r) /\ LockoutEnabled => user'.failed = NextFailed(copy[r]) /\ user'.lock = NextLock(copy[r])
  BY <1>1 DEF CountMiss, Rows
<1>3. LockoutEnabled /\ HasFailures(copy[r]) =>
        Pass(user, copy[r]).failed = 0 /\ Pass(user, copy[r]).lock = "none"
  BY <1>1 DEF Pass, Cleared, Rows
<1>4. ~(LockoutEnabled /\ HasFailures(copy[r])) => Pass(user, copy[r]) = user
  BY DEF Pass
<1>5. SpendCode(r) => user'.failed = Pass(user, copy[r]).failed /\ user'.lock = Pass(user, copy[r]).lock
  <2> DEFINE passed == Pass(user, copy[r])
             rest == copy[r].codes \ {code[r]}
  <2>1. SpendCode(r) => user' = [passed EXCEPT !.codes = rest] BY DEF SpendCode
  <2>2. passed \in Rows BY <1>1
  <2> HIDE DEF passed, rest
  <2>3. SpendCode(r) => user'.failed = passed.failed /\ user'.lock = passed.lock
    BY <2>1, <2>2 DEF Rows
  <2> QED BY <2>3 DEF passed
<1>6. ClearMisses(r) => user' = Pass(user, copy[r]) BY DEF ClearMisses
<1>7. ClearMisses(r) \/ SpendCode(r) => misses' = misses /\ streak' = 0 /\ ActOnCopy(r)
  BY DEF ClearMisses, SpendCode
<1>8. CountMiss(r) /\ LockoutEnabled =>
        misses' = misses + 1 /\ ActOnCopy(r) /\ streak' = IF raced' THEN 0 ELSE streak + 1
  BY DEF CountMiss
<1>9. CountMiss(r) /\ ~LockoutEnabled => UNCHANGED <<user, misses, streak, raced>>
  BY DEF CountMiss
<1> QED BY <1>2, <1>3, <1>4, <1>5, <1>6, <1>7, <1>8, <1>9

LEMMA CountStep ==
  ASSUME TypeOK, TypeOK', CountInv, LockEarned, Next
  PROVE  CountInv' /\ LockEarned'
<1>0. user \in Rows /\ user' \in Rows /\ misses \in Nat /\ misses' \in Nat
      /\ \A r \in Requests : copy[r] \in Rows
  BY DEF TypeOK
<1>1. misses' >= misses /\ Counted(user)' /\ LockEarned'
  <2> USE <1>0 DEF CountInv, Counted, LockEarned, Rows, Locks
  <2>1. ASSUME NEW r \in Requests, CountMiss(r)
        PROVE  misses' >= misses /\ Counted(user)' /\ LockEarned'
    BY <2>1, CountedLock DEF NextFailed, NextLock
  <2>2. ASSUME NEW r \in Requests, ClearMisses(r) \/ SpendCode(r)
        PROVE  misses' >= misses /\ Counted(user)' /\ LockEarned'
    BY <2>2, CountedLock
  <2>3. CASE ResetPassword
    BY <2>3 DEF ResetPassword, Cleared
  <2>4. CASE LockExpires
    BY <2>4 DEF LockExpires
  <2>5. CASE user'.failed = user.failed /\ user'.lock = user.lock /\ misses' = misses
    BY <2>5
  <2> QED BY <2>1, <2>2, <2>3, <2>4, <2>5, LockSteps
<1>2. ASSUME NEW q \in Requests PROVE Counted(copy[q])'
  <2>1. copy'[q] \in {copy[q], user, NewRow} BY CopySteps
  <2> QED BY <1>0, <1>1, <2>1 DEF CountInv, Counted, NewRow, Rows
<1> QED BY <1>1, <1>2 DEF CountInv

\* A request that acts without a race holds the row, but for its own spending.
LEMMA OwnCopy ==
  ASSUME TypeOK, NEW r \in Requests, ActOnCopy(r), ~raced'
  PROVE  /\ ~raced
         /\ pc[r] # "clear" => user = copy[r]
         /\ ~HasFailures(copy[r]) => ~HasFailures(user)
<1>1. ~raced /\ (pc[r] # "clear" => user = copy[r]) BY DEF ActOnCopy
<1>2. CASE pc[r] = "clear" /\ code[r] # NoCode
  <2> DEFINE passed == Pass(copy[r], copy[r])
             own == [passed EXCEPT !.codes = @ \ {code[r]}]
  <2>1. user = own BY <1>2 DEF ActOnCopy
  <2>2. passed \in Rows /\ copy[r] \in Rows BY RowTypes DEF TypeOK
  <2>3. user.failed = passed.failed /\ user.lock = passed.lock
    <3> HIDE DEF passed
    <3> QED BY <2>1, <2>2 DEF Rows
  <2>4. ~(LockoutEnabled /\ HasFailures(copy[r])) => passed = copy[r] BY DEF Pass
  <2> HIDE DEF passed, own
  <2> QED BY <1>1, <1>2, <2>3, <2>4 DEF HasFailures
<1>3. CASE pc[r] = "clear" /\ code[r] = NoCode
  <2>1. user = copy[r] BY <1>3 DEF ActOnCopy
  <2> QED BY <1>1, <1>3, <2>1
<1> QED BY <1>1, <1>2, <1>3

LEMMA StreakStep ==
  ASSUME TypeOK, TypeOK', CountInv, RequestInv, StreakInv, Next
  PROVE  StreakInv'
<1> SUFFICES ASSUME ~raced', LockoutEnabled
             PROVE  /\ user'.lock = "expired" => streak' = 0
                    /\ user'.lock # "expired" => user'.failed = streak'
                    /\ user'.lock = "none" => streak' < MaxFailed
  BY DEF StreakInv
<1>0. user \in Rows /\ user' \in Rows /\ streak \in Nat /\ \A r \in Requests : copy[r] \in Rows
  BY DEF TypeOK
<1> USE <1>0 DEF Rows, Locks
<1>1. ASSUME NEW r \in Requests, CountMiss(r), pc[r] \in {"compare", "password", "miss"}
      PROVE  StreakInv'
  <2>1. ~raced /\ user = copy[r] BY <1>1, CountedLock, OwnCopy
  <2>2. NextFailed(user) = IF user.lock = "expired" THEN 1 ELSE user.failed + 1
    BY DEF NextFailed
  <2>3. streak + 1 = NextFailed(user) BY <2>1, <2>2 DEF StreakInv
  <2>4. /\ user'.failed = NextFailed(user)
        /\ user'.lock = NextLock(user)
        /\ streak' = streak + 1
    BY <1>1, <2>1, CountedLock
  <2> QED BY <2>3, <2>4 DEF NextLock, StreakInv
<1>2. ASSUME NEW r \in Requests, ClearMisses(r) \/ SpendCode(r) PROVE StreakInv'
  <2>1. CASE HasFailures(copy[r])
    BY <1>2, <2>1, CountedLock DEF StreakInv
  <2>2. CASE ~HasFailures(copy[r])
    <3>1. ActOnCopy(r) BY <1>2, CountedLock
    <3>2. ~HasFailures(user) BY <2>2, <3>1, OwnCopy
    <3>3. user'.failed = user.failed /\ user'.lock = user.lock /\ streak' = 0
      BY <1>2, <2>2, CountedLock
    <3> QED BY <3>2, <3>3 DEF HasFailures, StreakInv
  <2> QED BY <2>1, <2>2
<1>3. ASSUME ResetPassword PROVE StreakInv'
  BY <1>3 DEF ResetPassword, Cleared, StreakInv
<1>4. ASSUME LockExpires PROVE StreakInv'
  BY <1>4 DEF LockExpires, StreakInv
<1>5. ASSUME /\ user'.failed = user.failed
             /\ user'.lock = user.lock
             /\ misses' = misses
             /\ streak' = streak
             /\ raced => raced'
      PROVE  StreakInv'
  BY <1>5 DEF StreakInv
<1>6. StreakInv' BY Zenon, <1>1, <1>2, <1>3, <1>4, <1>5, LockSteps
<1> QED BY Zenon, <1>6 DEF StreakInv

-----------------------------------------------------------------------------
(* Secrets and backup codes *)

LEMMA EnrolledStep ==
  ASSUME TypeOK, TypeOK', RequestInv, BackupCodesCurrent, EnrolmentConfirmed, Next
  PROVE  BackupCodesCurrent' /\ EnrolmentConfirmed'
<1> SUFFICES ASSUME ~raced'
             PROVE  /\ user'.codes = valid'
                    /\ user'.enabled => user'.secret \in confirmed'
  BY DEF BackupCodesCurrent, EnrolmentConfirmed
<1> DEFINE Goal == user'.codes = valid' /\ (user'.enabled => user'.secret \in confirmed')
           Before == user.codes = valid /\ (user.enabled => user.secret \in confirmed)
           Same == /\ user'.codes = user.codes
                   /\ user'.enabled = user.enabled
                   /\ user'.secret = user.secret
                   /\ valid' = valid
                   /\ confirmed' = confirmed
                   /\ raced => raced'
<1>0. user \in Rows /\ user' \in Rows /\ \A r \in Requests : copy[r] \in Rows
  BY DEF TypeOK
<1>1. ~raced => Before BY DEF BackupCodesCurrent, EnrolmentConfirmed
<1>2. Same => Goal BY <1>1
<1>3. ASSUME NEW r \in Requests PROVE
        /\ Pass(user, copy[r]).codes = user.codes
        /\ Pass(user, copy[r]).enabled = user.enabled
        /\ Pass(user, copy[r]).secret = user.secret
  BY <1>0 DEF Pass, Cleared, Rows
<1>4. ASSUME NEW r \in Requests, CountMiss(r) PROVE Same
  <2>1. CASE LockoutEnabled
    <3> DEFINE n == NextFailed(copy[r])
               l == NextLock(copy[r])
    <3>1. user' = [user EXCEPT !.failed = n, !.lock = l] BY <1>4, <2>1 DEF CountMiss
    <3>2. valid' = valid /\ confirmed' = confirmed /\ (raced => raced')
      BY <1>4, <2>1 DEF CountMiss, ActOnCopy
    <3> HIDE DEF n, l
    <3>3. user'.codes = user.codes /\ user'.enabled = user.enabled /\ user'.secret = user.secret
      BY <1>0, <3>1 DEF Rows
    <3> QED BY <3>2, <3>3
  <2>2. CASE ~LockoutEnabled BY <1>4, <2>2 DEF CountMiss
  <2> QED BY <2>1, <2>2
<1>5. ASSUME NEW r \in Requests, ClearMisses(r) PROVE Same
  BY <1>3, <1>5 DEF ClearMisses, ActOnCopy
<1>6. ASSUME NEW r \in Requests, SpendCode(r) PROVE Goal
  <2> DEFINE passed == Pass(user, copy[r])
             rest == copy[r].codes \ {code[r]}
  <2>1. user' = [passed EXCEPT !.codes = rest] /\ valid' = valid \ {code[r]} /\ confirmed' = confirmed
    BY <1>6 DEF SpendCode
  <2>2. passed \in Rows BY <1>0, RowTypes
  <2>3. user = copy[r] /\ ~raced BY <1>6, OwnCopy DEF SpendCode, At
  <2>4. passed.enabled = user.enabled /\ passed.secret = user.secret BY <1>3
  <2> HIDE DEF passed
  <2>5. user'.codes = rest /\ user'.enabled = passed.enabled /\ user'.secret = passed.secret
    BY <2>1, <2>2 DEF Rows
  <2> QED BY <1>1, <2>1, <2>3, <2>4, <2>5
<1>7. ASSUME NEW r \in Requests, LoginStep(r) PROVE Goal
  <2>1. \/ CountMiss(r)
        \/ ClearMisses(r)
        \/ SpendCode(r)
        \/ UNCHANGED <<user, raced, historyVars>>
    BY <1>7 DEF LoginStep, Authorize, PasswordMiss, FirstFactorPass, PasswordPass, RecountMiss,
                SecondFactorMiss, SecondFactorPass, RedeemNonce, AuditLogin, CreateSession
  <2> QED BY <1>2, <1>4, <1>5, <1>6, <2>1 DEF historyVars
<1>8. ASSUME NEW r \in Requests, EnrolmentStep(r) PROVE Goal
  <2>0. Knows(r) BY DEF RequestInv
  <2>1. CASE WriteSecret(r)
    <3>1. pc[r] = "setup" /\ ActOnCopy(r) /\ user' = [user EXCEPT !.secret = secrets']
          /\ valid' = valid /\ confirmed' = confirmed
      BY <2>1 DEF WriteSecret, Write, At
    <3>2. user = copy[r] /\ ~raced BY <3>1, OwnCopy
    <3>3. ~user.enabled BY <2>0, <3>1, <3>2 DEF Knows
    <3>4. user'.codes = user.codes /\ user'.enabled = user.enabled BY <1>0, <3>1 DEF Rows
    <3> QED BY <1>1, <3>1, <3>2, <3>3, <3>4
  <2>2. CASE WriteEnabled(r)
    <3> DEFINE fresh == CodesOf(sets')
    <3>1. /\ pc[r] = "confirm" /\ ActOnCopy(r)
          /\ user' = [user EXCEPT !.enabled = TRUE, !.codes = fresh]
          /\ valid' = fresh
          /\ confirmed' = confirmed \cup ({copy[r].secret} \ {0})
      BY <2>2 DEF WriteEnabled, NewCodes, Write, At
    <3>2. user = copy[r] BY <3>1, OwnCopy
    <3>3. user.secret # 0 BY <2>0, <3>1, <3>2 DEF Knows
    <3> HIDE DEF fresh
    <3>4. user'.codes = fresh /\ user'.secret = user.secret BY <1>0, <3>1 DEF Rows
    <3> QED BY <3>1, <3>2, <3>3, <3>4
  <2>3. CASE WriteCodes(r)
    <3> DEFINE fresh == CodesOf(sets')
    <3>1. ActOnCopy(r) /\ user' = [user EXCEPT !.codes = fresh] /\ valid' = fresh /\ confirmed' = confirmed
      BY <2>3 DEF WriteCodes, NewCodes, Write, At
    <3>2. ~raced BY <3>1, OwnCopy
    <3> HIDE DEF fresh
    <3>3. /\ user'.codes = fresh
          /\ user'.enabled = user.enabled
          /\ user'.secret = user.secret
      BY <1>0, <3>1 DEF Rows
    <3> QED BY <1>1, <3>1, <3>2, <3>3
  <2>4. CASE WriteDisabled(r)
    <3>1. user' = Off(user) /\ valid' = {} BY <2>4 DEF WriteDisabled, Write
    <3>2. user'.codes = {} /\ ~user'.enabled BY <1>0, <3>1 DEF Off, Rows
    <3> QED BY <3>1, <3>2
  <2> QED BY <1>8, <2>1, <2>2, <2>3, <2>4 DEF EnrolmentStep
<1>9. ASSUME NEW r \in Requests, Abort(r) \/ SignIn(r) \/ ChangeSettings(r) PROVE Goal
  <2>1. UNCHANGED <<user, raced, historyVars>>
    BY <1>9 DEF Abort, SignIn, LoginAction, SignInDirectly, VerifyTotpLogin, UseBackupCode,
                ChangeSettings, SetupTotp, VerifyTotpSetup, DisableTotp, RegenerateBackupCodes, Begin
  <2> QED BY <1>2, <2>1 DEF historyVars
<1>10. CASE ResetUserTotp
  <2>1. user' = Off(user) /\ valid' = {} BY <1>10 DEF ResetUserTotp
  <2>2. user'.codes = {} /\ ~user'.enabled BY <1>0, <2>1 DEF Off, Rows
  <2> QED BY <2>1, <2>2
<1>11. CASE ResetPassword
  BY <1>0, <1>2, <1>11 DEF ResetPassword, Cleared, Rows
<1>12. CASE LockExpires
  BY <1>0, <1>2, <1>12 DEF LockExpires, Rows
<1>13. ASSUME NEW b \in Browsers, PendingExpires(b) PROVE Goal
  BY <1>2, <1>13 DEF PendingExpires, historyVars
<1> QED BY <1>7, <1>8, <1>9, <1>10, <1>11, <1>12, <1>13 DEF Next, Step, RequestStep, Requests
-----------------------------------------------------------------------------
(* The inductive invariant *)

LEMMA InitInv == Init => IInv
<1> SUFFICES ASSUME Init PROVE IInv OBVIOUS
<1> USE DEF Init
<1>1. NewRow \in Rows /\ (EnrolledRow \in Rows \/ MaxSecrets = 0 \/ MaxSets = 0)
  BY CodeTypes DEF EnrolledRow, NewRow, Rows, Locks
<1>2. TypeOK
  <2>1. user \in Rows /\ secrets \in 0..MaxSecrets /\ sets \in 0..MaxSets
    BY CodeTypes, <1>1
  <2>2. confirmed \subseteq 1..MaxSecrets
    BY DEF NewRow
  <2>3. user.enabled \in BOOLEAN /\ user.codes \subseteq Codes BY <2>1 DEF Rows
  <2> QED BY <2>1, <2>2, <2>3, CodeTypes DEF TypeOK, Steps
<1>3. RequestInv BY DEF RequestInv, Knows
<1>4. user.failed = 0 /\ user.lock = "none" BY DEF NewRow, EnrolledRow
<1>5. CountInv /\ StreakInv /\ LockEarned
  BY <1>4 DEF CountInv, Counted, StreakInv, LockEarned, NewRow
<1>6. user.enabled => user.secret \in confirmed BY DEF NewRow, EnrolledRow
<1>7. SecondFactorRequired /\ LoginsAudited /\ BackupCodesCurrent /\ EnrolmentConfirmed
  BY <1>6 DEF SecondFactorRequired, LoginsAudited, BackupCodesCurrent, EnrolmentConfirmed
<1> QED BY <1>2, <1>3, <1>5, <1>7 DEF IInv

LEMMA NextInv == IInv /\ [Next]_vars => IInv'
<1> SUFFICES ASSUME IInv, [Next]_vars PROVE IInv' OBVIOUS
<1>1. CASE Next
  <2>1. TypeOK' BY <1>1, TypeStep DEF IInv
  <2> QED BY <1>1, <2>1, KnowsStep, SessionStep, CountStep, StreakStep, EnrolledStep DEF IInv
<1>2. CASE UNCHANGED vars
  BY <1>2 DEF vars, requestVars, inputVars, historyVars, loginVars, IInv, TypeOK, RequestInv,
     Knows, Locked, CountInv, Counted, StreakInv, LockEarned, SecondFactorRequired, LoginsAudited,
     BackupCodesCurrent, EnrolmentConfirmed, At
<1> QED BY <1>1, <1>2

\* The inductive invariant holds.
THEOREM Inductive == Spec => []IInv
BY InitInv, NextInv, PTL DEF Spec

-----------------------------------------------------------------------------
(* Theorems *)

\* Every variable keeps its type: the counter is a number and never null.
THEOREM TypeCorrect == Spec => []TypeOK
<1>1. IInv => TypeOK BY DEF IInv
<1> QED BY <1>1, Inductive, PTL

\* Nobody is locked out by fewer failures than the limit.
THEOREM LockIsEarned == Spec => []LockEarned
<1>1. IInv => LockEarned BY DEF IInv
<1> QED BY <1>1, Inductive, PTL

\* The counter is the number of failures in a row and the lock its threshold.
THEOREM FailuresAreCounted == Spec => []FailuresCounted
<1>1. IInv => FailuresCounted
  <2> SUFFICES ASSUME IInv, ~raced, LockoutEnabled
               PROVE  /\ user.lock = "active" <=> streak >= MaxFailed
                      /\ user.lock = "none" => user.failed = streak
    BY DEF FailuresCounted
  <2>1. /\ user.lock = "expired" => streak = 0
        /\ user.lock # "expired" => user.failed = streak
        /\ user.lock = "none" => streak < MaxFailed
        /\ user.lock = "active" => user.failed >= MaxFailed
    BY Zenon DEF IInv, StreakInv, CountInv, Counted
  <2>2. user.lock \in Locks /\ streak \in Nat BY DEF IInv, TypeOK, Rows
  <2> QED BY <2>1, <2>2 DEF Locks
<1> QED BY <1>1, Inductive, PTL

\* With TOTP on throughout a request, no session comes of it without the code.
THEOREM SecondFactorIsRequired == Spec => []SecondFactorRequired
<1>1. IInv => SecondFactorRequired BY DEF IInv
<1> QED BY <1>1, Inductive, PTL

\* One auth.login row per session, on the password path and on the nonce path.
THEOREM LoginsAreAudited == Spec => []LoginsAudited
<1>1. IInv => LoginsAudited BY DEF IInv
<1> QED BY <1>1, Inductive, PTL

\* Requests that do not overlap leave the codes handed out last and unused.
THEOREM CodesAreCurrent == Spec => []BackupCodesCurrent
<1>1. IInv => BackupCodesCurrent BY DEF IInv
<1> QED BY <1>1, Inductive, PTL

\* Requests that do not overlap enable no secret without its code.
THEOREM EnrolmentIsConfirmed == Spec => []EnrolmentConfirmed
<1>1. IInv => EnrolmentConfirmed BY DEF IInv
<1> QED BY <1>1, Inductive, PTL

\* No step lifts an active lock early but a reset or a request that was late.
THEOREM LockIsHeld == Spec => LockHolds
<1> DEFINE Held == LockoutEnabled /\ user.lock = "active" /\ user'.lock = "none"
                   => raced' \/ ResetPassword
<1>1. IInv /\ [Next]_vars => Held
  <2> SUFFICES ASSUME IInv, Next, LockoutEnabled, user.lock = "active", user'.lock = "none",
                      ~raced', ~ResetPassword
               PROVE  FALSE
    BY DEF vars
  <2>1. TypeOK /\ RequestInv /\ CountInv BY DEF IInv
  <2>2. ASSUME NEW r \in Requests, CountMiss(r), pc[r] \in {"compare", "password", "miss"}
        PROVE  FALSE
    <3>1. user = copy[r] /\ user'.lock = NextLock(copy[r]) BY <2>1, <2>2, CountedLock, OwnCopy
    <3>2. user.failed >= MaxFailed /\ user.failed \in Nat
      BY <2>1 DEF CountInv, Counted, TypeOK, Rows
    <3> QED BY <3>1, <3>2 DEF NextLock, NextFailed
  <2>3. ASSUME NEW r \in Requests, ClearMisses(r), pc[r] \in {"compare", "password", "clear"}
        PROVE  FALSE
    <3>1. ActOnCopy(r) /\ ~Locked(copy[r]) BY <2>1, <2>3, CountedLock DEF RequestInv, Knows
    <3>2. HasFailures(copy[r]) \/ user'.lock = user.lock BY <2>1, <2>3, CountedLock
    <3>3. copy[r].lock # "active" BY <3>1 DEF Locked
    <3>4. CASE pc[r] = "clear" /\ code[r] # NoCode
      <4> DEFINE passed == Pass(copy[r], copy[r])
                 own == [passed EXCEPT !.codes = @ \ {code[r]}]
      <4>1. user = own BY <3>1, <3>4 DEF ActOnCopy
      <4>2. passed \in Rows /\ copy[r] \in Rows BY <2>1, RowTypes DEF TypeOK
      <4>3. passed.lock # "active" BY <3>3, <4>2 DEF Pass, Cleared, Rows
      <4>4. user.lock = passed.lock
        <5> HIDE DEF passed
        <5> QED BY <4>1, <4>2 DEF Rows
      <4> QED BY <4>3, <4>4
    <3>5. CASE ~(pc[r] = "clear" /\ code[r] # NoCode)
      BY <3>1, <3>3, <3>5 DEF ActOnCopy
    <3> QED BY <3>4, <3>5
  <2>4. ASSUME NEW r \in Requests, SpendCode(r) PROVE FALSE
    <3>1. ActOnCopy(r) /\ pc[r] = "spend" BY <2>4 DEF SpendCode, At
    <3>2. user = copy[r] /\ ~Locked(copy[r]) BY <2>1, <3>1, OwnCopy DEF RequestInv, Knows
    <3> QED BY <3>2 DEF Locked
  <2>5. CASE LockExpires
    <3>1. user'.lock = "expired" BY <2>1, <2>5 DEF LockExpires, TypeOK, Rows
    <3> QED BY <3>1
  <2> QED BY <2>1, <2>2, <2>3, <2>4, <2>5, LockSteps
<1>2. [][Held]_vars => LockHolds BY PTL DEF LockHolds
<1> QED BY <1>1, <1>2, Inductive, PTL DEF Spec
=============================================================================
