-------------------------------- MODULE Login --------------------------------
(***************************************************************************)
(* Signing in: loginAction and authorizeCredentials check the password,    *)
(* verifyTotpLogin and useBackupCode the second factor, and the lock keeps *)
(* count of both.                                                          *)
(***************************************************************************)
EXTENDS UserRow

counters == <<secrets, sets>>

\* loginAction reads the row. With TOTP on it compares the password itself,
\* else authorizeCredentials will.
LoginAction(r, b, correct) ==
  /\ At(r, "idle")
  /\ ~Locked(user)
  /\ ~correct => misses < MaxMisses
  /\ IF user.enabled THEN Read(r, "compare") ELSE Goto(r, "authorize")
  /\ Submit(r, correct, NoCode, {b})
  /\ UNCHANGED <<user, pending, counters, raced, historyVars, loginVars>>

\* The credentials callback calls authorizeCredentials directly.
SignInDirectly(r, b, correct) ==
  /\ At(r, "idle")
  /\ ~correct => misses < MaxMisses
  /\ Goto(r, "authorize")
  /\ Submit(r, correct, NoCode, {b})
  /\ UNCHANGED <<user, pending, counters, raced, historyVars, loginVars>>

\* authorizeCredentials reads the row again, or finds it locked meanwhile.
Authorize(r) ==
  /\ At(r, "authorize")
  /\ \/ Locked(user) /\ End(r)
     \/ ~Locked(user) /\ Read(r, "password") /\ UNCHANGED <<inputVars, loginVars>>
  /\ UNCHANGED <<user, pending, counters, raced, historyVars>>

\* A failure is written as the successor of the copy's counter.
CountMiss(r) ==
  /\ IF LockoutEnabled
     THEN /\ user' = [user EXCEPT !.failed = NextFailed(copy[r]), !.lock = NextLock(copy[r])]
          /\ ActOnCopy(r)
          /\ misses' = misses + 1
          /\ streak' = IF raced' THEN 0 ELSE streak + 1
     ELSE UNCHANGED <<user, raced, misses, streak>>
  /\ UNCHANGED <<valid, confirmed>>

\* A right factor clears the counter and the lock, if the copy has any.
ClearMisses(r) ==
  /\ user' = Pass(user, copy[r])
  /\ ActOnCopy(r)
  /\ streak' = 0
  /\ UNCHANGED <<misses, valid, confirmed>>

\* A wrong password, in loginAction or in authorizeCredentials.
PasswordMiss(r) ==
  /\ pc[r] \in {"compare", "password"}
  /\ ~right[r]
  /\ CountMiss(r)
  /\ End(r)
  /\ UNCHANGED <<pending, counters>>

\* loginAction: the password of a TOTP account is right, the challenge follows.
FirstFactorPass(r) ==
  /\ At(r, "compare")
  /\ right[r]
  /\ ClearMisses(r)
  /\ pending' = pending \cup by[r]
  /\ End(r)
  /\ UNCHANGED counters

\* A mistake: the password is enough.
WrongPasswordPass(r) ==
  /\ At(r, "password")
  /\ right[r]
  /\ ClearMisses(r)
  /\ Continue(r, "audit")
  /\ UNCHANGED <<pending, counters>>

\* authorizeCredentials: the password is right; it is not enough with TOTP on.
PasswordPass(r) ==
  /\ At(r, "password")
  /\ right[r]
  /\ ClearMisses(r)
  /\ IF copy[r].enabled THEN End(r) ELSE Continue(r, "audit")
  /\ UNCHANGED <<pending, counters>>

-----------------------------------------------------------------------------
(* The second factor *)

\* A mistake: the lock guards the password only.
WrongChallenged(r, b) ==
  /\ At(r, "idle")
  /\ b \in pending
  /\ user.enabled

\* What both challenges ask before they look at the code.
Challenged(r, b) ==
  /\ At(r, "idle")
  /\ b \in pending
  /\ user.enabled
  /\ ~Locked(user)

\* verifyTotpLogin reads the row and checks the code of an authenticator that
\* holds the given secret, 0 for any other code.
VerifyTotpLogin(r, b, secret) ==
  /\ Challenged(r, b)
  /\ user.secret # 0
  /\ secret # user.secret => misses < MaxMisses
  /\ IF secret = user.secret THEN Read(r, "clear") ELSE Goto(r, "recount")
  /\ Submit(r, FALSE, NoCode, {b})
  /\ UNCHANGED <<user, pending, counters, raced, historyVars, loginVars>>

\* useBackupCode reads the row and looks the code up among the copy's.
UseBackupCode(r, b, c) ==
  /\ Challenged(r, b)
  /\ user.codes # {}
  /\ c \notin user.codes => misses < MaxMisses
  /\ IF c \in user.codes THEN Read(r, "spend") ELSE Goto(r, "recount")
  /\ Submit(r, FALSE, c, {b})
  /\ UNCHANGED <<user, pending, counters, raced, historyVars, loginVars>>

\* recordSecondFactorFailure reads the row again before it counts.
RecountMiss(r) ==
  /\ At(r, "recount")
  /\ Read(r, "miss")
  /\ UNCHANGED <<user, pending, inputVars, counters, raced, historyVars, loginVars>>

SecondFactorMiss(r) ==
  /\ At(r, "miss")
  /\ CountMiss(r)
  /\ End(r)
  /\ UNCHANGED <<pending, counters>>

\* A mistake: the code stays.
WrongSpendCode(r) ==
  /\ At(r, "spend")
  /\ user' = Pass(user, copy[r])
  /\ ActOnCopy(r)
  /\ streak' = 0
  /\ valid' = valid \ {code[r]}
  /\ Continue(r, "clear")
  /\ UNCHANGED <<pending, counters, misses, confirmed>>

\* useBackupCode writes the copy's codes without the one used.
SpendCode(r) ==
  /\ At(r, "spend")
  /\ user' = [Pass(user, copy[r]) EXCEPT !.codes = copy[r].codes \ {code[r]}]
  /\ ActOnCopy(r)
  /\ streak' = 0
  /\ valid' = valid \ {code[r]}
  /\ Continue(r, "clear")
  /\ UNCHANGED <<pending, counters, misses, confirmed>>

\* Both challenges: clear the counter, drop the cookie, mint a nonce.
SecondFactorPass(r) ==
  /\ At(r, "clear")
  /\ ClearMisses(r)
  /\ pending' = pending \ by[r]
  /\ proved' = [proved EXCEPT ![r] = TRUE]
  /\ Goto(r, "nonce")
  /\ UNCHANGED <<inputVars, counters, entries, misfiled>>

\* authorizeCredentials takes the nonce, once, and reads the row again.
RedeemNonce(r) ==
  /\ At(r, "nonce")
  /\ IF user.enabled THEN Continue(r, "audit") ELSE End(r)
  /\ UNCHANGED <<user, pending, counters, raced, historyVars>>

-----------------------------------------------------------------------------
(* The session *)

\* A mistake: loginAction files the login too.
WrongAuditLogin(r) ==
  /\ At(r, "audit")
  /\ entries' = [entries EXCEPT ![r] = @ + 2]
  /\ Goto(r, "session")
  /\ UNCHANGED <<user, pending, inputVars, counters, raced, historyVars, proved, misfiled>>

\* authorizeCredentials asks for the auth.login row, then returns the user.
\* logAudit swallows its own failures.
AuditLogin(r) ==
  /\ At(r, "audit")
  /\ entries' = [entries EXCEPT ![r] = @ + 1]
  /\ Goto(r, "session")
  /\ UNCHANGED <<user, pending, inputVars, counters, raced, historyVars, proved, misfiled>>

CreateSession(r) ==
  /\ At(r, "session")
  /\ Finish(r, TRUE)
  /\ UNCHANGED <<user, pending, counters, raced, historyVars>>

LoginStep(r) ==
  \/ Authorize(r)
  \/ PasswordMiss(r)
  \/ FirstFactorPass(r)
  \/ PasswordPass(r)
  \/ RecountMiss(r)
  \/ SecondFactorMiss(r)
  \/ SpendCode(r)
  \/ SecondFactorPass(r)
  \/ RedeemNonce(r)
  \/ AuditLogin(r)
  \/ CreateSession(r)
=============================================================================
