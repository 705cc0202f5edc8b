---------------------------- MODULE TotpEnrolment ----------------------------
(***************************************************************************)
(* Turning the second factor on and off: setupTotp, verifyTotpSetup,       *)
(* disableTotp, regenerateBackupCodes, an admin's resetUserTotp, and the   *)
(* UPDATE of resetPassword, which lifts the lock.                          *)
(*                                                                         *)
(* Each action of the user reads the row, checks it, hashes or generates,  *)
(* and writes what it decided; none looks at the row again.                *)
(***************************************************************************)
EXTENDS UserRow

\* A request of the signed-in user starts by reading the row.
Begin(r, next) ==
  /\ At(r, "idle")
  /\ Read(r, next)
  /\ UNCHANGED <<user, pending, inputVars, secrets, sets, raced, historyVars, loginVars>>

\* verifyToken: the user's authenticator holds the secret of the row.
HasCode == user.secret # 0

\* A mistake: a new secret for an account that is enrolled.
WrongSetupTotp(r) ==
  /\ secrets < MaxSecrets
  /\ Begin(r, "setup")

SetupTotp(r) ==
  /\ secrets < MaxSecrets
  /\ ~user.enabled
  /\ Begin(r, "setup")

VerifyTotpSetup(r) ==
  /\ sets < MaxSets
  /\ HasCode
  /\ ~user.enabled
  /\ Begin(r, "confirm")

DisableTotp(r) ==
  /\ user.enabled
  /\ HasCode
  /\ Begin(r, "disable")

RegenerateBackupCodes(r) ==
  /\ sets < MaxSets
  /\ user.enabled
  /\ HasCode
  /\ Begin(r, "regenerate")

\* A write of the user's row that ends the request.
Write(r, step, row) ==
  /\ At(r, step)
  /\ user' = row
  /\ ActOnCopy(r)
  /\ End(r)
  /\ UNCHANGED <<pending, misses, streak>>

WriteSecret(r) ==
  /\ secrets < MaxSecrets
  /\ secrets' = secrets + 1
  /\ Write(r, "setup", [user EXCEPT !.secret = secrets'])
  /\ UNCHANGED <<sets, valid, confirmed>>

\* A new set of backup codes replaces the ones before.
NewCodes ==
  /\ sets < MaxSets
  /\ sets' = sets + 1
  /\ valid' = CodesOf(sets')
  /\ UNCHANGED secrets

WriteEnabled(r) ==
  /\ NewCodes
  /\ Write(r, "confirm", [user EXCEPT !.enabled = TRUE, !.codes = CodesOf(sets')])
  /\ confirmed' = confirmed \cup ({copy[r].secret} \ {0})

WriteCodes(r) ==
  /\ NewCodes
  /\ Write(r, "regenerate", [user EXCEPT !.codes = CodesOf(sets')])
  /\ UNCHANGED confirmed

Off(row) == [row EXCEPT !.enabled = FALSE, !.secret = 0, !.codes = {}]

WriteDisabled(r) ==
  /\ Write(r, "disable", Off(user))
  /\ valid' = {}
  /\ UNCHANGED <<secrets, sets, confirmed>>

\* The admin's action is one statement.
ResetUserTotp ==
  /\ user' = Off(user)
  /\ valid' = {}
  /\ UNCHANGED <<pending, requestVars, secrets, sets, raced, misses, streak, confirmed, loginVars>>

\* resetPassword clears the counter and the lock in the UPDATE of the hash.
ResetPassword ==
  /\ user' = Cleared(user)
  /\ streak' = 0
  /\ UNCHANGED <<pending, requestVars, secrets, sets, raced, misses, valid, confirmed, loginVars>>

EnrolmentStep(r) ==
  \/ WriteSecret(r)
  \/ WriteEnabled(r)
  \/ WriteCodes(r)
  \/ WriteDisabled(r)
=============================================================================
