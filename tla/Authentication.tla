--------------------------- MODULE Authentication ---------------------------
(***************************************************************************)
(* Login and TotpEnrolment at work on one row: everything that happens to  *)
(* an account between two statements of a request of its own.              *)
(***************************************************************************)
EXTENDS Login, TotpEnrolment

\* The lock's time, or the cookie's, runs out.
LockExpires ==
  /\ user.lock = "active"
  /\ user' = [user EXCEPT !.lock = "expired"]
  /\ streak' = 0
  /\ UNCHANGED <<pending, requestVars, counters, raced, misses, valid, confirmed, loginVars>>

PendingExpires(b) ==
  /\ b \in pending
  /\ pending' = pending \ {b}
  /\ UNCHANGED <<user, requestVars, counters, raced, historyVars, loginVars>>

\* A statement fails or the process dies; its nonces go with it.
Abort(r) ==
  /\ ~At(r, "idle")
  /\ Leave(r)
  /\ UNCHANGED <<user, pending, counters, raced, historyVars, misfiled>>

RequestStep(r) == LoginStep(r) \/ EnrolmentStep(r)

SignIn(r) ==
  \/ \E b \in Browsers, correct \in BOOLEAN :
       LoginAction(r, b, correct) \/ SignInDirectly(r, b, correct)
  \/ \E b \in Browsers, secret \in {0, user.secret} : VerifyTotpLogin(r, b, secret)
  \/ \E b \in Browsers, c \in user.codes \cup {NoCode} : UseBackupCode(r, b, c)

ChangeSettings(r) ==
  \/ SetupTotp(r)
  \/ VerifyTotpSetup(r)
  \/ DisableTotp(r)
  \/ RegenerateBackupCodes(r)

Step ==
  \/ \E r \in Requests : RequestStep(r) \/ Abort(r)
  \/ \E r \in Logins : SignIn(r)
  \/ \E r \in Settings : ChangeSettings(r)
  \/ ResetUserTotp
  \/ ResetPassword
  \/ LockExpires
  \/ \E b \in Browsers : PendingExpires(b)

Next == Step /\ KeepShut

Spec == Init /\ [][Next]_vars

-----------------------------------------------------------------------------
(* Properties. What two requests at a time may spoil is excused by `raced' *)
(* and by nothing else.                                                    *)

\* Nobody is locked out by fewer failures than the limit, whichever of the two
\* actions and two factors counted them and whatever copies they counted from
\* (nextFailedState at its three call sites).
LockEarned == user.lock # "none" => misses >= MaxFailed

\* The counter is the number of failures in a row, and the lock stands exactly
\* from the limit on: no call site forgets one or counts one twice.
FailuresCounted ==
  ~raced /\ LockoutEnabled =>
    /\ user.lock = "active" <=> streak >= MaxFailed
    /\ user.lock = "none" => user.failed = streak

\* A lock is lifted early by a new password or a request that read the row
\* before it was locked, never by an attempt made while it holds ("Callers check
\* this BEFORE comparing the password", lib/auth-utils.ts:89).
LockHolds ==
  [][LockoutEnabled /\ user.lock = "active" /\ user'.lock = "none" => raced' \/ ResetPassword]_vars

\* A password alone signs nobody in while TOTP is on: the account was without it
\* at some point of the request (the two reads, in loginAction and in
\* authorizeCredentials, and the one before the nonce is redeemed).
SecondFactorRequired ==
  \A r \in Requests : pc[r] \in {"audit", "session"} => proved[r] \/ ~shut[r]

\* "exactly one auth.login per session created" on both paths (lib/auth.ts:53),
\* none without a session. A request that dies is not counted.
LoginsAudited == ~misfiled

\* A backup code is good once, and a new set or a reset ends the old one
\* (consumed at actions/auth.ts:589, "the previous codes are invalidated" at
\* actions/user.ts:206): the row holds the codes handed out last and not used.
BackupCodesCurrent == ~raced => user.codes = valid

\* The secret in force is one the user has produced a code for.
EnrolmentConfirmed == ~raced => (user.enabled => user.secret \in confirmed)

\* The same without an excuse, as setupTotp's comment has it: "The
\* secret only becomes authoritative once verifyTotpSetup confirms the user can
\* produce a valid code" (actions/user.ts:105).
EnabledSecretConfirmed ==
  user.enabled /\ user.secret # 0 => user.secret \in confirmed

-----------------------------------------------------------------------------
(* The inductive invariant *)

\* What a request knows at each of its statements.
Knows(r) ==
  /\ entries[r] = IF pc[r] = "session" THEN 1 ELSE 0
  /\ pc[r] = "nonce" => proved[r]
  /\ shut[r] => user.enabled
  /\ pc[r] = "password" /\ shut[r] => copy[r].enabled
  /\ pc[r] \in {"compare", "password", "spend", "clear"} => ~Locked(copy[r])
  /\ pc[r] = "setup" => ~copy[r].enabled
  /\ pc[r] = "confirm" => copy[r].secret # 0

RequestInv == \A r \in Requests : Knows(r)

\* No counter, in the row or in a copy, exceeds the failures there were, and a
\* lock has a counter at the limit.
Counted(row) ==
  /\ row.failed <= misses
  /\ row.lock = "active" => row.failed >= MaxFailed

CountInv ==
  /\ Counted(user)
  /\ \A r \in Requests : Counted(copy[r])

\* Without a race the row is what the failures in a row make it.
StreakInv ==
  ~raced /\ LockoutEnabled =>
    /\ user.lock = "expired" => streak = 0
    /\ user.lock # "expired" => user.failed = streak
    /\ user.lock = "none" => streak < MaxFailed

IInv ==
  /\ TypeOK
  /\ RequestInv
  /\ CountInv
  /\ StreakInv
  /\ LockEarned
  /\ SecondFactorRequired
  /\ LoginsAudited
  /\ BackupCodesCurrent
  /\ EnrolmentConfirmed
=============================================================================
