------------------------------- MODULE UserRow -------------------------------
(***************************************************************************)
(* One address's row of `users' as signing in reads and writes it, and the *)
(* requests that work on it.                                               *)
(*                                                                         *)
(* Every handler selects the whole row, decides on that copy, and updates  *)
(* some columns later, by id alone: nothing keeps the row as it was read.  *)
(* Rows of different addresses share nothing but the in-memory limiter,    *)
(* which only refuses. A refusal changes nothing here and is left out.     *)
(***************************************************************************)
EXTENDS Integers, FiniteSets

CONSTANTS
  Logins,         \* requests in flight that sign in
  Settings,       \* requests in flight of the signed-in user
  Browsers,       \* each holds at most one pending_2fa cookie
  LockoutEnabled, \* ENABLE_LOGIN_LOCKOUT
  MaxFailed,      \* MAX_FAILED_LOGIN_ATTEMPTS
  SetSize,        \* backup codes generated at a time
  MaxMisses,      \* bound on wrong passwords and codes
  MaxSecrets,     \* bound on TOTP secrets generated
  MaxSets         \* bound on sets of backup codes generated

ASSUME LockoutAssumption == LockoutEnabled \in BOOLEAN
ASSUME LimitAssumption == MaxFailed \in Nat \ {0}
ASSUME BoundAssumption ==
  /\ SetSize \in Nat
  /\ MaxMisses \in Nat
  /\ MaxSecrets \in Nat
  /\ MaxSets \in Nat

Requests == Logins \cup Settings

VARIABLES
  (* the database *)
  user,       \* the row
  (* the browsers *)
  pending,    \* the browsers with a live pending_2fa cookie
  (* requests *)
  pc,         \* the next statement of the request, "idle" for none
  copy,       \* the row it read
  right,      \* the password submitted is the account's
  code,       \* the backup code submitted
  by,         \* the browser that sent it, as a set
  (* counters *)
  secrets,    \* TOTP secrets generated so far
  sets,       \* sets of backup codes generated so far
  (* history *)
  raced,      \* some request acted on a copy that was out of date
  misses,     \* wrong passwords and codes recorded
  streak,     \* those since the last right one, reset or expired lock
  valid,      \* the backup codes handed out last and not used since
  confirmed,  \* the secrets a user has produced a code for
  shut,       \* the account has had TOTP on ever since the request began
  proved,     \* the request has passed the second factor
  entries,    \* the auth.login rows the request has asked for
  misfiled    \* a request asked for one row too many or too few

inputVars == <<right, code, by>>
requestVars == <<pc, copy, inputVars>>
historyVars == <<misses, streak, valid, confirmed>>
loginVars == <<proved, entries, misfiled>>
vars == <<user, pending, requestVars, secrets, sets, raced, historyVars, shut, loginVars>>

-----------------------------------------------------------------------------
\* failedLoginCount; lockedUntil unset, in the future or past; totpEnabled;
\* totpSecret, 0 when null; backupCodes, where codes are named by set and place.
Locks == {"none", "active", "expired"}
Codes == (1..MaxSets) \X (1..SetSize)
CodesOf(n) == {n} \X (1..SetSize)
NoCode == <<0, 0>>
Rows == [failed: Nat, lock: Locks, enabled: BOOLEAN, secret: 0..MaxSecrets, codes: SUBSET Codes]

NewRow == [failed |-> 0, lock |-> "none", enabled |-> FALSE, secret |-> 0, codes |-> {}]
EnrolledRow == [failed |-> 0, lock |-> "none", enabled |-> TRUE, secret |-> 1, codes |-> CodesOf(1)]

Steps == {"idle", "compare", "authorize", "password", "recount", "miss", "spend", "clear",
          "nonce", "audit", "session", "setup", "confirm", "disable", "regenerate"}

TypeOK ==
  /\ user \in Rows
  /\ pending \subseteq Browsers
  /\ pc \in [Requests -> Steps]
  /\ copy \in [Requests -> Rows]
  /\ right \in [Requests -> BOOLEAN]
  /\ code \in [Requests -> Codes \cup {NoCode}]
  /\ by \in [Requests -> SUBSET Browsers]
  /\ secrets \in 0..MaxSecrets
  /\ sets \in 0..MaxSets
  /\ raced \in BOOLEAN
  /\ misses \in Nat
  /\ streak \in Nat
  /\ valid \subseteq Codes
  /\ confirmed \subseteq 1..MaxSecrets
  /\ shut \in [Requests -> BOOLEAN]
  /\ proved \in [Requests -> BOOLEAN]
  /\ entries \in [Requests -> Nat]
  /\ misfiled \in BOOLEAN

\* A verified account with a password, with TOTP or without.
Init ==
  /\ \/ user = NewRow /\ secrets = 0 /\ sets = 0
     \/ user = EnrolledRow /\ secrets = 1 /\ sets = 1 /\ MaxSecrets > 0 /\ MaxSets > 0
  /\ pending = {}
  /\ pc = [r \in Requests |-> "idle"]
  /\ copy = [r \in Requests |-> NewRow]
  /\ right = [r \in Requests |-> FALSE]
  /\ code = [r \in Requests |-> NoCode]
  /\ by = [r \in Requests |-> {}]
  /\ raced = FALSE
  /\ misses = 0
  /\ streak = 0
  /\ valid = user.codes
  /\ confirmed = IF user.enabled THEN {1} ELSE {}
  /\ shut = [r \in Requests |-> user.enabled]
  /\ proved = [r \in Requests |-> FALSE]
  /\ entries = [r \in Requests |-> 0]
  /\ misfiled = FALSE

-----------------------------------------------------------------------------
(* lib/auth-utils.ts *)

Locked(row) == LockoutEnabled /\ row.lock = "active"

\* Mistakes: an expired lock leaves the counter at the limit; the counter
\* becomes null after it; the lock comes one failure early.
WrongNextFailed(row) == row.failed + 1
WrongNextFailedNull(row) == IF row.lock = "expired" THEN -1 ELSE row.failed + 1
WrongNextLock(row) == IF row.failed + 1 >= MaxFailed - 1 THEN "active" ELSE "none"

\* The counter starts afresh after an expired lock, and locks at the limit.
NextFailed(row) == (IF row.lock = "expired" THEN 0 ELSE row.failed) + 1

NextLock(row) == IF NextFailed(row) >= MaxFailed THEN "active" ELSE "none"

Cleared(row) == [row EXCEPT !.failed = 0, !.lock = "none"]
HasFailures(row) == row.failed > 0 \/ row.lock # "none"

\* A row after a right factor that found the copy as given.
Pass(row, seen) == IF LockoutEnabled /\ HasFailures(seen) THEN Cleared(row) ELSE row

-----------------------------------------------------------------------------
(* What requests do *)

At(r, step) == pc[r] = step

\* The request reads the row and goes on to the next statement.
Read(r, next) ==
  /\ copy' = [copy EXCEPT ![r] = user]
  /\ pc' = [pc EXCEPT ![r] = next]

Goto(r, next) ==
  /\ pc' = [pc EXCEPT ![r] = next]
  /\ UNCHANGED copy

\* The request comes with a password or a code from a browser.
Submit(r, password, backup, from) ==
  /\ right' = [right EXCEPT ![r] = password]
  /\ code' = [code EXCEPT ![r] = backup]
  /\ by' = [by EXCEPT ![r] = from]

\* The request is gone.
Leave(r) ==
  /\ pc' = [pc EXCEPT ![r] = "idle"]
  /\ copy' = [copy EXCEPT ![r] = NewRow]
  /\ Submit(r, FALSE, NoCode, {})
  /\ entries' = [entries EXCEPT ![r] = 0]
  /\ proved' = [proved EXCEPT ![r] = FALSE]

\* It is answered; its audit rows match whether it signed somebody in.
Finish(r, session) ==
  /\ Leave(r)
  /\ misfiled' = (misfiled \/ entries[r] # (IF session THEN 1 ELSE 0))

End(r) == Finish(r, FALSE)

\* The request goes on without an answer yet.
Continue(r, next) == Goto(r, next) /\ UNCHANGED <<inputVars, loginVars>>

\* A request acts on its copy. It is out of date if the row has become anything
\* but what the request itself made of it.
ActOnCopy(r) ==
  LET own == IF pc[r] = "clear" /\ code[r] # NoCode
             THEN [Pass(copy[r], copy[r]) EXCEPT !.codes = @ \ {code[r]}]
             ELSE copy[r]
  IN  raced' = (raced \/ user # own)

\* The account stays shut for a request while TOTP is on, from its first step.
KeepShut ==
  shut' = [r \in Requests |-> user'.enabled /\ (pc'[r] = "idle" \/ shut[r])]
=============================================================================
