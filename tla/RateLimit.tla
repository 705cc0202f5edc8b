------------------------------ MODULE RateLimit ------------------------------
(***************************************************************************)
(* The in-memory limiter (lib/rate-limit.ts) as its callers use it: a      *)
(* guard counts every call, a cooldown lets one through, and a login asks  *)
(* first and counts later, when it has failed.                             *)
(*                                                                         *)
(* Time passes in ticks. A bucket holds the ticks left of its window in    *)
(* place of resetAt; one that is not in the Map has count 0. One limit and *)
(* one window stand for those of the callers.                              *)
(***************************************************************************)
EXTENDS Integers, FiniteSets

CONSTANTS
  GuardKeys,    \* of rateLimit: an action and a user
  CooldownKeys, \* of cooldown: an address to be mailed
  AddressKeys,  \* of recordFailure: an address that logs in
  IpKeys,       \* of recordFailure: where it logs in from
  Tries,        \* logins in flight
  NoTry,
  Limit,
  Window,
  SweepSize     \* buckets from which on the ended ones are removed: 5000

ASSUME LimitAssumption == Limit \in Nat \ {0} /\ Window \in Nat \ {0} /\ SweepSize \in Nat
ASSUME TriesAssumption == IsFiniteSet(Tries) /\ NoTry \notin AddressKeys \X IpKeys
\* Every caller has a prefix of its own; no address begins with "ip:".
ASSUME PrefixAssumption ==
  /\ GuardKeys \cap CooldownKeys = {}
  /\ (GuardKeys \cup CooldownKeys) \cap (AddressKeys \cup IpKeys) = {}
  /\ AddressKeys \cap IpKeys = {}

FailureKeys == AddressKeys \cup IpKeys
Keys == GuardKeys \cup CooldownKeys \cup FailureKeys

VARIABLES
  bucket,
  try,    \* of each login that was let in and has not ended: its keys
  lately  \* history: of each key, the calls let through, or failed, in the last
          \* a ticks, the present one included

limitVars == <<bucket, try, lately>>

-----------------------------------------------------------------------------
Buckets == [count: Nat, left: 0..Window]
NoBucket == [count |-> 0, left |-> 0]
Spans == 1..Window

LimitTypeOK ==
  /\ bucket \in [Keys -> Buckets]
  /\ try \in [Tries -> (AddressKeys \X IpKeys) \cup {NoTry}]
  /\ lately \in [Keys -> [Spans -> Nat]]

LimitInit ==
  /\ bucket = [k \in Keys |-> NoBucket]
  /\ try = [t \in Tries |-> NoTry]
  /\ lately = [k \in Keys |-> [a \in Spans |-> 0]]

-----------------------------------------------------------------------------
\* A mistake: a full Map is emptied.
WrongSwept(b) ==
  IF Cardinality({k \in Keys : b[k].count > 0}) < SweepSize THEN b
  ELSE [k \in Keys |-> NoBucket]

\* The Map after `sweep'.
Swept(b) ==
  IF Cardinality({k \in Keys : b[k].count > 0}) < SweepSize THEN b
  ELSE [k \in Keys |-> IF b[k].left = 0 THEN NoBucket ELSE b[k]]

\* A hit opens a window or counts in the one that is open.
Hit(b, k) ==
  [Swept(b) EXCEPT ![k] =
     IF b[k].left = 0 THEN [count |-> 1, left |-> Window] ELSE [b[k] EXCEPT !.count = @ + 1]]

Note(keys) ==
  lately' = [k \in Keys |-> [a \in Spans |-> lately[k][a] + (IF k \in keys THEN 1 ELSE 0)]]

\* Over the limit, in a window that has not ended.
Limited(k) == bucket[k].left > 0 /\ bucket[k].count >= Limit

Pass(k) == bucket' = Hit(bucket, k) /\ Note({k}) /\ UNCHANGED try
Block == bucket' = Swept(bucket) /\ UNCHANGED <<try, lately>>

\* rateLimit, rateLimitGuard.
RateLimitGuard(k) == IF Limited(k) THEN Block ELSE Pass(k)

Cooldown(k) == IF bucket[k].left > 0 THEN Block ELSE Pass(k)

\* loginAction asks isRateLimited for both keys ...
BeginTry(t, a, ip) ==
  /\ try[t] = NoTry
  /\ ~Limited(a) /\ ~Limited(ip)
  /\ try' = [try EXCEPT ![t] = <<a, ip>>]
  /\ UNCHANGED <<bucket, lately>>

\* ... and calls recordFailure for both when it has failed ...
FailTry(t) ==
  LET a == try[t][1]
      ip == try[t][2]
  IN
  /\ try[t] # NoTry
  /\ bucket' = Hit(Hit(bucket, a), ip)
  /\ Note({a, ip})
  /\ try' = [try EXCEPT ![t] = NoTry]

\* ... and nothing when it succeeds or raises.
EndTry(t) ==
  /\ try[t] # NoTry
  /\ try' = [try EXCEPT ![t] = NoTry]
  /\ UNCHANGED <<bucket, lately>>

Tick ==
  /\ bucket' = [k \in Keys |-> IF bucket[k].left = 0 THEN bucket[k]
                               ELSE [bucket[k] EXCEPT !.left = @ - 1]]
  /\ lately' = [k \in Keys |-> [a \in Spans |-> IF a = 1 THEN 0 ELSE lately[k][a - 1]]]
  /\ UNCHANGED try

\* The process restarts: the Map is lost with the logins in flight. The bounds
\* are those of one process.
RestartLimiter ==
  /\ bucket' = [k \in Keys |-> NoBucket]
  /\ try' = [t \in Tries |-> NoTry]
  /\ lately' = [k \in Keys |-> [a \in Spans |-> 0]]

LimitNext ==
  \/ \E k \in GuardKeys : RateLimitGuard(k)
  \/ \E k \in CooldownKeys : Cooldown(k)
  \/ \E t \in Tries, a \in AddressKeys, ip \in IpKeys : BeginTry(t, a, ip)
  \/ \E t \in Tries : FailTry(t) \/ EndTry(t)
  \/ Tick
  \/ RestartLimiter

LimitSpec == LimitInit /\ [][LimitNext]_limitVars

-----------------------------------------------------------------------------
(* Properties *)

\* In any stretch as long as a window, wherever the windows begin and whatever
\* sweeping removes: a guard lets through less than twice its limit (the end of
\* one window and the whole of the next), a cooldown one call. A window counts no
\* more failures than the limit and the other logins in flight, since a login
\* asks before it tries and counts after it ("Pair with recordFailure() to
\* count only *failed* attempts", lib/rate-limit.ts:106).
WindowBound ==
  /\ \A k \in GuardKeys : lately[k][Window] < 2 * Limit
  /\ \A k \in CooldownKeys : lately[k][Window] <= 1
  /\ \A k \in FailureKeys : bucket[k].left > 0 => bucket[k].count < Limit + Cardinality(Tries)

(* Why it holds *)

\* A longer stretch has no fewer calls.
LongerHasMore(k) == \A a, b \in Spans : a <= b => lately[k][a] <= lately[k][b]

LimitOf(k) == IF k \in CooldownKeys THEN 1 ELSE Limit

\* Of a window that has ended, less than a limit of calls is within a window's
\* length of now, and none of them in this tick.
EndedWindow(k) == lately[k][1] = 0 /\ lately[k][Window] < LimitOf(k)

\* An open window counts the calls since it was opened, with the one that did
\* it; of those before, less than a limit is within a window's length of now.
OpenWindow(k) ==
  LET age == Window - bucket[k].left IN
  /\ bucket[k].count \in 1..LimitOf(k)
  /\ lately[k][age + 1] = bucket[k].count
  /\ age > 0 => lately[k][age] < bucket[k].count
  /\ lately[k][Window] < bucket[k].count + LimitOf(k)

Within(k) == IF bucket[k].left = 0 THEN EndedWindow(k) ELSE OpenWindow(k)

\* The logins that may still count a failure of this key.
Using(k) == {t \in Tries : try[t] # NoTry /\ k \in {try[t][1], try[t][2]}}

\* A login that was let in has left room for the failure it may count.
RoomLeft(k) ==
  bucket[k].left > 0 => bucket[k].count + Cardinality(Using(k)) < Limit + Cardinality(Tries)

LimitIInv ==
  /\ LimitTypeOK
  /\ \A k \in Keys : LongerHasMore(k)
  /\ \A k \in GuardKeys \cup CooldownKeys : Within(k)
  /\ \A k \in FailureKeys : RoomLeft(k)
=============================================================================
