-------------------------------- MODULE Team --------------------------------
(***************************************************************************)
(* Members and their roles: actions/admin.ts and actions/team.ts. An       *)
(* action asks for the actor's role in the database first and writes some  *)
(* statements later. Only accepting an invitation is a transaction.        *)
(*                                                                         *)
(* A user stands for an address: it registers once and, when deleted, does *)
(* not come back. Editors are treated as viewers here and are no value of  *)
(* their own. Refusals by the rate limiter change nothing and are left out.*)
(***************************************************************************)
EXTENDS Integers, FiniteSets

CONSTANTS
  Users,
  Founders,     \* the users who are admins to begin with
  Invitations,  \* rows of `invitations' that may come to be
  TeamRequests, \* requests in flight
  NoUser,
  NoInvitation

ASSUME FounderAssumption == Founders \subseteq Users /\ Founders # {}
ASSUME NoUserAssumption == NoUser \notin Users
ASSUME NoInvitationAssumption == NoInvitation \notin Invitations

VARIABLES
  role,       \* of each user, or why he has none
  invitation, \* the rows
  job         \* of each request: next statement and what it works on

teamVars == <<role, invitation, job>>

-----------------------------------------------------------------------------
Roles == {"admin", "viewer"}
Nobody == {"unregistered", "deleted"}

Rows == [status: {"none", "pending", "accepted", "revoked"}, to: Users \cup {NoUser},
         role: Roles, expired: BOOLEAN]
NoRow == [status |-> "none", to |-> NoUser, role |-> "viewer", expired |-> FALSE]

TeamSteps == {"idle", "set role", "delete", "check", "insert", "revoke", "identify", "accept"}
Jobs == [step: TeamSteps, by: Users \cup {NoUser}, on: Users \cup {NoUser}, role: Roles,
         inv: Invitations \cup {NoInvitation}]
Idle == [step |-> "idle", by |-> NoUser, on |-> NoUser, role |-> "viewer", inv |-> NoInvitation]

TeamTypeOK ==
  /\ role \in [Users -> Roles \cup Nobody]
  /\ invitation \in [Invitations -> Rows]
  /\ job \in [TeamRequests -> Jobs]

TeamInit ==
  /\ role = [u \in Users |-> IF u \in Founders THEN "admin" ELSE "unregistered"]
  /\ invitation = [i \in Invitations |-> NoRow]
  /\ job = [r \in TeamRequests |-> Idle]

Member(u) == u \in Users /\ role[u] \in Roles
Admin(u) == u \in Users /\ role[u] = "admin"

-----------------------------------------------------------------------------
(* Steps of a request *)

Doing(r, step) == job[r].step = step

Begin(r, step, u, v, as, i) ==
  /\ Doing(r, "idle")
  /\ job' = [job EXCEPT ![r] = [step |-> step, by |-> u, on |-> v, role |-> as, inv |-> i]]
  /\ UNCHANGED <<role, invitation>>

Proceed(r, step) == job' = [job EXCEPT ![r].step = step]
Done(r) == job' = [job EXCEPT ![r] = Idle]

\* requireAdmin: the role is read from the database, once.
RequireAdmin(u) == Admin(u)

-----------------------------------------------------------------------------
(* actions/admin.ts *)

\* A mistake: nothing stops an admin from demoting himself.
WrongSetUserRole(r, u, v, as) ==
  /\ RequireAdmin(u)
  /\ Begin(r, "set role", u, v, as, NoInvitation)

\* assertNotSelf, then one UPDATE; it finds no row when the user is gone.
SetUserRole(r, u, v, as) ==
  /\ RequireAdmin(u)
  /\ u # v
  /\ Begin(r, "set role", u, v, as, NoInvitation)

WriteRole(r) ==
  /\ Doing(r, "set role")
  /\ role' = [role EXCEPT ![job[r].on] = IF Member(job[r].on) THEN job[r].role ELSE @]
  /\ Done(r)
  /\ UNCHANGED invitation

\* assertNotSelfDelete, then one DELETE.
DeleteUser(r, u, v) ==
  /\ RequireAdmin(u)
  /\ u # v
  /\ Begin(r, "delete", u, v, "viewer", NoInvitation)

WriteDeleted(r) ==
  /\ Doing(r, "delete")
  /\ role' = [role EXCEPT ![job[r].on] = IF Member(job[r].on) THEN "deleted" ELSE @]
  /\ Done(r)
  /\ UNCHANGED invitation

-----------------------------------------------------------------------------
(* actions/team.ts *)

\* inviteMember asks whether the address is a member's, then inserts the row.
InviteMember(r, u, v, as, i) ==
  /\ RequireAdmin(u)
  /\ invitation[i].status = "none"
  /\ \A q \in TeamRequests : ~(job[q].step \in {"check", "insert"} /\ job[q].inv = i)
  /\ Begin(r, "check", u, v, as, i)

CheckMember(r) ==
  /\ Doing(r, "check")
  /\ IF Member(job[r].on) THEN Done(r) ELSE Proceed(r, "insert")
  /\ UNCHANGED <<role, invitation>>

\* The row refers to the inviter: when he is gone the insert raises (AbortTeam).
InsertInvitation(r) ==
  /\ Doing(r, "insert")
  /\ Member(job[r].by)
  /\ invitation' = [invitation EXCEPT ![job[r].inv] =
       [status |-> "pending", to |-> job[r].on, role |-> job[r].role, expired |-> FALSE]]
  /\ Done(r)
  /\ UNCHANGED role

RevokeInvitation(r, u, i) ==
  /\ RequireAdmin(u)
  /\ invitation[i].status # "none"
  /\ Begin(r, "revoke", u, NoUser, "viewer", i)

\* A mistake: the UPDATE revokes whatever it finds.
WrongWriteRevoked(r) ==
  LET i == job[r].inv IN
  /\ Doing(r, "revoke")
  /\ invitation' = [invitation EXCEPT ![i].status = "revoked"]
  /\ Done(r)
  /\ UNCHANGED role

\* The UPDATE revokes a pending invitation only, and is audited if it did.
WriteRevoked(r) ==
  LET i == job[r].inv
      hit == invitation[i].status = "pending"
  IN
  /\ Doing(r, "revoke")
  /\ invitation' = [invitation EXCEPT ![i].status = IF hit THEN "revoked" ELSE @]
  /\ Done(r)
  /\ UNCHANGED role

\* isInviteValid.
Valid(row) == row.status = "pending" /\ ~row.expired

\* acceptInvitation reads the row of the token, then the caller's address, then
\* gives the role and marks the row in one transaction that looks at neither.
AcceptInvitation(r, u, i) ==
  /\ Member(u)
  /\ Valid(invitation[i])
  /\ Begin(r, "identify", u, NoUser, invitation[i].role, i)

Identify(r) ==
  /\ Doing(r, "identify")
  /\ IF Member(job[r].by) /\ job[r].by = invitation[job[r].inv].to
     THEN Proceed(r, "accept")
     ELSE Done(r)
  /\ UNCHANGED <<role, invitation>>

Accept(r) ==
  LET u == job[r].by
      i == job[r].inv
  IN
  /\ Doing(r, "accept")
  /\ role' = [role EXCEPT ![u] = IF Member(u) THEN job[r].role ELSE @]
  /\ invitation' = [invitation EXCEPT ![i].status = "accepted"]
  /\ Done(r)

-----------------------------------------------------------------------------
(* What else happens *)

\* registerUser, an OAuth login or a purchase makes a viewer of an address.
Register(u) ==
  /\ role[u] = "unregistered"
  /\ role' = [role EXCEPT ![u] = "viewer"]
  /\ UNCHANGED <<invitation, job>>

\* Seven days pass.
InvitationExpires(i) ==
  /\ Valid(invitation[i])
  /\ invitation' = [invitation EXCEPT ![i].expired = TRUE]
  /\ UNCHANGED <<role, job>>

\* A statement raises or the process dies.
AbortTeam(r) ==
  /\ ~Doing(r, "idle")
  /\ Done(r)
  /\ UNCHANGED <<role, invitation>>

TeamStep(r) ==
  \/ WriteRole(r)
  \/ WriteDeleted(r)
  \/ CheckMember(r)
  \/ InsertInvitation(r)
  \/ WriteRevoked(r)
  \/ Identify(r)
  \/ Accept(r)
  \/ AbortTeam(r)

AskTeam(r, u) ==
  \/ \E v \in Users, as \in Roles : SetUserRole(r, u, v, as)
  \/ \E v \in Users : DeleteUser(r, u, v)
  \/ \E v \in Users, as \in Roles, i \in Invitations : InviteMember(r, u, v, as, i)
  \/ \E i \in Invitations : RevokeInvitation(r, u, i) \/ AcceptInvitation(r, u, i)

TeamNext ==
  \/ \E r \in TeamRequests : TeamStep(r)
  \/ \E r \in TeamRequests, u \in Users : AskTeam(r, u)
  \/ \E u \in Users : Register(u)
  \/ \E i \in Invitations : InvitationExpires(i)

TeamSpec == TeamInit /\ [][TeamNext]_teamVars

-----------------------------------------------------------------------------
(* Properties *)

\* The last admin is not lost ("Prevent admin from demoting themselves",
\* actions/admin.ts:29), except by the statement of one who was an admin when his
\* request began and has ceased to be one, or by an invitation to a lower role
\* that he accepts himself.
AdminRemains ==
  [][(\E u \in Users : Admin(u)) =>
       \/ \E u \in Users : Admin(u)'
       \/ \E r \in TeamRequests : (WriteRole(r) \/ WriteDeleted(r)) /\ ~Admin(job[r].by)
       \/ \E r \in TeamRequests : Accept(r) /\ job[r].role # "admin"]_teamVars

\* A revoked or accepted invitation stays so, except that an acceptance under way
\* overtakes what happened meanwhile (read at actions/team.ts:122, written at
\* 133), and when it becomes accepted the invited has just got the role he was
\* invited to, or has left.
InvitationsHonoured ==
  [][\A i \in Invitations :
       LET old == invitation[i].status
           new == invitation'[i].status
       IN
       /\ old \in {"accepted", "revoked"} /\ new # old =>
            \E r \in TeamRequests : Accept(r) /\ job[r].inv = i
       /\ new = "accepted" /\ old # "accepted" =>
            role'[invitation[i].to] \in {invitation[i].role} \cup Nobody]_teamVars

-----------------------------------------------------------------------------
(* The inductive invariant *)

Inviting(r) == job[r].step \in {"check", "insert"}
Accepting(r) == job[r].step \in {"identify", "accept"}

\* An action on a member is by somebody else.
OtherInv ==
  \A r \in TeamRequests :
    job[r].step \in {"set role", "delete"} =>
      job[r].by \in Users /\ job[r].on \in Users /\ job[r].by # job[r].on

\* An invitation that is being made has no row, and one request makes it.
InvitingInv ==
  \A r \in TeamRequests :
    Inviting(r) =>
      /\ job[r].inv \in Invitations /\ job[r].by \in Users /\ job[r].on \in Users
      /\ invitation[job[r].inv].status = "none"
      /\ \A q \in TeamRequests \ {r} : Inviting(q) => job[q].inv # job[r].inv

\* One that is being accepted has the role that will be given, and belongs to the
\* caller once he has been identified.
AcceptingInv ==
  \A r \in TeamRequests :
    Accepting(r) =>
      /\ job[r].inv \in Invitations /\ job[r].by \in Users
      /\ invitation[job[r].inv].status # "none"
      /\ job[r].role = invitation[job[r].inv].role
      /\ Doing(r, "accept") => job[r].by = invitation[job[r].inv].to

RevokingInv ==
  \A r \in TeamRequests :
    Doing(r, "revoke") => job[r].inv \in Invitations /\ invitation[job[r].inv].status # "none"

TeamIInv == TeamTypeOK /\ OtherInv /\ InvitingInv /\ AcceptingInv /\ RevokingInv
=============================================================================
