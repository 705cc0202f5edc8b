--------------------------- MODULE WorkspaceProofs ---------------------------
(***************************************************************************)
(* Proofs about Team and RateLimit, and about the four components of       *)
(* MCWorkspace together, for all values of the constants.                  *)
(***************************************************************************)
EXTENDS MCWorkspace, WebhookProofs, CredentialProofs, FiniteSetTheorems, TLAPS

-----------------------------------------------------------------------------
(* Team: what a request has read of an invitation stays true of it until   *)
(* the request writes, and an admin's own role is never his own request's. *)

LEMMA TeamInitEstablishes == TeamInit => TeamIInv
<1> SUFFICES ASSUME TeamInit PROVE TeamIInv
  OBVIOUS
<1>1. Idle \in Jobs /\ Idle.step = "idle"
  BY DEF Idle, Jobs, TeamSteps, Roles
<1>2. NoRow \in Rows
  BY DEF NoRow, Rows, Roles
<1>3. TeamTypeOK
  BY <1>1, <1>2, FounderAssumption DEF TeamInit, TeamTypeOK, Roles, Nobody
<1>4. \A r \in TeamRequests : job[r].step = "idle"
  BY <1>1 DEF TeamInit
<1> QED
  BY <1>3, <1>4
  DEF TeamIInv, OtherInv, InvitingInv, AcceptingInv, RevokingInv, Inviting, Accepting, Doing

\* What a request begins with is right, and no other is disturbed.
LEMMA BeginStep ==
  ASSUME TeamIInv, NEW r \in TeamRequests, NEW step \in TeamSteps,
         NEW u \in Users, NEW v \in Users \cup {NoUser}, NEW as \in Roles,
         NEW i \in Invitations \cup {NoInvitation},
         Begin(r, step, u, v, as, i),
         step \in {"set role", "delete"} => v \in Users /\ u # v,
         step = "check" => /\ i \in Invitations /\ v \in Users
                           /\ invitation[i].status = "none"
                           /\ \A q \in TeamRequests : ~(Inviting(q) /\ job[q].inv = i),
         step = "revoke" => i \in Invitations /\ invitation[i].status # "none",
         step = "identify" => /\ i \in Invitations
                              /\ invitation[i].status # "none"
                              /\ as = invitation[i].role,
         step \notin {"insert", "accept"}
  PROVE  TeamIInv'
<1> DEFINE new == [step |-> step, by |-> u, on |-> v, role |-> as, inv |-> i]
<1>1. /\ job' = [job EXCEPT ![r] = new]
      /\ UNCHANGED <<role, invitation>>
  BY DEF Begin
<1>2. new \in Jobs
  BY DEF Jobs
<1>3. job' \in [TeamRequests -> Jobs] /\ job'[r] = new
      /\ \A q \in TeamRequests \ {r} : job'[q] = job[q]
  BY <1>1, <1>2 DEF TeamIInv, TeamTypeOK
<1>4. TeamTypeOK'
  BY <1>1, <1>3 DEF TeamIInv, TeamTypeOK
<1>5. OtherInv'
  BY <1>1, <1>3 DEF TeamIInv, OtherInv
<1>6. InvitingInv'
  BY <1>1, <1>3 DEF TeamIInv, InvitingInv, Inviting
<1>7. AcceptingInv' /\ RevokingInv'
  BY <1>1, <1>3 DEF TeamIInv, AcceptingInv, RevokingInv, Accepting, Doing
<1> QED
  BY <1>4, <1>5, <1>6, <1>7 DEF TeamIInv

\* A request that is done, or goes on to a later step, keeps what it knows.
LEMMA DoneStep ==
  ASSUME TeamIInv, NEW r \in TeamRequests, Done(r),
         invitation' \in [Invitations -> Rows],
         role' \in [Users -> Roles \cup Nobody],
         \A i \in Invitations :
           \/ invitation'[i] = invitation[i]
           \/ /\ Doing(r, "insert") /\ i = job[r].inv
              /\ invitation'[i].status # "none"
           \/ /\ invitation[i].status # "none" /\ invitation'[i].status # "none"
              /\ invitation'[i].role = invitation[i].role
              /\ invitation'[i].to = invitation[i].to
  PROVE  TeamIInv'
<1>1. /\ job' = [job EXCEPT ![r] = Idle]
      /\ Idle \in Jobs /\ Idle.step = "idle"
  BY DEF Done, Idle, Jobs, TeamSteps, Roles
<1>2. job' \in [TeamRequests -> Jobs] /\ job'[r].step = "idle"
      /\ \A q \in TeamRequests \ {r} : job'[q] = job[q]
  BY <1>1 DEF TeamIInv, TeamTypeOK
<1>3. TeamTypeOK' /\ OtherInv'
  BY <1>2 DEF TeamIInv, TeamTypeOK, OtherInv
<1>4. InvitingInv'
  BY <1>2 DEF TeamIInv, InvitingInv, Inviting, Doing
<1>5. AcceptingInv' /\ RevokingInv'
  BY <1>2 DEF TeamIInv, InvitingInv, Inviting, AcceptingInv, RevokingInv, Accepting, Doing
<1> QED
  BY <1>3, <1>4, <1>5 DEF TeamIInv

\* The jobs alone, with the rows as they were.
LEMMA AskStep ==
  ASSUME TeamIInv, NEW r \in TeamRequests, NEW u \in Users, AskTeam(r, u)
  PROVE  TeamIInv'
<1>1. CASE \E v \in Users, as \in Roles : SetUserRole(r, u, v, as)
  BY <1>1, BeginStep DEF SetUserRole, TeamSteps
<1>2. CASE \E v \in Users : DeleteUser(r, u, v)
  BY <1>2, BeginStep DEF DeleteUser, TeamSteps, Roles
<1>3. CASE \E v \in Users, as \in Roles, i \in Invitations : InviteMember(r, u, v, as, i)
  <2>1. PICK v \in Users, as \in Roles, i \in Invitations : InviteMember(r, u, v, as, i)
    BY <1>3
  <2>2. \A q \in TeamRequests : ~(Inviting(q) /\ job[q].inv = i)
    BY <2>1 DEF InviteMember, Inviting
  <2> QED
    BY <2>1, <2>2, BeginStep DEF InviteMember, TeamSteps
<1>4. CASE \E i \in Invitations : RevokeInvitation(r, u, i)
  BY <1>4, BeginStep DEF RevokeInvitation, TeamSteps, Roles
<1>5. CASE \E i \in Invitations : AcceptInvitation(r, u, i)
  <2>1. PICK i \in Invitations : AcceptInvitation(r, u, i)
    BY <1>5
  <2>2. invitation[i].role \in Roles
    BY DEF TeamIInv, TeamTypeOK, Rows
  <2>3. invitation[i].status # "none"
    BY <2>1 DEF AcceptInvitation, Valid
  <2> QED
    BY <2>1, <2>2, <2>3, BeginStep DEF AcceptInvitation, TeamSteps
<1> QED
  BY <1>1, <1>2, <1>3, <1>4, <1>5 DEF AskTeam

\* A request that reads and goes on: the inviter, and the invited.
LEMMA ProceedStep ==
  ASSUME TeamIInv, NEW r \in TeamRequests, UNCHANGED <<role, invitation>>,
         \/ Doing(r, "check") /\ Proceed(r, "insert")
         \/ /\ Doing(r, "identify") /\ Proceed(r, "accept")
            /\ job[r].by = invitation[job[r].inv].to
  PROVE  TeamIInv'
<1>1. PICK step \in {"insert", "accept"} :
        /\ job' = [job EXCEPT ![r].step = step]
        /\ step = "insert" => job[r].step = "check"
        /\ step = "accept" => /\ job[r].step = "identify"
                              /\ job[r].by = invitation[job[r].inv].to
  BY DEF Proceed, Doing
<1> DEFINE new == [job[r] EXCEPT !.step = step]
<1>2. job[r] \in Jobs
  BY DEF TeamIInv, TeamTypeOK
<1>3. /\ new \in Jobs /\ new.step = step /\ new.by = job[r].by /\ new.on = job[r].on
      /\ new.role = job[r].role /\ new.inv = job[r].inv
  BY <1>2 DEF Jobs, TeamSteps
<1> HIDE DEF new
<1>4. /\ job' \in [TeamRequests -> Jobs] /\ job'[r] = new
      /\ \A q \in TeamRequests \ {r} : job'[q] = job[q]
  <2>1. job' = [job EXCEPT ![r] = new]
    BY <1>1 DEF new
  <2> QED
    BY <1>3, <2>1 DEF TeamIInv, TeamTypeOK
<1>5. TeamTypeOK' /\ OtherInv'
  BY <1>1, <1>3, <1>4 DEF TeamIInv, TeamTypeOK, OtherInv
<1>6. InvitingInv'
  BY <1>1, <1>3, <1>4 DEF TeamIInv, InvitingInv, Inviting
<1>7. AcceptingInv' /\ RevokingInv'
  BY <1>1, <1>3, <1>4 DEF TeamIInv, AcceptingInv, RevokingInv, Accepting, Doing
<1> QED
  BY <1>5, <1>6, <1>7 DEF TeamIInv

\* A row whose status alone changes, and is not "none" before or after.
LEMMA StatusStep ==
  ASSUME TeamIInv, NEW i \in Invitations, NEW status \in {"pending", "accepted", "revoked"},
         invitation[i].status # "none",
         invitation' = [invitation EXCEPT ![i].status = status]
  PROVE  /\ invitation' \in [Invitations -> Rows]
         /\ \A k \in Invitations \ {i} : invitation'[k] = invitation[k]
         /\ invitation'[i].status = status
         /\ invitation'[i].role = invitation[i].role
         /\ invitation'[i].to = invitation[i].to
<1> DEFINE new == [invitation[i] EXCEPT !.status = status]
<1>1. invitation[i] \in Rows /\ invitation \in [Invitations -> Rows]
  BY DEF TeamIInv, TeamTypeOK
<1>2. /\ new \in Rows /\ new.status = status /\ new.role = invitation[i].role
      /\ new.to = invitation[i].to
  BY <1>1 DEF Rows
<1>3. invitation' = [invitation EXCEPT ![i] = new]
  OBVIOUS
<1> HIDE DEF new
<1> QED
  BY <1>1, <1>2, <1>3

LEMMA WriteStep ==
  ASSUME TeamIInv, NEW r \in TeamRequests, TeamStep(r)
  PROVE  TeamIInv'
<1> USE DEF TeamIInv, TeamTypeOK
<1>1. CASE WriteRole(r)
  <2>1. role' \in [Users -> Roles \cup Nobody]
    <3>1. job[r].role \in Roles
      BY DEF Jobs
    <3> QED
      BY <1>1, <3>1 DEF WriteRole
  <2> HIDE DEF TeamIInv, TeamTypeOK
  <2> QED
    BY <1>1, <2>1, DoneStep DEF WriteRole, TeamIInv, TeamTypeOK
<1>2. CASE WriteDeleted(r)
  BY <1>2, DoneStep DEF WriteDeleted, Nobody
<1>3. CASE CheckMember(r)
  BY <1>3, DoneStep, ProceedStep DEF CheckMember
<1>4. CASE InsertInvitation(r)
  <2> DEFINE row == [status |-> "pending", to |-> job[r].on, role |-> job[r].role,
                     expired |-> FALSE]
  <2>1. job[r] \in Jobs /\ job[r].inv \in Invitations /\ job[r].on \in Users
    BY <1>4 DEF InsertInvitation, InvitingInv, Inviting, Doing
  <2>2. row \in Rows /\ row.status # "none"
    BY <2>1 DEF Rows, Jobs
  <2>3. invitation' = [invitation EXCEPT ![job[r].inv] = row]
    BY <1>4 DEF InsertInvitation
  <2> HIDE DEF row
  <2>4. /\ invitation' \in [Invitations -> Rows]
        /\ \A i \in Invitations : invitation'[i] = IF i = job[r].inv THEN row ELSE invitation[i]
    BY <2>1, <2>2, <2>3
  <2> QED
    BY <1>4, <2>2, <2>4, DoneStep DEF InsertInvitation
<1>5. CASE WriteRevoked(r)
  <2>1. job[r].inv \in Invitations /\ invitation[job[r].inv].status # "none"
    BY <1>5 DEF WriteRevoked, RevokingInv
  <2>2. invitation[job[r].inv].status \in {"pending", "accepted", "revoked"}
    BY <2>1 DEF Rows
  <2>3. \E status \in {"pending", "accepted", "revoked"} :
          invitation' = [invitation EXCEPT ![job[r].inv].status = status]
    BY <1>5, <2>2 DEF WriteRevoked
  <2> QED
    BY <1>5, <2>1, <2>3, StatusStep, DoneStep DEF WriteRevoked
<1>6. CASE Identify(r)
  BY <1>6, DoneStep, ProceedStep DEF Identify
<1>7. CASE Accept(r)
  <2>1. /\ job[r].inv \in Invitations /\ invitation[job[r].inv].status # "none"
        /\ job[r].role \in Roles
    BY <1>7 DEF Accept, AcceptingInv, Accepting, Doing, Jobs
  <2>2. role' \in [Users -> Roles \cup Nobody]
    BY <1>7, <2>1 DEF Accept
  <2>3. invitation' = [invitation EXCEPT ![job[r].inv].status = "accepted"]
    BY <1>7 DEF Accept
  <2>4. /\ invitation' \in [Invitations -> Rows]
        /\ \A i \in Invitations :
             \/ invitation'[i] = invitation[i]
             \/ /\ invitation[i].status # "none" /\ invitation'[i].status # "none"
                /\ invitation'[i].role = invitation[i].role
                /\ invitation'[i].to = invitation[i].to
    BY <2>1, <2>3, StatusStep
  <2>5. Done(r)
    BY <1>7 DEF Accept
  <2> HIDE DEF TeamIInv, TeamTypeOK
  <2> QED
    BY <2>2, <2>4, <2>5, DoneStep
<1>8. CASE AbortTeam(r)
  BY <1>8, DoneStep DEF AbortTeam
<1> QED
  BY <1>1, <1>2, <1>3, <1>4, <1>5, <1>6, <1>7, <1>8 DEF TeamStep

LEMMA RestStep ==
  ASSUME TeamIInv,
         \/ \E u \in Users : Register(u)
         \/ \E i \in Invitations : InvitationExpires(i)
         \/ UNCHANGED teamVars
  PROVE  TeamIInv'
<1> USE DEF TeamIInv
<1>1. CASE \E u \in Users : Register(u)
  <2>1. role' \in [Users -> Roles \cup Nobody] /\ UNCHANGED <<invitation, job>>
    BY <1>1 DEF Register, TeamTypeOK, Roles
  <2> QED
    BY <2>1 DEF TeamTypeOK, OtherInv, InvitingInv, AcceptingInv, RevokingInv,
                Inviting, Accepting, Doing
<1>2. CASE \E i \in Invitations : InvitationExpires(i)
  <2>1. PICK i \in Invitations : InvitationExpires(i)
    BY <1>2
  <2> DEFINE new == [invitation[i] EXCEPT !.expired = TRUE]
  <2>2. invitation[i] \in Rows
    BY DEF TeamTypeOK
  <2>3. /\ new \in Rows /\ new.status = invitation[i].status /\ new.role = invitation[i].role
        /\ new.to = invitation[i].to
    BY <2>2 DEF Rows
  <2>4. invitation' = [invitation EXCEPT ![i] = new] /\ UNCHANGED <<role, job>>
    BY <2>1 DEF InvitationExpires
  <2> HIDE DEF new
  <2>5. /\ invitation' \in [Invitations -> Rows]
        /\ \A k \in Invitations : /\ invitation'[k].status = invitation[k].status
                                  /\ invitation'[k].role = invitation[k].role
                                  /\ invitation'[k].to = invitation[k].to
    BY <2>3, <2>4 DEF TeamTypeOK
  <2>6. TeamTypeOK' /\ OtherInv'
    BY <2>4, <2>5 DEF TeamTypeOK, OtherInv
  <2>7. InvitingInv'
    BY <2>4, <2>5 DEF InvitingInv, Inviting
  <2>8. AcceptingInv' /\ RevokingInv'
    BY <2>4, <2>5 DEF AcceptingInv, RevokingInv, Accepting, Doing
  <2> QED
    BY <2>6, <2>7, <2>8
<1>3. CASE UNCHANGED teamVars
  BY <1>3 DEF teamVars, TeamTypeOK, OtherInv, InvitingInv, AcceptingInv, RevokingInv,
              Inviting, Accepting, Doing
<1> QED
  BY <1>1, <1>2, <1>3

\* What requests have read stays true of the rows until they write.
THEOREM TeamInductive == TeamSpec => []TeamIInv
<1>1. TeamIInv /\ [TeamNext]_teamVars => TeamIInv'
  BY AskStep, WriteStep, RestStep DEF TeamNext
<1> QED
  BY TeamInitEstablishes, <1>1, PTL DEF TeamSpec

-----------------------------------------------------------------------------
(* The properties *)

\* The last admin is not lost but by a statement executed on an old role or by an
\* invitation that lowers his own (actions/admin.ts:30-38, actions/team.ts:133).
THEOREM LastAdminStays == TeamSpec => AdminRemains
<1> DEFINE Kept == (\E u \in Users : Admin(u)) =>
                     \/ \E u \in Users : Admin(u)'
                     \/ \E r \in TeamRequests : (WriteRole(r) \/ WriteDeleted(r)) /\ ~Admin(job[r].by)
                     \/ \E r \in TeamRequests : Accept(r) /\ job[r].role # "admin"
<1>1. TeamIInv /\ TeamNext => Kept
  <2> SUFFICES ASSUME TeamIInv, TeamNext, NEW a \in Users, Admin(a) PROVE Kept
    OBVIOUS
  <2>1. CASE UNCHANGED role
    BY <2>1 DEF Admin
  <2>2. ASSUME NEW r \in TeamRequests, WriteRole(r) \/ WriteDeleted(r) PROVE Kept
    <3>1. CASE Admin(job[r].by)
      <4>1. job[r].by \in Users /\ job[r].by # job[r].on
        BY <2>2 DEF WriteRole, WriteDeleted, Doing, TeamIInv, OtherInv
      <4>2. role'[job[r].by] = role[job[r].by]
        BY <2>2, <4>1 DEF WriteRole, WriteDeleted, TeamIInv, TeamTypeOK
      <4>3. PICK u \in Users : u = job[r].by
        BY <4>1
      <4>4. Admin(u)'
        BY <3>1, <4>2, <4>3 DEF Admin
      <4> QED
        BY <4>4
    <3> QED
      BY <2>2, <3>1
  <2>3. ASSUME NEW r \in TeamRequests, Accept(r) PROVE Kept
    <3>1. CASE job[r].role = "admin"
      <4>1. role'[a] = "admin"
        BY <2>3, <3>1 DEF Accept, Admin, TeamIInv, TeamTypeOK
      <4> QED
        BY <4>1 DEF Admin
    <3> QED
      BY <2>3, <3>1
  <2>4. ASSUME NEW u \in Users, Register(u) PROVE Kept
    <3>1. role'[a] = "admin"
      BY <2>4 DEF Register, Admin, TeamIInv, TeamTypeOK
    <3> QED
      BY <3>1 DEF Admin
  <2> QED
    BY <2>1, <2>2, <2>3, <2>4
    DEF TeamNext, AskTeam, TeamStep, SetUserRole, DeleteUser, InviteMember, RevokeInvitation,
        AcceptInvitation, Begin, CheckMember, InsertInvitation, WriteRevoked, Identify,
        AbortTeam, InvitationExpires
<1>2. TeamIInv /\ [TeamNext]_teamVars => [Kept]_teamVars
  BY <1>1
<1> QED
  BY <1>2, TeamInductive, PTL DEF TeamSpec, AdminRemains

\* An invitation ends once, and an accepted one has given its role
\* (actions/team.ts:82 and 133).
THEOREM InvitationsAreHonoured == TeamSpec => InvitationsHonoured
<1> DEFINE Honoured(i) ==
      /\ invitation[i].status \in {"accepted", "revoked"}
           /\ invitation'[i].status # invitation[i].status =>
             \E r \in TeamRequests : Accept(r) /\ job[r].inv = i
      /\ invitation'[i].status = "accepted" /\ invitation[i].status # "accepted" =>
           role'[invitation[i].to] \in {invitation[i].role} \cup Nobody
<1>1. TeamIInv /\ TeamNext => \A i \in Invitations : Honoured(i)
  <2> SUFFICES ASSUME TeamIInv, TeamNext, NEW i \in Invitations PROVE Honoured(i)
    OBVIOUS
  <2> USE DEF TeamIInv, TeamTypeOK
  <2>1. CASE UNCHANGED invitation
    BY <2>1
  <2>2. ASSUME NEW r \in TeamRequests, InsertInvitation(r) PROVE Honoured(i)
    <3>1. job[r].inv \in Invitations /\ invitation[job[r].inv].status = "none"
      BY <2>2 DEF InsertInvitation, InvitingInv, Inviting, Doing
    <3>2. i = job[r].inv => invitation'[i].status = "pending"
      BY <2>2, <3>1 DEF InsertInvitation
    <3>3. i # job[r].inv => invitation'[i] = invitation[i]
      BY <2>2, <3>1 DEF InsertInvitation
    <3> QED
      BY <3>1, <3>2, <3>3
  <2>3. ASSUME NEW r \in TeamRequests, WriteRevoked(r) PROVE Honoured(i)
    <3>1. invitation'[i].status = IF i = job[r].inv /\ invitation[i].status = "pending"
                                  THEN "revoked" ELSE invitation[i].status
      BY <2>3 DEF WriteRevoked, Rows
    <3> QED
      BY <3>1
  <2>4. ASSUME NEW r \in TeamRequests, Accept(r) PROVE Honoured(i)
    <3>1. CASE job[r].inv = i
      <4>1. /\ job[r].by \in Users /\ job[r].by = invitation[i].to
            /\ job[r].role = invitation[i].role
        BY <2>4, <3>1 DEF Accept, AcceptingInv, Accepting, Doing
      <4>2. role'[job[r].by] = IF Member(job[r].by) THEN job[r].role ELSE role[job[r].by]
        BY <2>4, <4>1 DEF Accept
      <4>3. role'[job[r].by] \in {job[r].role} \cup Nobody
        BY <4>1, <4>2 DEF Member
      <4> QED
        BY <2>4, <3>1, <4>1, <4>3
    <3>2. CASE job[r].inv # i
      <4>1. invitation'[i] = invitation[i]
        BY <2>4, <3>2 DEF Accept
      <4> QED
        BY <4>1
    <3> QED
      BY <3>1, <3>2
  <2>5. ASSUME NEW k \in Invitations, InvitationExpires(k) PROVE Honoured(i)
    <3>1. invitation'[i].status = invitation[i].status
      BY <2>5 DEF InvitationExpires, Rows
    <3> QED
      BY <3>1
  <2> HIDE DEF Honoured, TeamIInv, TeamTypeOK
  <2> QED
    BY <2>1, <2>2, <2>3, <2>4, <2>5
    DEF TeamNext, AskTeam, TeamStep, SetUserRole, DeleteUser, InviteMember, RevokeInvitation,
        AcceptInvitation, Begin, CheckMember, WriteRole, WriteDeleted, Identify, AbortTeam, Register
<1>2. TeamIInv /\ [TeamNext]_teamVars => [\A i \in Invitations : Honoured(i)]_teamVars
  BY <1>1
<1> QED
  BY <1>2, TeamInductive, PTL DEF TeamSpec, InvitationsHonoured

-----------------------------------------------------------------------------
(* RateLimit: the keys                                                     *)

\* The kinds of keys are disjoint.
LEMMA KeyKinds ==
  /\ Window \in Spans /\ 1 \in Spans
  /\ \A k \in GuardKeys \cup CooldownKeys : k \in Keys /\ k \notin FailureKeys
  /\ \A k \in GuardKeys : LimitOf(k) = Limit
  /\ \A k \in CooldownKeys : LimitOf(k) = 1 /\ k \notin GuardKeys
  /\ \A k \in FailureKeys : k \in Keys
  /\ \A k \in Keys : LimitOf(k) \in Nat \ {0} /\ LimitOf(k) <= Limit
BY LimitAssumption, PrefixAssumption DEF Spans, Keys, FailureKeys, LimitOf

\* Sweeping changes nothing of a window that is open, and opens none.
LEMMA SweepSpares ==
  ASSUME NEW b \in [Keys -> Buckets]
  PROVE  /\ Swept(b) \in [Keys -> Buckets]
         /\ \A k \in Keys : /\ Swept(b)[k].left = b[k].left
                            /\ b[k].left > 0 => Swept(b)[k] = b[k]
BY LimitAssumption DEF Swept, Buckets, NoBucket

\* A hit is counted in the window it meets, and changes no other that is open.
LEMMA HitCounts ==
  ASSUME NEW b \in [Keys -> Buckets], NEW k \in Keys
  PROVE  /\ Hit(b, k) \in [Keys -> Buckets]
         /\ b[k].left = 0 => Hit(b, k)[k] = [count |-> 1, left |-> Window]
         /\ b[k].left > 0 => Hit(b, k)[k] = [count |-> b[k].count + 1, left |-> b[k].left]
         /\ \A j \in Keys \ {k} : /\ Hit(b, k)[j].left = b[j].left
                                  /\ b[j].left > 0 => Hit(b, k)[j] = b[j]
<1> DEFINE s == Swept(b)
           new == IF b[k].left = 0 THEN [count |-> 1, left |-> Window]
                  ELSE [b[k] EXCEPT !.count = @ + 1]
<1>1. /\ s \in [Keys -> Buckets]
      /\ \A j \in Keys : s[j].left = b[j].left /\ (b[j].left > 0 => s[j] = b[j])
  BY SweepSpares
<1>2. Hit(b, k) = [s EXCEPT ![k] = new]
  BY DEF Hit
<1>3. b[k] \in Buckets /\ s[k] \in Buckets
  BY <1>1
<1>4. new \in Buckets
  BY <1>3, LimitAssumption DEF Buckets
<1>5. b[k].left > 0 => new = [count |-> b[k].count + 1, left |-> b[k].left]
  BY <1>1, <1>3 DEF Buckets
<1> HIDE DEF s, new
<1>6. Hit(b, k) \in [Keys -> Buckets] /\ Hit(b, k)[k] = new
      /\ \A j \in Keys \ {k} : Hit(b, k)[j] = s[j]
  BY <1>1, <1>2, <1>4
<1>7. b[k].left = 0 => new = [count |-> 1, left |-> Window]
  BY DEF new
<1> QED
  BY <1>1, <1>5, <1>6, <1>7

-----------------------------------------------------------------------------
(* One key *)

\* A key that is not hit, and at most swept when its window has ended.
AtRest(k) ==
  /\ bucket'[k].left = bucket[k].left
  /\ bucket[k].left > 0 => bucket'[k] = bucket[k]
  /\ lately'[k] = lately[k]

\* A key that is hit.
Counted(k) ==
  /\ bucket[k].left = 0 => bucket'[k] = [count |-> 1, left |-> Window]
  /\ bucket[k].left > 0 => bucket'[k] = [count |-> bucket[k].count + 1, left |-> bucket[k].left]
  /\ \A a \in Spans : lately'[k][a] = lately[k][a] + 1

LEMMA RestWithin ==
  ASSUME LimitIInv, NEW k \in GuardKeys \cup CooldownKeys, AtRest(k)
  PROVE  Within(k)'
<1>1. k \in Keys /\ bucket[k] \in Buckets /\ Within(k) /\ LimitOf(k)' = LimitOf(k)
  BY KeyKinds DEF LimitIInv, LimitTypeOK, LimitOf
<1>2. CASE bucket[k].left = 0
  <2>1. bucket'[k].left = 0 /\ EndedWindow(k)'
    BY <1>1, <1>2 DEF AtRest, Within, EndedWindow
  <2> QED
    BY <2>1 DEF Within
<1>3. CASE bucket[k].left > 0
  <2>1. bucket'[k].left # 0 /\ OpenWindow(k)'
    BY <1>1, <1>3 DEF AtRest, Within, OpenWindow
  <2> QED
    BY <2>1 DEF Within
<1> QED
  BY <1>1, <1>2, <1>3 DEF Buckets

\* A call that is let through opens a window or counts in the open one.
LEMMA CountWithin ==
  ASSUME LimitIInv, NEW k \in GuardKeys \cup CooldownKeys, Counted(k),
         bucket[k].left > 0 => bucket[k].count < LimitOf(k)
  PROVE  Within(k)'
<1>1. /\ k \in Keys /\ bucket[k] \in Buckets /\ lately[k] \in [Spans -> Nat]
      /\ Window \in Nat \ {0} /\ LimitOf(k) \in Nat \ {0} /\ LimitOf(k)' = LimitOf(k)
      /\ Within(k)
  BY KeyKinds, LimitAssumption DEF LimitIInv, LimitTypeOK, LimitOf
<1>2. CASE bucket[k].left = 0
  <2>1. bucket'[k].count = 1 /\ bucket'[k].left = Window
    BY <1>2 DEF Counted
  <2>2. lately'[k][1] = 1 /\ lately'[k][Window] <= LimitOf(k)
    BY <1>1, <1>2, KeyKinds DEF Within, EndedWindow, Counted
  <2>3. Window - bucket'[k].left = 0 /\ bucket'[k].left # 0
    BY <1>1, <2>1
  <2>4. lately'[k][Window] \in Int
    BY <1>1, KeyKinds DEF Counted
  <2>5. OpenWindow(k)'
    BY <1>1, <2>1, <2>2, <2>3, <2>4 DEF OpenWindow
  <2> QED
    BY <2>3, <2>5 DEF Within
<1>3. CASE bucket[k].left > 0
  <2> DEFINE c == bucket[k].count
             age == Window - bucket[k].left
  <2>1. c \in 1..LimitOf(k) /\ lately[k][age + 1] = c
        /\ (age > 0 => lately[k][age] < c) /\ lately[k][Window] < c + LimitOf(k)
    BY <1>1, <1>3 DEF Within, OpenWindow
  <2>2. bucket'[k].count = c + 1 /\ bucket'[k].left = bucket[k].left
    BY <1>3 DEF Counted
  <2>3. bucket[k].left \in 1..Window /\ c \in Nat /\ age \in 0..(Window - 1)
    BY <1>1, <1>3 DEF Buckets
  <2>4. age + 1 \in Spans /\ Window \in Spans /\ (age > 0 => age \in Spans)
    <3> HIDE DEF age
    <3> QED
      BY LimitAssumption, <2>3 DEF Spans
  <2>5. lately'[k][age + 1] = c + 1
    BY <2>1, <2>4 DEF Counted
  <2>6. lately'[k][Window] < (c + 1) + LimitOf(k)
    BY <1>1, <2>1, <2>3, <2>4 DEF Counted
  <2>7. age > 0 => lately'[k][age] < c + 1
    BY <1>1, <2>1, <2>3, <2>4 DEF Counted
  <2>8. c + 1 \in 1..LimitOf(k)
    BY <1>1, <1>3, <2>3
  <2> QED
    BY <1>1, <1>3, <2>2, <2>3, <2>5, <2>6, <2>7, <2>8 DEF Within, OpenWindow
<1> QED
  BY <1>1, <1>2, <1>3 DEF Buckets

\* As time passes a window ends no earlier than its length after it was opened.
LEMMA TickWithin ==
  ASSUME LimitIInv, NEW k \in GuardKeys \cup CooldownKeys, Tick
  PROVE  Within(k)'
<1>1. /\ k \in Keys /\ bucket[k] \in Buckets /\ lately[k] \in [Spans -> Nat]
      /\ Window \in Nat \ {0} /\ LimitOf(k) \in Nat \ {0} /\ LimitOf(k)' = LimitOf(k)
      /\ Within(k) /\ LongerHasMore(k)
  BY KeyKinds, LimitAssumption DEF LimitIInv, LimitTypeOK, LimitOf
<1>2. \A a \in Spans : lately'[k][a] = IF a = 1 THEN 0 ELSE lately[k][a - 1]
  BY <1>1 DEF Tick
<1>3. lately'[k][1] = 0 /\ lately'[k][Window] \in Nat /\ lately'[k][Window] <= lately[k][Window]
  <2>1. Window = 1 => lately'[k][Window] = 0 /\ lately[k][Window] \in Nat
    BY <1>1, <1>2, KeyKinds
  <2>2. ASSUME Window # 1
        PROVE  /\ lately'[k][Window] = lately[k][Window - 1]
               /\ lately[k][Window - 1] <= lately[k][Window]
               /\ lately[k][Window - 1] \in Nat
    <3>1. Window - 1 \in Spans /\ Window - 1 <= Window
      BY <1>1, <2>2 DEF Spans
    <3> QED
      BY <1>1, <1>2, <2>2, <3>1, KeyKinds DEF LongerHasMore
  <2>3. lately'[k][1] = 0
    BY <1>2, KeyKinds
  <2> QED
    BY <2>1, <2>2, <2>3
<1>4. CASE bucket[k].left = 0
  <2>1. bucket'[k] = bucket[k]
    BY <1>1, <1>4 DEF Tick
  <2>2. lately[k][Window] < LimitOf(k) /\ lately[k][Window] \in Nat
    BY <1>1, <1>4, KeyKinds DEF Within, EndedWindow
  <2> QED
    BY <1>1, <1>3, <1>4, <2>1, <2>2 DEF Within, EndedWindow
<1>5. CASE bucket[k].left > 0
  <2> DEFINE c == bucket[k].count
             age == Window - bucket[k].left
  <2>1. c \in 1..LimitOf(k) /\ lately[k][age + 1] = c
        /\ (age > 0 => lately[k][age] < c) /\ lately[k][Window] < c + LimitOf(k)
    BY <1>1, <1>5 DEF Within, OpenWindow
  <2>2. bucket[k].left \in 1..Window /\ c \in Nat /\ age \in 0..(Window - 1)
    BY <1>1, <1>5 DEF Buckets
  <2>3. bucket'[k].count = c /\ bucket'[k].left = bucket[k].left - 1
    BY <1>1, <1>5 DEF Tick, Buckets
  <2>4. age + 1 \in Spans /\ (age > 0 => age \in Spans) /\ Window \in Spans
    BY <2>2, LimitAssumption DEF Spans
  <2>5. lately'[k][age + 1] < c /\ lately'[k][age + 1] \in Nat
    <3>1. age = 0 => lately'[k][age + 1] = 0
      BY <1>2, <2>4
    <3>2. age > 0 => lately'[k][age + 1] = lately[k][age] /\ lately[k][age] \in Nat
      BY <1>1, <1>2, <2>2, <2>4
    <3> QED
      BY <1>1, <2>1, <2>2, <3>1, <3>2
  <2>6. CASE bucket[k].left = 1
    <3>1. age + 1 = Window
      BY <1>1, <2>6
    <3>2. bucket'[k].left = 0
      BY <2>3, <2>6
    <3>3. lately'[k][Window] < LimitOf(k)
      BY <1>1, <2>1, <2>2, <2>5, <3>1
    <3> QED
      BY <1>1, <1>3, <3>2, <3>3 DEF Within, EndedWindow
  <2>7. CASE bucket[k].left > 1
    <3> DEFINE later == Window - bucket'[k].left
    <3>1. later = age + 1 /\ later > 0 /\ later + 1 \in Spans /\ bucket'[k].left # 0
      BY <2>2, <2>3, <2>7, LimitAssumption DEF Spans
    <3>2. lately'[k][later + 1] = c
      BY <1>1, <1>2, <2>1, <2>2, <3>1
    <3>3. lately[k][Window] \in Nat
      BY <1>1, <2>4
    <3>4. lately'[k][Window] < c + LimitOf(k)
      BY <1>1, <1>3, <2>1, <2>2, <3>3
    <3> QED
      BY <1>1, <2>1, <2>3, <2>5, <3>1, <3>2, <3>4 DEF Within, OpenWindow
  <2> QED
    BY <2>2, <2>6, <2>7
<1> QED
  BY <1>1, <1>4, <1>5 DEF Buckets

-----------------------------------------------------------------------------
(* One step *)

LEMMA NoteNotes ==
  ASSUME LimitIInv, NEW keys, Note(keys)
  PROVE  /\ lately' \in [Keys -> [Spans -> Nat]]
         /\ \A k \in Keys : LongerHasMore(k)'
         /\ \A k \in keys \cap Keys : \A a \in Spans : lately'[k][a] = lately[k][a] + 1
         /\ \A k \in Keys \ keys : lately'[k] = lately[k]
<1>1. lately \in [Keys -> [Spans -> Nat]]
  BY DEF LimitIInv, LimitTypeOK
<1>2. \A k \in Keys : \A a \in Spans :
        lately'[k][a] = lately[k][a] + (IF k \in keys THEN 1 ELSE 0)
  BY DEF Note
<1>3. lately' \in [Keys -> [Spans -> Nat]]
  BY <1>1 DEF Note
<1>4. \A k \in Keys : LongerHasMore(k)'
  <2> SUFFICES ASSUME NEW k \in Keys, NEW a \in Spans, NEW b \in Spans, a <= b
               PROVE  lately'[k][a] <= lately'[k][b]
    BY DEF LongerHasMore
  <2>1. lately[k][a] <= lately[k][b] /\ lately[k][a] \in Nat /\ lately[k][b] \in Nat
    BY <1>1 DEF LimitIInv, LongerHasMore
  <2> QED
    BY <1>2, <2>1
<1>5. ASSUME NEW k \in Keys \ keys PROVE lately'[k] = lately[k]
  <2>1. \A a \in Spans : lately'[k][a] = lately[k][a]
    BY <1>1, <1>2
  <2> QED
    BY <1>1, <1>3, <2>1
<1> QED
  BY <1>2, <1>3, <1>4, <1>5

\* A failure key at rest, while no login begins.
LEMMA RestRoom ==
  ASSUME LimitIInv, NEW k \in FailureKeys, Using(k)' \subseteq Using(k),
         bucket'[k].left > 0 => bucket[k].left > 0 /\ bucket'[k].count = bucket[k].count
  PROVE  RoomLeft(k)'
<1>1. /\ k \in Keys /\ RoomLeft(k) /\ bucket[k].count \in Nat
  BY KeyKinds DEF LimitIInv, LimitTypeOK, Buckets
<1>2. IsFiniteSet(Using(k)) /\ IsFiniteSet(Tries)
  BY TriesAssumption, FS_Subset DEF Using
<1>3. /\ Cardinality(Using(k)') <= Cardinality(Using(k))
      /\ Cardinality(Using(k)') \in Nat /\ Cardinality(Using(k)) \in Nat
      /\ Cardinality(Tries) \in Nat
  BY <1>2, FS_Subset, FS_CardinalityType
<1> QED
  BY <1>1, <1>3, LimitAssumption DEF RoomLeft

LEMMA PassStep ==
  ASSUME LimitIInv, NEW k \in GuardKeys \cup CooldownKeys, Pass(k),
         bucket[k].left > 0 => bucket[k].count < LimitOf(k)
  PROVE  LimitIInv'
<1>1. k \in Keys /\ bucket \in [Keys -> Buckets]
  BY KeyKinds DEF LimitIInv, LimitTypeOK
<1>2. bucket' \in [Keys -> Buckets] /\ Counted(k) /\ \A j \in Keys \ {k} : AtRest(j)
  BY <1>1, HitCounts, NoteNotes DEF Pass, Counted, AtRest
<1>3. LimitTypeOK' /\ \A j \in Keys : LongerHasMore(j)'
  BY <1>2, NoteNotes DEF LimitIInv, LimitTypeOK, Pass
<1>4. ASSUME NEW j \in GuardKeys \cup CooldownKeys PROVE Within(j)'
  BY <1>2, RestWithin, CountWithin, KeyKinds
<1>5. ASSUME NEW j \in FailureKeys PROVE RoomLeft(j)'
  <2>1. AtRest(j) /\ Using(j)' = Using(j)
    BY <1>2, KeyKinds DEF Pass, Using
  <2> QED
    BY <2>1, RestRoom DEF AtRest
<1> QED
  BY <1>3, <1>4, <1>5 DEF LimitIInv

LEMMA BlockStep ==
  ASSUME LimitIInv, Block
  PROVE  LimitIInv'
<1>1. /\ bucket' \in [Keys -> Buckets] /\ UNCHANGED <<try, lately>>
      /\ \A k \in Keys : AtRest(k)
  BY SweepSpares DEF LimitIInv, LimitTypeOK, Block, AtRest
<1>2. LimitTypeOK' /\ \A k \in Keys : LongerHasMore(k)'
  BY <1>1 DEF LimitIInv, LimitTypeOK, LongerHasMore
<1>3. \A k \in GuardKeys \cup CooldownKeys : Within(k)'
  BY <1>1, RestWithin, KeyKinds
<1>4. ASSUME NEW k \in FailureKeys PROVE RoomLeft(k)'
  <2>1. AtRest(k) /\ Using(k)' = Using(k)
    BY <1>1, KeyKinds DEF Using
  <2> QED
    BY <2>1, RestRoom DEF AtRest
<1> QED
  BY <1>2, <1>3, <1>4 DEF LimitIInv

\* A login is let in by keys that are under the limit, and joins those in flight.
LEMMA BeginTryStep ==
  ASSUME LimitIInv, NEW t \in Tries, NEW a \in AddressKeys, NEW ip \in IpKeys,
         BeginTry(t, a, ip)
  PROVE  LimitIInv'
<1>1. /\ UNCHANGED <<bucket, lately>> /\ try' = [try EXCEPT ![t] = <<a, ip>>]
      /\ try[t] = NoTry /\ ~Limited(a) /\ ~Limited(ip)
  BY DEF BeginTry
<1>2. /\ LimitTypeOK' /\ (\A k \in Keys : LongerHasMore(k)')
      /\ \A k \in GuardKeys \cup CooldownKeys : Within(k)'
  BY <1>1
  DEF LimitIInv, LimitTypeOK, LongerHasMore, Within, EndedWindow, OpenWindow, LimitOf
<1>3. ASSUME NEW k \in FailureKeys PROVE RoomLeft(k)'
  <2>1. CASE k \in {a, ip}
    <3>1. bucket'[k].left > 0 => bucket'[k].count < Limit
      BY <1>1, <2>1, KeyKinds, LimitAssumption DEF Limited, LimitIInv, LimitTypeOK, Buckets
    <3>2. Cardinality(Using(k)') <= Cardinality(Tries) /\ Cardinality(Tries) \in Nat
          /\ Cardinality(Using(k)') \in Nat
      <4>1. Using(k)' \subseteq Tries
        BY DEF Using
      <4> QED
        BY <4>1, TriesAssumption, FS_Subset, FS_CardinalityType
    <3>3. bucket'[k].count \in Nat
      BY <1>1, KeyKinds DEF LimitIInv, LimitTypeOK, Buckets
    <3> QED
      BY <3>1, <3>2, <3>3, LimitAssumption DEF RoomLeft
  <2>2. CASE k \notin {a, ip}
    <3>1. Using(k)' \subseteq Using(k)
      BY <1>1, <2>2 DEF Using, LimitIInv, LimitTypeOK
    <3> QED
      BY <1>1, <3>1, RestRoom
  <2> QED
    BY <2>1, <2>2
<1> QED
  BY <1>2, <1>3 DEF LimitIInv

\* A login that ends makes room for the failure that it counts.
LEMMA FailTryStep ==
  ASSUME LimitIInv, NEW t \in Tries, FailTry(t)
  PROVE  LimitIInv'
<1> DEFINE a == try[t][1]
           ip == try[t][2]
           once == Hit(bucket, a)
<1>1. /\ bucket' = Hit(once, ip) /\ Note({a, ip}) /\ try[t] # NoTry
      /\ try' = [try EXCEPT ![t] = NoTry]
  BY DEF FailTry
<1>2. /\ a \in AddressKeys /\ ip \in IpKeys /\ a # ip
      /\ a \in Keys /\ ip \in Keys /\ {a, ip} \subseteq FailureKeys
      /\ t \in Using(a) /\ t \in Using(ip)
  BY <1>1, PrefixAssumption DEF LimitIInv, LimitTypeOK, Keys, FailureKeys, Using
<1>3. bucket \in [Keys -> Buckets] /\ once \in [Keys -> Buckets]
  BY <1>2, HitCounts DEF LimitIInv, LimitTypeOK
<1>4. /\ bucket[a].left = 0 => once[a] = [count |-> 1, left |-> Window]
      /\ bucket[a].left > 0 =>
           once[a] = [count |-> bucket[a].count + 1, left |-> bucket[a].left]
      /\ \A k \in Keys \ {a} : /\ once[k].left = bucket[k].left
                               /\ bucket[k].left > 0 => once[k] = bucket[k]
  BY <1>2, <1>3, HitCounts
<1> HIDE DEF a, ip, once
<1>5. /\ bucket' \in [Keys -> Buckets]
      /\ once[ip].left = 0 => bucket'[ip] = [count |-> 1, left |-> Window]
      /\ once[ip].left > 0 =>
           bucket'[ip] = [count |-> once[ip].count + 1, left |-> once[ip].left]
      /\ \A k \in Keys \ {ip} : /\ bucket'[k].left = once[k].left
                                /\ once[k].left > 0 => bucket'[k] = once[k]
  BY <1>1, <1>2, <1>3, HitCounts
<1>6. \A k \in Keys \ {a, ip} : AtRest(k)
  <2> SUFFICES ASSUME NEW k \in Keys \ {a, ip} PROVE AtRest(k)
    OBVIOUS
  <2>1. lately'[k] = lately[k]
    BY <1>1, NoteNotes
  <2> QED
    BY <1>4, <1>5, <2>1 DEF AtRest
<1>7. ASSUME NEW k \in {a, ip}
      PROVE  /\ bucket[k].left = 0 => bucket'[k].count = 1
             /\ bucket[k].left > 0 => bucket'[k].count = bucket[k].count + 1
  <2>1. CASE k = a
    BY <1>2, <1>4, <1>5, <2>1, LimitAssumption
  <2>2. CASE k = ip
    BY <1>2, <1>4, <1>5, <2>2
  <2> QED
    BY <2>1, <2>2
<1>8. LimitTypeOK' /\ \A k \in Keys : LongerHasMore(k)'
  BY <1>1, <1>5, NoteNotes DEF LimitIInv, LimitTypeOK
<1>9. ASSUME NEW k \in GuardKeys \cup CooldownKeys PROVE Within(k)'
  BY <1>2, <1>6, RestWithin, KeyKinds
<1>10. ASSUME NEW k \in FailureKeys PROVE RoomLeft(k)'
  <2>1. Using(k)' \subseteq Using(k) \ {t}
    BY <1>1 DEF Using, LimitIInv, LimitTypeOK
  <2>2. CASE k \notin {a, ip}
    <3>1. AtRest(k)
      BY <1>6, <2>2, KeyKinds
    <3> QED
      BY <2>1, <3>1, RestRoom DEF AtRest
  <2>3. CASE k \in {a, ip}
    <3>1. t \in Using(k) /\ Using(k) \subseteq Tries
      BY <1>2, <2>3 DEF Using
    <3>2. IsFiniteSet(Using(k)) /\ IsFiniteSet(Tries) /\ IsFiniteSet(Using(k)')
      BY <2>1, <3>1, TriesAssumption, FS_Subset
    <3>3. /\ Cardinality(Using(k) \ {t}) = Cardinality(Using(k)) - 1
          /\ Cardinality(Using(k)') <= Cardinality(Using(k) \ {t})
          /\ Cardinality(Using(k)) <= Cardinality(Tries)
      <4>1. IsFiniteSet(Using(k) \ {t})
        BY <3>2, FS_Subset
      <4> QED
        BY <2>1, <3>1, <3>2, <4>1, FS_RemoveElement, FS_Subset
    <3>4. /\ Cardinality(Using(k)) \in Nat /\ Cardinality(Using(k)') \in Nat
          /\ Cardinality(Tries) \in Nat
      BY <3>2, FS_CardinalityType
    <3>5. RoomLeft(k) /\ bucket[k] \in Buckets
      BY KeyKinds DEF LimitIInv, LimitTypeOK
    <3>6. CASE bucket[k].left = 0
      BY <1>7, <2>3, <3>3, <3>4, <3>6, LimitAssumption DEF RoomLeft
    <3>7. CASE bucket[k].left > 0
      BY <1>7, <2>3, <3>3, <3>4, <3>5, <3>7, LimitAssumption DEF RoomLeft, Buckets
    <3> QED
      BY <3>5, <3>6, <3>7 DEF Buckets
  <2> QED
    BY <2>2, <2>3
<1> QED
  BY <1>8, <1>9, <1>10 DEF LimitIInv

LEMMA EndTryStep ==
  ASSUME LimitIInv, NEW t \in Tries, EndTry(t)
  PROVE  LimitIInv'
<1>1. UNCHANGED <<bucket, lately>> /\ try' = [try EXCEPT ![t] = NoTry]
  BY DEF EndTry
<1>2. /\ LimitTypeOK' /\ (\A k \in Keys : LongerHasMore(k)')
      /\ \A k \in GuardKeys \cup CooldownKeys : Within(k)'
  BY <1>1
  DEF LimitIInv, LimitTypeOK, LongerHasMore, Within, EndedWindow, OpenWindow, LimitOf
<1>3. ASSUME NEW k \in FailureKeys PROVE RoomLeft(k)'
  <2>1. Using(k)' \subseteq Using(k)
    BY <1>1 DEF Using, LimitIInv, LimitTypeOK
  <2> QED
    BY <1>1, <2>1, RestRoom
<1> QED
  BY <1>2, <1>3 DEF LimitIInv

LEMMA TickStep ==
  ASSUME LimitIInv, Tick
  PROVE  LimitIInv'
<1>1. /\ bucket \in [Keys -> Buckets] /\ lately \in [Keys -> [Spans -> Nat]]
      /\ \A k \in Keys : LongerHasMore(k)
  BY DEF LimitIInv, LimitTypeOK
<1>2. bucket' \in [Keys -> Buckets]
  <2> DEFINE b(k) == IF bucket[k].left = 0 THEN bucket[k]
                     ELSE [bucket[k] EXCEPT !.left = @ - 1]
  <2>1. \A k \in Keys : b(k) \in Buckets
    BY <1>1, LimitAssumption DEF Buckets
  <2>2. bucket' = [k \in Keys |-> b(k)]
    BY DEF Tick
  <2> QED
    BY <2>1, <2>2
<1>3. \A k \in Keys, a \in Spans :
        lately'[k][a] = IF a = 1 THEN 0 ELSE lately[k][a - 1]
  BY DEF Tick
<1>4. \A a \in Spans : a # 1 => a - 1 \in Spans
  BY LimitAssumption DEF Spans
<1>5. lately' \in [Keys -> [Spans -> Nat]]
  <2> DEFINE n(k, a) == IF a = 1 THEN 0 ELSE lately[k][a - 1]
  <2>1. \A k \in Keys, a \in Spans : n(k, a) \in Nat
    BY <1>1, <1>4
  <2>2. lately' = [k \in Keys |-> [a \in Spans |-> n(k, a)]]
    BY DEF Tick
  <2> HIDE DEF n
  <2> QED
    BY <2>1, <2>2
<1>6. ASSUME NEW k \in Keys PROVE LongerHasMore(k)'
  <2> SUFFICES ASSUME NEW a \in Spans, NEW b \in Spans, a <= b
               PROVE  lately'[k][a] <= lately'[k][b]
    BY DEF LongerHasMore
  <2>1. CASE a = 1
    BY <1>3, <1>5, <2>1
  <2>2. CASE a # 1
    <3>1. b # 1 /\ a - 1 <= b - 1 /\ a - 1 \in Spans /\ b - 1 \in Spans
      BY <1>4, <2>2, LimitAssumption DEF Spans
    <3>2. lately[k][a - 1] <= lately[k][b - 1]
      BY <1>1, <3>1 DEF LongerHasMore
    <3> QED
      BY <1>3, <2>2, <3>1, <3>2
  <2> QED
    BY <2>1, <2>2
<1>7. LimitTypeOK'
  BY <1>2, <1>5 DEF LimitIInv, LimitTypeOK, Tick
<1>8. ASSUME NEW k \in FailureKeys PROVE RoomLeft(k)'
  <2>1. Using(k)' = Using(k)
    BY DEF Tick, Using
  <2>2. bucket'[k].left > 0 => bucket[k].left > 0 /\ bucket'[k].count = bucket[k].count
    BY <1>1, KeyKinds DEF Tick, Buckets
  <2> QED
    BY <2>1, <2>2, RestRoom
<1> QED
  BY <1>6, <1>7, <1>8, TickWithin DEF LimitIInv

\* Nothing has been counted.
LEMMA FreshLimiter ==
  ASSUME bucket = [k \in Keys |-> NoBucket], try = [t \in Tries |-> NoTry],
         lately = [k \in Keys |-> [a \in Spans |-> 0]]
  PROVE  LimitIInv
<1>1. LimitTypeOK
  BY LimitAssumption DEF LimitTypeOK, Buckets, NoBucket
<1>2. \A k \in Keys : bucket[k].left = 0 /\ \A a \in Spans : lately[k][a] = 0
  BY DEF NoBucket
<1>3. \A k \in Keys : LongerHasMore(k)
  BY <1>2 DEF LongerHasMore
<1>4. \A k \in GuardKeys \cup CooldownKeys : Within(k)
  BY <1>2, KeyKinds DEF Within, EndedWindow
<1>5. \A k \in FailureKeys : RoomLeft(k)
  BY <1>2, KeyKinds DEF RoomLeft
<1> QED
  BY <1>1, <1>3, <1>4, <1>5 DEF LimitIInv

LEMMA LimitInitEstablishes == LimitInit => LimitIInv
BY FreshLimiter DEF LimitInit

LEMMA RestartStep ==
  ASSUME RestartLimiter
  PROVE  LimitIInv'
<1>1. LimitTypeOK'
  BY LimitAssumption DEF RestartLimiter, LimitTypeOK, Buckets, NoBucket
<1>2. \A k \in Keys : bucket'[k].left = 0 /\ \A a \in Spans : lately'[k][a] = 0
  BY DEF RestartLimiter, NoBucket
<1>3. \A k \in Keys : LongerHasMore(k)'
  BY <1>2 DEF LongerHasMore
<1>4. \A k \in GuardKeys \cup CooldownKeys : Within(k)'
  BY <1>2, KeyKinds DEF Within, EndedWindow, LimitOf
<1>5. \A k \in FailureKeys : RoomLeft(k)'
  BY <1>2, KeyKinds DEF RoomLeft
<1> QED
  BY <1>1, <1>3, <1>4, <1>5 DEF LimitIInv

LEMMA LimitStep ==
  ASSUME LimitIInv, [LimitNext]_limitVars
  PROVE  LimitIInv'
<1>1. ASSUME NEW k \in GuardKeys, RateLimitGuard(k) PROVE LimitIInv'
  <2>1. CASE Limited(k)
    BY <1>1, <2>1, BlockStep DEF RateLimitGuard
  <2>2. CASE ~Limited(k)
    <3>1. Pass(k) /\ (bucket[k].left > 0 => ~(bucket[k].count >= LimitOf(k)))
      BY <1>1, <2>2, KeyKinds DEF RateLimitGuard, Limited
    <3>2. bucket[k].count \in Nat /\ LimitOf(k) \in Nat
      BY KeyKinds DEF LimitIInv, LimitTypeOK, Buckets
    <3> QED
      BY <3>1, <3>2, PassStep
  <2> QED
    BY <2>1, <2>2
<1>2. ASSUME NEW k \in CooldownKeys, Cooldown(k) PROVE LimitIInv'
  BY <1>2, BlockStep, PassStep DEF Cooldown
<1>3. CASE UNCHANGED limitVars
  BY <1>3
  DEF limitVars, LimitIInv, LimitTypeOK, LongerHasMore, Within, EndedWindow, OpenWindow,
      LimitOf, RoomLeft, Using
<1> QED
  BY <1>1, <1>2, <1>3, BeginTryStep, FailTryStep, EndTryStep, TickStep, RestartStep DEF LimitNext

\* What the limiter counts is what it has let through, wherever windows begin.
THEOREM LimitInductive == LimitSpec => []LimitIInv
<1>1. LimitIInv /\ [LimitNext]_limitVars => LimitIInv'
  BY LimitStep
<1> QED
  BY LimitInitEstablishes, <1>1, PTL DEF LimitSpec

\* No stretch of a window's length sees as many calls as two limits, nor two
\* calls past a cooldown, and logins in flight overrun a limit by their number.
THEOREM WindowsAreBounded == LimitSpec => []WindowBound
<1>1. ASSUME LimitIInv PROVE WindowBound
  <2>1. ASSUME NEW k \in GuardKeys \cup CooldownKeys
        PROVE  lately[k][Window] < 2 * LimitOf(k)
    <3>1. /\ bucket[k] \in Buckets /\ LimitOf(k) \in Nat \ {0} /\ Within(k)
          /\ lately[k][Window] \in Nat
      BY <1>1, KeyKinds DEF LimitIInv, LimitTypeOK
    <3>2. CASE bucket[k].left = 0
      BY <3>1, <3>2 DEF Within, EndedWindow
    <3>3. CASE bucket[k].left # 0
      <4>1. bucket[k].count \in 1..LimitOf(k) /\ lately[k][Window] < bucket[k].count + LimitOf(k)
        BY <3>1, <3>3 DEF Within, OpenWindow
      <4> QED
        BY <3>1, <4>1
    <3> QED
      BY <3>2, <3>3
  <2>2. \A k \in GuardKeys : lately[k][Window] < 2 * Limit
    BY <2>1, KeyKinds
  <2>3. \A k \in CooldownKeys : lately[k][Window] <= 1
    BY <1>1, <2>1, KeyKinds DEF LimitIInv, LimitTypeOK
  <2>4. ASSUME NEW k \in FailureKeys, bucket[k].left > 0
        PROVE  bucket[k].count < Limit + Cardinality(Tries)
    <3>1. bucket[k].count + Cardinality(Using(k)) < Limit + Cardinality(Tries)
      BY <1>1, <2>4 DEF LimitIInv, RoomLeft
    <3>2. Cardinality(Using(k)) \in Nat /\ Cardinality(Tries) \in Nat
      BY TriesAssumption, FS_Subset, FS_CardinalityType DEF Using
    <3> QED
      BY <1>1, <3>1, <3>2, KeyKinds, LimitAssumption DEF LimitIInv, LimitTypeOK, Buckets
  <2> QED
    BY <2>2, <2>3, <2>4 DEF WindowBound
<1> QED
  BY LimitInductive, <1>1, PTL

-----------------------------------------------------------------------------
(* All four *)

\* Each component takes its own steps, or rests.
LEMMA PartsKept == Spec => TeamSpec /\ WebhookSpec /\ CredentialSpec /\ LimitSpec
<1>1. Init => TeamInit /\ WebhookInit /\ CredentialInit /\ LimitInit
  BY DEF Init
<1>2. [Next]_vars => [TeamNext]_teamVars
  BY DEF Next, vars, TeamWork, WebhookWork, CredentialWork, LimitWork
<1>3. [Next]_vars => [WebhookNext]_webhookVars
  BY DEF Next, vars, TeamWork, WebhookWork, CredentialWork, LimitWork
<1>4. [Next]_vars => [CredentialNext]_credentialVars
  BY DEF Next, vars, TeamWork, WebhookWork, CredentialWork, LimitWork
<1>5. [Next]_vars => [LimitNext]_limitVars
  BY DEF Next, vars, TeamWork, WebhookWork, CredentialWork, LimitWork
<1> QED
  BY <1>1, <1>2, <1>3, <1>4, <1>5, PTL DEF Spec, TeamSpec, WebhookSpec, CredentialSpec, LimitSpec

\* The four inductive invariants hold together.
THEOREM WorkspaceInductive == Spec => []WorkspaceIInv
BY PartsKept, TeamInductive, WebhookInductive, CredentialInductive, LimitInductive, PTL
DEF WorkspaceIInv

\* What the run of the instance checks of safety holds of every instance.
THEOREM WorkspaceSafe ==
  Spec => /\ AdminRemains /\ InvitationsHonoured /\ ImplementsContract
          /\ LinkGoodOnce /\ []WindowBound
BY PartsKept, LastAdminStays, InvitationsAreHonoured, DispatchImplementsContract,
   LinksAreGoodOnce, WindowsAreBounded, PTL
=============================================================================
