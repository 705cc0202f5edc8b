SPECIFICATION Spec
CONSTANTS
  u1 = u1
  u2 = u2
  u3 = u3
  i1 = i1
  q1 = q1
  q2 = q2
  e1 = e1
  e2 = e2
  d1 = d1
  v1 = v1
  v2 = v2
  p1 = p1
  r1 = r1
  r2 = r2
  g1 = g1
  c1 = c1
  a1 = a1
  ip1 = ip1
  t1 = t1
  t2 = t2
  NoUser = NoUser
  NoInvitation = NoInvitation
  NoLink = NoLink
  NoTry = NoTry
  Users = {u1, u2, u3}
  Founders = {u1, u2}
  Invitations = {i1}
  TeamRequests = {q1, q2}
  Endpoints = {e1, e2}
  Events = {d1}
  MaxAttempts = 2
  MaxOutages = 1
  Visits = {r1, r2}
  VerifyLinks = {v1, v2}
  ResetLinks = {p1}
  MaxAccounts = 2
  MaxFailures = 1
  GuardKeys = {g1}
  CooldownKeys = {c1}
  AddressKeys = {a1}
  IpKeys = {ip1}
  Tries = {t1, t2}
  Limit = 2
  Window = 3
  SweepSize = 2
PROPERTIES
  RegistrationTakesNothing
CHECK_DEADLOCK FALSE
