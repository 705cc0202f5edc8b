SPECIFICATION VisitorSpec
CONSTANTS
  r1 = r1
  r2 = r2
  b1 = b1
  p1 = p1
  x1 = x1
  k1 = k1
  c1 = c1
  c2 = c2
  s1 = s1
  Logins = {r1, r2}
  Settings = {r2}
  Browsers = {b1}
  LockoutEnabled = TRUE
  MaxFailed = 2
  SetSize = 1
  MaxMisses = 3
  MaxSecrets = 2
  MaxSets = 2
  Slugs = {p1}
  Products = {x1}
  ProductOf <- LinkedProduct
  Clients = {k1}
  Layers = {"page_view"}
  Channels = {c1, c2}
  KeyOf <- ChannelKeys
  Sales = {s1}
  NoReport = NoReport
  WindowDays = {0}
  RetentionDays = 1
  MaxDay = 2
  MaxHits = 2
  MaxInFlight = 1
INVARIANTS
  VisitorIInv
  LockEarned
  FailuresCounted
  SecondFactorRequired
  LoginsAudited
  BackupCodesCurrent
  EnrolmentConfirmed
  ReportTrue
PROPERTIES
  LockHolds
