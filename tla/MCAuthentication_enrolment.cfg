SPECIFICATION Spec
CONSTANTS
  r1 = r1
  r2 = r2
  b1 = b1
  Logins = {}
  Settings = {r1, r2}
  Browsers = {b1}
  LockoutEnabled = TRUE
  MaxFailed = 2
  SetSize = 1
  MaxMisses = 0
  MaxSecrets = 2
  MaxSets = 2
INVARIANTS
  EnabledSecretConfirmed
