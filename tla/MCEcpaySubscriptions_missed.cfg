SPECIFICATION FairSpec
CONSTANTS
  m1 = m1
  h1 = h1
  h2 = h2
  w1 = w1
  c1 = c1
  None = None
  Trades = {m1}
  Handlers = {h1}
  Sweeps = {w1}
  Cancels = {}
  ExecTimes = 2
  DefaultThreshold = 0
  RenewalThreshold = 1
  MaxDeclines = 1
  MaxFaults = 0
PROPERTIES
  MissedNotificationsRecovered
