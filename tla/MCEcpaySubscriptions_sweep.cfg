SPECIFICATION FairSpec
CONSTANTS
  m1 = m1
  h1 = h1
  h2 = h2
  w1 = w1
  c1 = c1
  None = None
  Trades = {m1}
  Handlers = {h1, h2}
  Sweeps = {w1}
  Cancels = {c1}
  ExecTimes = 2
  DefaultThreshold = 0
  RenewalThreshold = 1
  MaxDeclines = 1
  MaxFaults = 1
INVARIANTS
  IInv
  FirstPaymentStands
  CountNeverAhead
  CanceledIsStopped
PROPERTIES
  PayerGetsRow
  CountCaughtUp
  RunwayFlagged
