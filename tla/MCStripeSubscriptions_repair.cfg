SPECIFICATION FairSpec
CONSTANTS
  s1 = s1
  h1 = h1
  h2 = h2
  w1 = w1
  c1 = c1
  None = None
  Subs = {s1}
  Handlers = {h1, h2}
  Sweeps = {w1}
  Cancels = {c1}
  MaxEvents = 2
  MaxPeriod = 1
  MaxFaults = 1
INVARIANTS
  IInv
  EndedIsFinal
  ProcessedCheckoutHasRow
PROPERTIES
  SubscriberGetsRow
  DriftRepaired
