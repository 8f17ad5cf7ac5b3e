SPECIFICATION FairSpec
CONSTANTS
  Sales = {s1}
  Workers = {w1, w2}
  Tokens = {t1, t2, t3}
  Renders = {r1, r2}
  None = None
  MaxAttempts = 2
  MaxRequests = 2
  MaxFaults = 2
  MaxOverruns = 1
CHECK_DEADLOCK FALSE
INVARIANTS
  TypeOK
  IndexedInvoiceIsStored
  ReadyJobIsIndexed
  OneOwner
PROPERTIES
  ImplementsSaleDocument
  JobEventuallySettles
