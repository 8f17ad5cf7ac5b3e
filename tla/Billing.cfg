SPECIFICATION FairSpec
CONSTANTS
  Handlers = {h1}
  Workers = {w1, w2}
  Leases = {l1, l2}
  None = None
  MaxChanges = 1
  MaxSubmits = 1
  MaxFaults = 1
CHECK_DEADLOCK FALSE
INVARIANTS
  AcknowledgementPlanned
PROPERTIES
  LateWorkerWritesNothing
  PurchaseSettles
