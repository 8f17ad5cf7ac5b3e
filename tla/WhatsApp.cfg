SPECIFICATION FairSpec
CONSTANTS
  Deliveries = {d1}
  Workers = {w1, w2}
  Tokens = {t1, t2}
  None = None
  MaxAttempts = 3
  MaxFaults = 1
  MaxOverruns = 1
CHECK_DEADLOCK FALSE
INVARIANTS
  TypeOK
  WaitingHasJob
  MessagesAccounted
PROPERTIES
  UnknownIsNotRetried
  DeliveryEventuallySettles
