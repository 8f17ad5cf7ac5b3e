SPECIFICATION FairSpec
CONSTANTS
  Requests = {q1}
  Orgs = {1, 2}
  Shops <- MCShops
  Selling <- MCSelling
  Workers = {w1, w2}
  Renderers = {r1}
  None = None
  MaxFaults = 1
CHECK_DEADLOCK FALSE
INVARIANTS
  NothingIsLeft
  CancelledTouchesNothing
PROPERTIES
  AccountGoes
