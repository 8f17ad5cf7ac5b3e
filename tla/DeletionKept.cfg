SPECIFICATION FairSpec
CONSTANTS
  Requests = {q1}
  Orgs = {1, 2}
  Shops <- MCShops
  Selling <- MCSelling
  Workers = {w1}
  Renderers = {r1}
  None = None
  MaxFaults = 0
CHECK_DEADLOCK FALSE
PROPERTIES
  ConfirmedIsExecuted
