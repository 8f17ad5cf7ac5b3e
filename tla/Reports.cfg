CONSTANTS
  ring = ring
  chain = chain
  Clerks = {c1, c2}
  Items = {ring, chain}
  Weighed = {chain}
  Metal <- MCMetal
  Orders <- MCOrders
  Opening <- MCOpening
  Rates <- MCRates
  Analysed = {"gold"}
  TopLimit = 1
  Place <- MCPlace
  DayLength = 2
  Offset = 1
  Session = 0
  Zones <- MCZones
  MaxClock = 2
SPECIFICATION Spec
SYMMETRY Symmetry
CHECK_DEADLOCK FALSE
INVARIANTS
  HistoryIsCurrent
  CountedOnce
  TotalsAddUp
