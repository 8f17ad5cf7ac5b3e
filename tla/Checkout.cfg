SPECIFICATION FairSpec
CONSTANTS
  ring = ring
  chain = chain
  Items = {ring, chain}
  Requests = {r1, r2}
  Keys = {k1, k2}
  None = None
  Carts <- MCCarts
  Entries <- MCEntries
  MaxStock = 2
  MaxArrivals = 3
  ItemLimit = 1
CHECK_DEADLOCK FALSE
INVARIANTS
  TypeOK
  WeightLedger
  SoldOnce
  CommitCannotCollide
  InvoiceNumbersGapless
  ActiveItemsWithinLimit
PROPERTIES
  EveryRequestEnds
