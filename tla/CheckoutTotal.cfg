SPECIFICATION Spec
CONSTANTS
  ring = ring
  chain = chain
  Items = {ring, chain}
  Requests = {r1, r2}
  Keys = {k1, k2}
  None = None
  Carts <- MCCarts
  Entries <- MCEntries
  MaxStock = 2
  MaxArrivals = 2
  ItemLimit = 2
SYMMETRY Symmetry
CHECK_DEADLOCK FALSE
INVARIANTS
  TotalIsSumOfSales
