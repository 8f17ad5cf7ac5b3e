SPECIFICATION FairSpec
CONSTANTS
  ann = ann
  bob = bob
  cid = cid
  Users = {ann, bob, cid}
  Home = s1
  Shops = {s1, s2}
  Requests = {r1, r2}
  Invitations = {i1}
  None = None
  Founder = ann
  Staff <- MCStaff
  FreeShops = 1
  ProShops = 2
  FreeSeats = 2
  ProSeats = 3
  MaxAttempts = 2
  MaxArrivals = 2
  MaxFaults = 1
CHECK_DEADLOCK FALSE
INVARIANTS
  SeatsAndShops
  Ownership
PROPERTIES
  Settles
