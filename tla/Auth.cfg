SPECIFICATION FairSpec
CONSTANTS
  Requests = {r1, r2}
  Sessions = {s1, s2}
  Tokens = {t1, t2}
  Devices = {phone}
  Nonces = {n1}
  None = None
  MaxArrivals = 4
CHECK_DEADLOCK FALSE
INVARIANTS
  SecretsAreSpent
  MailsPaced
PROPERTIES
  NobodyWaits
