SPECIFICATION Spec
CONSTANTS
  t1 = t1
  t2 = t2
  h = h
  Calls = {1, 2, 3, 4}
  Requests <- MCRequests
  Tenants = {t1, t2}
  Sessions = {"s", "r"}
  Hashes = {h}
  Tokens <- MCTokens
  Capacity = 2
  TTL = 2
  MaxClock = 2
INVARIANTS TypeOK DeletedStaysDeleted ReadYourWrites
CHECK_DEADLOCK FALSE
