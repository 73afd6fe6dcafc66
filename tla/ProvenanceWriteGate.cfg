CONSTANTS
  g1 = g1
  g2 = g2
  th1 = th1
  th2 = th2
  th3 = th3
  t1 = t1
  k1 = k1
  k2 = k2
  x = x
  y = y
  Gates <- MCGates
  Threads <- MCThreads
  GateOf <- MCGateOf
  Tenants <- MCTenants
  Keys <- MCKeys
  TenantOf <- MCTenantOf
  Contents <- MCContents
  Requests <- MCRequests
  NoThread = NoThread
  NoEntry = NoEntry
  NoTurn = NoTurn
  MaxAge = 0
  Capacity = 1
  Rate = 1
  MaxTime = 1
  MaxFaults = 1
  MaxCrashes = 1
SPECIFICATION Spec
SYMMETRY MCSymmetry
INVARIANTS
  TypeOK
  PersistedAtMostOnce
  AcceptedIsJournaled
  ConflictsAreForeign
  BurstBounded
