CONSTANTS
  i1 = i1
  i2 = i2
  t1 = t1
  t2 = t2
  Items <- MCItems
  Tenants <- MCTenants
  TenantOf <- MCTenantOf
  Cooldowns <- MCCooldowns
  NoItem = NoItem
  MaxTime = 2
  MaxGen = 4
  MaxMutations = 4
  MaxFaults = 2
SPECIFICATION Spec
SYMMETRY MCSymmetry
INVARIANTS
  TypeOK
  CompressedOnce
  LiveEntryInHeap
  DeadlineAfterCrossing
PROPERTIES
  EventMatchesState
  NothingDueKeptBack
