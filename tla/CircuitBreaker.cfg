CONSTANTS
  c1 = c1
  c2 = c2
  c3 = c3
  Callers <- MCCallers
  Window = 3
  FailurePercent = 50
  SlowPercent = 30
  SlowMultiplier = 2
  BaselineSize = 2
  MinSamples = 1
  Latencies <- MCLatencies
  Probes = 2
  BaseBackoff = 2
  MaxBackoff = 3
  MaxExponent = 1
  AcquireTimeout = 1
  MaxTimeouts = 1
SPECIFICATION FairSpec
INVARIANTS
  BreakerTypeOK
  OnlyProbesDecide
  ProbesAccounted
PROPERTIES
  BreakerMovesOn
