SPECIFICATION Spec
CONSTANTS
  Quantum = 6
  VMax = 14
  Weights = {2}
  MaxId = 4
  MaxSleepers = 0
  MaxTick = 0
  MaxRuns = 7
CONSTRAINT LedgerExact
PROPERTY EqualWeightsAreRoundRobin
