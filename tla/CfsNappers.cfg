SPECIFICATION Spec
CONSTANTS
  Quantum = 4
  VMax = 9
  Weights = {2, 4}
  MaxId = 3
  MaxSleepers = 2
  MaxTick = 2
  MaxRuns = 2
INVARIANT NeverAheadByANap
