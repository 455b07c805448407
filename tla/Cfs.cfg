SPECIFICATION FairSpec
CONSTANTS
  Quantum = 4
  VMax = 9
  Weights = {1, 2, 4}
  MaxId = 3
  MaxSleepers = 1
  MaxTick = 1
  MaxRuns = 4
INVARIANTS
  TypeOK
  LagBounded
  HeavierRunsMore
PROPERTY EveryTaskRuns
