SPECIFICATION Spec
CONSTANTS
  MaxTasks = 3
  Windows = {w1, w2, w3}
  Boot = Boot
  None = None
  Below = Below
  MaxId = 3
  MaxTick = 2
  MaxRuns = 2
SYMMETRY WindowSymmetry
PROPERTY ImplementsRoundRobin
