SPECIFICATION FairSpec
CONSTANTS
  MaxTasks = 2
  Windows = {w1, w2}
  Boot = Boot
  None = None
  Below = Below
  MaxId = 2
  MaxTick = 2
  MaxRuns = 2
PROPERTY EveryTaskRuns
