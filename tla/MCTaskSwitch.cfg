SPECIFICATION Spec
CONSTANTS
  MaxTasks = 2
  Windows = {w1, w2, w3}
  Boot = Boot
  None = None
  Below = Below
  MaxId = 3
  MaxTick = 2
  MaxRuns = 2
SYMMETRY WindowSymmetry
INVARIANTS
  TypeOK
  YankHitsOwnStack
  NoDanglingPointer
  FramesNameLiveStacks
  SlotsAndStacksExclusive
  QueueHoldsEveryTask
  TrampolineRunsPickedTask
  AssertionsHold
PROPERTIES
  DeadKernelKeepsFrames
  StepsChargedOnce
