SPECIFICATION FairSpec
CONSTANTS
  Gate = 1
  CalibTicks = 2
  SpinGuard = 1
  SoakGuard = 1
  Deltas = {1, 2}
  U32Max = 2
  FairRuns = 2
  NapTicks = 8
  SchedGuard = 8
INVARIANTS TypeOK NoFalseAlarm GammaFirst
PROPERTY DemoFinishes
