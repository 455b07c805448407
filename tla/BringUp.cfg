SPECIFICATION BootFairSpec
CONSTANTS
  Gate = 4
  CalibTicks = 1
  NapTicks = 1
  SpinGuard = 1
  SoakGuard = 2
  Deltas = {0, 1, 2}
  U32Max = 2
INVARIANTS
  BootTypeOK HandlersNeverSpin EoiDiscipline PromotedOnlyProven NoSilentBox
  RateBetweenWindows
PROPERTIES BringUpEnds RollbackRevivesPit
