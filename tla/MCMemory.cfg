SPECIFICATION Spec
CONSTANTS
  FrameSize = 2
  MaxOrder = 2
  Maps <- TwoRegions
  NoFrame = NoFrame
  HeapPages = 2
  MaxTables = 1
INVARIANTS
  TypeOK
  NoDoubleOwner
  LedgerBalances
  SelfTestHonest
PROPERTIES
  ImplementsFramePool
  FragmentationHeals
