SPECIFICATION FairSpec
CONSTANTS
  None = None
  Stages <- AllStages
  CRName = "nfs"
  SpecPvc = "data"
  Finalized <- MaybeFinalized
  Limits <- AllLimits
  Together = 4
INVARIANTS TypeOK
PROPERTIES ChildrenReturn ChildrenCollected ReleasedWithoutRole
CHECK_DEADLOCK FALSE
