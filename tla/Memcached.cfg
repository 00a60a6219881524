SPECIFICATION FairSpec
CONSTANTS
  None = None
  Names <- OneName
  Pods <- TwoPods
  Sizes <- OneOrTwo
  HandSizes <- JustThree
  Late <- LateObjects
  Sorted <- InOrder2
  Limits <- RestLimits
  Together = 3
INVARIANTS TypeOK RestingStatusCurrent
PROPERTIES SizeFollowsSpec ComesToRest NothingLeft NoBlindScaling
CHECK_DEADLOCK FALSE
