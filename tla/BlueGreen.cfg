SPECIFICATION FairSpec
CONSTANTS
  None = None
  Limits <- MCLimits
INVARIANTS TypeOK
PROPERTIES LiveVersionStable ApprovedGoesLive SwitchesForward RunsEnd
CHECK_DEADLOCK FALSE
