SPECIFICATION FairSpec
CONSTANTS
  None = None
  Keys <- AB
  Namespaces <- Ns12
  NsOf <- Apart
  Specs <- OnlyUnset
  LagCRs <- NoLag
  LagChildren <- NoLag
  Limits <- SharedLimits
  Together = 8
PROPERTIES Converges
CHECK_DEADLOCK FALSE
