SPECIFICATION FairSpec
CONSTANTS
  None = None
  Keys <- A
  Namespaces <- Ns1
  NsOf <- AinNs1
  Specs <- OnlyUnset
  LagCRs <- NoLag
  LagChildren <- NoLag
  Limits <- StuckLimits
  Together = 8
PROPERTIES DeletionAlwaysCompletes
CHECK_DEADLOCK FALSE
