SPECIFICATION FairSpec
CONSTANTS
  None = None
  Keys <- A
  Namespaces <- Ns1
  NsOf <- AinNs1
  Specs <- UnsetOrInvalid
  LagCRs <- LagOfCR
  LagChildren <- LagOfRole
  Limits <- LagLimits
  Together = 8
PROPERTIES WritesFit CleanupOfDeletedIncarnation Converges ChildrenRenewed
CHECK_DEADLOCK FALSE
