SPECIFICATION FairSpec
CONSTANTS
  None = None
  Keys <- A
  Namespaces <- Ns1
  NsOf <- AinNs1
  Specs <- ClaimOrInvalid
  LagCRs <- NoLag
  LagChildren <- NoLag
  Limits <- EndsLimits
  Together = 4
PROPERTIES DeletionCompletes InvalidReported ChildrenCollected
CHECK_DEADLOCK FALSE
