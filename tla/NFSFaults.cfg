SPECIFICATION Spec
CONSTANTS
  None = None
  Keys <- A
  Namespaces <- Ns1
  NsOf <- AinNs1
  Specs <- UnsetOrInvalid
  LagCRs <- NoLag
  LagChildren <- NoLag
  Limits <- FaultsLimits
  Together = 8
INVARIANTS TypeOK ProtectedInFlight
PROPERTIES CleanupOnlyForDeleted CleanBeforeRelease DeployedWithPermissions ImplementsContract
CHECK_DEADLOCK FALSE
