SPECIFICATION Spec
CONSTANTS
  None = None
  Keys <- A
  Namespaces <- Ns1
  NsOf <- AinNs1
  Specs <- OnlyUnset
  LagCRs <- NoLag
  LagChildren <- NoLag
  Limits <- LeakLimits
  Together = 8
INVARIANTS NothingLeftBehind
CHECK_DEADLOCK FALSE
