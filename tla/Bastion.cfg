SPECIFICATION FairSpec
CONSTANTS
  People <- Two
  Retries = 2
  Limits <- MCLimits
INVARIANTS TypeOK DeployedWhenReady
PROPERTIES HostKeysStable RerunsComplete RunsEnd
CHECK_DEADLOCK FALSE
