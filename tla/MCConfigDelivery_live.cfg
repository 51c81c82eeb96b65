SPECIFICATION FairSpec
CONSTANTS
  Self = n1
  Config = {c1}
  Verifiable = {c1}
  MaxRevision = 2
  MaxReports = 1
  MaxCrashes = 0
PROPERTIES
  PendingIsDecided
