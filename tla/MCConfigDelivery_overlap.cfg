SPECIFICATION Spec
CONSTANTS
  Self = n1
  Config = {c1}
  Verifiable = {c1}
  MaxRevision = 2
  MaxReports = 2
  MaxCrashes = 0
INVARIANTS
  PanelActiveIsApplied
  ActiveAgreement
