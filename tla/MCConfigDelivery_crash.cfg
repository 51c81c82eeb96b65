SPECIFICATION Spec
CONSTANTS
  Self = n1
  Config = {c1, c2}
  Verifiable = {c1}
  MaxRevision = 2
  MaxReports = 1
  MaxCrashes = 1
INVARIANTS
  AppliedIsHeld
  ActiveAgreement
PROPERTIES
  ImplementsRollout
