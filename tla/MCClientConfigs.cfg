SPECIFICATION Spec
CONSTANTS
  n1 = n1
  n2 = n2
  a = a
  b = b
  Subscription = {a, b}
  Node <- MCNode
  RegionOf <- MCRegionOf
  Preference = {"", "us"}
  Limit = {8, 64}
  Mantissa = 3
  Decimals = 2
  MaxRevision = 2
INVARIANTS
  RefusedOnlyByRounding
  ActiveLimitsAreExact
  LinkWorksAfterDeploy
SYMMETRY Symmetry
