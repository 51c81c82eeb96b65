SPECIFICATION Spec
CONSTANTS
  Node = {n1}
  Config = {c1}
  ReportedRevision = {0}
  ReportedStatus = {"active"}
  ReportedState = {"active_config_ready"}
  MaxRevision = 1
  MaxReports = 1
PROPERTIES
  AppliedMovesActiveRevision
CHECK_DEADLOCK FALSE
