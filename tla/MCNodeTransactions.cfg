SPECIFICATION TxSpec
CONSTANTS
  Node = {n1}
  Config = {c1, c2}
  Session = {s1, s2}
  ReportedRevision = {2}
  ReportedStatus = {"active", "disabled"}
  ReportedState = {"active_config_ready"}
  MaxRevision = 2
  MaxReports = 2
SYMMETRY Symmetry
INVARIANTS
  TxTypeOK
  NumbersAreASequence
  RollbackRestoresAppliedDeploy
  TokenRegistersOnce
  UnregisteredIsInert
  ReadsStayCurrent
  OnlyReportAndRollbackDeadlock
PROPERTIES
  VerdictIsFinal
  DisabledNodeIsFrozen
  ImplementsPanelNodes
