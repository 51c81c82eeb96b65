SPECIFICATION Spec
CONSTANTS
  Admin = {a1}
  User = {u1}
  Plan = {p1}
  Request = {r1, r2}
  Column = {duration, traffic}
  Value = {v1, v2}
  Duration = 1
  MaxTime = 1
  MaxVersions = 2
  MaxTerms = 1
SYMMETRY Symmetry
INVARIANTS
  TypeOK
  TermsWereOffered
  ClosedStaysClosed
PROPERTIES
  NothingSoldOnceArchived
  LostOnlyToOverlap
  AdmittedByLogin
