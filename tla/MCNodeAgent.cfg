SPECIFICATION GatesThenAgent
CONSTANTS
  good = good
  bad = bad
  Config = {good, bad}
  Verifiable = {good}
  Offer <- SmallOffer
  MaxDamage = 2
  TrailLimit = 2
  LocalProcess = TRUE
INVARIANTS
  TypeOK
  ActiveIsVerifiedAndArchived
  VerdictMatchesDisk
  ReadyMeansConsistent
  SameConfigVerdict
  RenderedPassesBoth
PROPERTIES
  SwitchComesLast
