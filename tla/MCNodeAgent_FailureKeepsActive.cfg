SPECIFICATION GatesThenAgent
CONSTANTS
  good = good
  bad = bad
  Config = {good, bad}
  Verifiable = {good}
  Offer <- SmallOffer
  MaxDamage = 2
  TrailLimit = 2
  LocalProcess = FALSE
INVARIANT FailureKeepsActive
