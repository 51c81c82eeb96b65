SPECIFICATION FairSpec
CONSTANTS
  Session = {s1, s2}
  PlanDays = 1
  ExtendDays = 1
  Day = 1
  MaxTime = 0
  MaxExpiry = 1
  MaxTokens = 1
  MaxInvites = 2
PROPERTIES
  RequestsEnd
