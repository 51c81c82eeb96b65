SPECIFICATION Spec
CONSTANTS
  Session = {s1, s2}
  PlanDays = 1
  ExtendDays = 2
  Day = 2
  MaxTime = 1
  MaxExpiry = 3
  MaxTokens = 2
  MaxInvites = 2
SYMMETRY Symmetry
INVARIANTS
  TypeOK
  OneActiveEach
  InviteClaimedOnce
  NeverOutlivesSubscription
PROPERTIES
  IssuedWhileActive
  NothingComesBack
  ImplementsHandoff
