CONSTANTS
  UnicastLength = 2
  BurstMaxLen = 2
  IsCoordinator = FALSE
  NoLink = NoLink
SPECIFICATION Spec
INVARIANT
  RewardCreditsAction
CHECK_DEADLOCK FALSE
