CONSTANTS
  UnicastLength = 2
  BurstMaxLen = 2
  IsCoordinator = FALSE
  NoLink = NoLink
SPECIFICATION FairSpec
PROPERTIES
  PolicyUpdateCompletes
  ImplementsFairLockContract
CHECK_DEADLOCK FALSE
