CONSTANTS
  UnicastLength = 3
  BurstMaxLen = 2
  IsCoordinator = FALSE
  NoLink = NoLink
SPECIFICATION Spec
INVARIANTS
  TypeOK
  LockExcludesTransmission
  TransmissionKeepsItsLink
  CurrentLinkInstalled
  BackupLinkInstalled
  StatusNotLost
  CreditAtMostOneUpdateLate
  ScheduleFollowsAction
  TxLinksCounted
  GetLockNeverRefused
PROPERTIES
  ImplementsLockContract
  ListNotReadMidUpdate
CHECK_DEADLOCK FALSE
