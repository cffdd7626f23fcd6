SPECIFICATION FairSpec
CONSTANTS
  Txns = {t1}
  LedgerFaults <- AnyFaults
  RecoveryErrors <- Conditional
INVARIANTS
  TypeOK
  DispatchIsJournaled
  RefusedIsNotSent
  CommittedIsVerified
  CompensationIsJustified
  UnknownIsNeverGuessed
  ManualRecoveryIsExplained
  LedgerVerdictsAreTrue
PROPERTIES
  RunsSettle
CHECK_DEADLOCK FALSE
