SPECIFICATION Spec
CONSTANTS
  Txns = {t1}
  LedgerFaults <- SQLiteFaults
  RecoveryErrors <- Unconditional
INVARIANTS
  NothingCommittedIsHonest
  StillInPlaceIsHonest
  ReceiptMatchesLedger
  NoIllegalTransition
CHECK_DEADLOCK FALSE
