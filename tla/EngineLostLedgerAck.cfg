SPECIFICATION Spec
CONSTANTS
  Txns = {t1}
  LedgerFaults <- PostgresFaults
  RecoveryErrors <- Unconditional
INVARIANTS
  NothingCommittedIsHonest
CHECK_DEADLOCK FALSE
