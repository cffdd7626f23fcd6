SPECIFICATION Spec
CONSTANTS
  Txns = {t1}
  LedgerFaults <- InMemoryFaults
  RecoveryErrors <- Conditional
INVARIANTS
  NoIllegalTransition
CHECK_DEADLOCK FALSE
