SPECIFICATION Spec
CONSTANTS
  Definitions <- Definition
  Options <- Calls
  MaxThrows = 1
INVARIANTS
  CertifiedEffectsAreSound
  SoundEffectsAreCertified
  EveryScenarioIsReported
CHECK_DEADLOCK FALSE
