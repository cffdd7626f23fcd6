SPECIFICATION Spec
CONSTANTS
  Txns = {t1, t2}
  Fields = {status}
  MaterialFields = {status}
  Values = {a, b}
  Compensable = TRUE
  Absent = Absent
  NoOperation = NoOperation
  NoIfMatch = NoIfMatch
  NoPreflight = NoPreflight
  MaxVersion = 2
  MaxInFlight = 2
SYMMETRY Symmetric
PROPERTIES
  KeepsPromise
  ForwardLandsOnApprovedState
CHECK_DEADLOCK FALSE
