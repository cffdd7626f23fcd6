SPECIFICATION Spec
CONSTANTS
  Txns = {t1}
  Fields = {status, tags}
  MaterialFields = {status, tags}
  Values = {a, b}
  Compensable = TRUE
  Absent = Absent
  NoOperation = NoOperation
  NoIfMatch = NoIfMatch
  NoPreflight = NoPreflight
  MaxVersion = 4
  MaxInFlight = 2
SYMMETRY Symmetric
PROPERTIES
  CompensationOverwritesOnlyItsOwn
CHECK_DEADLOCK FALSE
