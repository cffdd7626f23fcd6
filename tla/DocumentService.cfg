SPECIFICATION Spec
CONSTANTS
  Keys = {k1, k2}
  Fields = {status}
  Values = {a, b}
  NoOperation = NoOperation
  NoIfMatch = NoIfMatch
  MaxVersion = 3
  MaxInFlight = 2
INVARIANTS
  TypeOK
  VersionsAreDistinct
PROPERTIES
  KeyAppliesOnce
  AnswersAreTrue
