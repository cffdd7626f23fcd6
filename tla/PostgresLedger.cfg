SPECIFICATION FairSpec
CONSTANTS
  Subjects = {s1, s2}
  Ids = {i1, i2, i3}
  Calls = {a1, a2, b1, b2}
  Input <- Inputs
  Earlier <- WriterOrder
  LockKeys = {k1, k2}
  EventKey <- EventKeys
  SubjectKey <- SubjectKeys
  Readers = {r1}
  LedgerAttempts = 2
  EngineAttempts = 2
  MaxFaults = 1
  a1 = a1
  a2 = a2
  b1 = b1
  b2 = b2
  s1 = s1
  s2 = s2
  i1 = i1
  i2 = i2
  i3 = i3
  k1 = k1
  k2 = k2
  r1 = r1
INVARIANTS
  TypeOK
  ChainsAreContiguous
  IdIsStoredOnce
  ReadersSeeWholeChains
PROPERTIES
  ImplementsAppendOnlyLedger
  AppendsSettle
CHECK_DEADLOCK FALSE
