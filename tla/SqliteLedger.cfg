SPECIFICATION FairSpec
CONSTANTS
  Subjects = {s1, s2}
  Calls = {a1, a2, b1, c1, c2}
  Ledgers = {la, lb, lc}
  Processes = {p, q}
  Input <- Inputs
  LedgerOf <- LedgerOfCall
  ProcessOf <- ProcessOfLedger
  Earlier <- Order
  MaxFaults = 1
  MaxCrashes = 1
  a1 = a1
  a2 = a2
  b1 = b1
  c1 = c1
  c2 = c2
  la = la
  lb = lb
  lc = lc
  p = p
  q = q
  s1 = s1
  s2 = s2
INVARIANTS
  TypeOK
  FileAlwaysOpens
PROPERTIES
  ImplementsAppendOnlyLedger
  AppendsSettle
CHECK_DEADLOCK FALSE
