SPECIFICATION Spec
CONSTANTS
  Processes = {p, q, cli}
  Commands = {cli}
  Keys = {k1, k2, k3}
  MaxRestarts = 1
  Nonces = {n1, n2}
  Bindings = {b1, b2}
  Times = {0, 1}
  Ttls <- Lifetimes
  MaxConsumed = 3
  p = p
  q = q
  cli = cli
INVARIANTS
  AuthorityTypeOK
  OneKeyPerName
  ConsumedOncePerLife
  ConsumedAsIssued
  AuthoritiesAgree
SYMMETRY Alike
CHECK_DEADLOCK FALSE
