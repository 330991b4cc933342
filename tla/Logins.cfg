SPECIFICATION LoginSpec
CONSTANTS
  p1 = p1
  p2 = p2
  a1 = a1
  a2 = a2
  ann = ann
  bob = bob
  Proc = {p1, p2}
  IP = {a1, a2}
  User = {ann, bob}
  Founders = {ann, bob}
  MaxFails = 3
  Window = 1
  MaxEntries = 3
  TTL = 1
  MaxTime = 2
  Budgets <- Bounds
SYMMETRY Symmetric
CHECK_DEADLOCK FALSE
INVARIANTS GuessesAreBounded SessionsAreCurrent
