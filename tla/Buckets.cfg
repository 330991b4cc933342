SPECIFICATION FairSpec
CONSTANTS
  k1 = k1
  k2 = k2
  k3 = k3
  c1 = c1
  c2 = c2
  b1 = b1
  b2 = b2
  b3 = b3
  p1 = p1
  p2 = p2
  Key = {k1, k2, k3}
  InDir = {k1, k2}
  Content = {c1, c2}
  Size <- SizeOfContent
  Base = {b1, b2}
  Root = b1
  None = None
  Quotas = {2}
  Proc = {p1, p2}
  Kinds = {"create", "put", "delete", "prefix", "move", "drop", "adminDrop", "forceDrop"}
  Together = {{"put", "delete"}, {"delete", "prefix", "drop", "adminDrop", "forceDrop"}}
  Uncut = {"move"}
  MaxRequests = 4
  MaxFaults = 1
  Ignorable = {"removal", "rollback", "revocation"}
  MaxCrashes = 1
CHECK_DEADLOCK FALSE
INVARIANTS ObjectsAreReachable NoStrayBytes MapMatchesTable
PROPERTIES QuotaOvershootIsBounded BusyBucketsAreReleased
