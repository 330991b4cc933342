SPECIFICATION Spec
CONSTANTS
  u1 = u1
  u2 = u2
  k1 = k1
  k2 = k2
  p1 = p1
  p2 = p2
  c1 = c1
  c2 = c2
  c3 = c3
  s1 = s1
  s2 = s2
  Upload = {u1, u2}
  Key = {k1, k2}
  Content = {c1, c2, c3}
  Small = {c3}
  None = None
  MaxPart = 2
  Sends <- OneBodyPerPart
  Lists <- ShortLists
  Proc = {p1, p2}
  UploadStripe <- OwnUploadStripe
  KeyStripe <- OwnKeyStripe
  Kinds = {"part", "complete", "abort", "clean"}
  MaxRequests = 4
  MaxFaults = 1
  MaxCrashes = 1
SYMMETRY Symmetric
CHECK_DEADLOCK FALSE
INVARIANTS CompletesOnce CompletedAsValidated ObjectsAreWhole StagedBytesAreReachable
