SPECIFICATION Spec
CONSTANTS
  k1 = k1
  k2 = k2
  p1 = p1
  p2 = p2
  p3 = p3
  c1 = c1
  c2 = c2
  s1 = s1
  v1 = v1
  v2 = v2
  v3 = v3
  v4 = v4
  Key = {k1, k2}
  Content = {c1, c2}
  Real = {}
  None = None
  Proc = {p1, p2, p3}
  NoProc = NoProc
  Stripe = {s1}
  StripeOf <- OneStripe
  InitVersioning = ""
  Settings = {}
  Kinds = {"put", "delete", "purge", "get", "thumb"}
  MaxRequests = 5
  MaxFaults = 0
  MaxCrashes = 0
SYMMETRY Symmetric
CHECK_DEADLOCK FALSE
INVARIANTS SlotRowsHaveBytes NoOrphanBytes AcknowledgedWritesTookEffect
