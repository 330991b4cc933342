SPECIFICATION LifecycleFairSpec
CONSTANTS
  k1 = k1
  k2 = k2
  p1 = p1
  cleaner = cleaner
  c1 = c1
  s1 = s1
  v1 = v1
  v2 = v2
  v3 = v3
  v4 = v4
  Key = {k1, k2}
  Content = {c1}
  Real = {v1, v2, v3, v4}
  None = None
  Proc = {p1, cleaner}
  NoProc = NoProc
  Stripe = {s1}
  StripeOf <- OneStripe
  InitVersioning = "Enabled"
  Settings = {}
  Kinds = {"put", "delete"}
  MaxRequests = 2
  MaxFaults = 1
  MaxCrashes = 0
  Cleaner = cleaner
  Rules = {"current", "noncurrent", "markers"}
  BatchSize = 1
  MaxPasses = 1
  Refusing = {k2}
  ByVersion = FALSE
CHECK_DEADLOCK FALSE
PROPERTIES OnlyExpirationIsVisible PassEnds ExpiredObjectsGo
