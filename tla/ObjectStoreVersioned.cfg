SPECIFICATION Spec
CONSTANTS
  k1 = k1
  k2 = k2
  p1 = p1
  p2 = p2
  p3 = p3
  c1 = c1
  c2 = c2
  s1 = s1
  v1 = v1
  v2 = v2
  v3 = v3
  v4 = v4
  Key = {k1}
  Content = {c1, c2}
  Real = {v1, v2, v3, v4}
  None = None
  Proc = {p1, p2}
  NoProc = NoProc
  Stripe = {s1}
  StripeOf <- OneStripe
  InitVersioning = "Enabled"
  Settings = {"Enabled", "Suspended"}
  Kinds = {"put", "delete", "purge", "thumb"}
  MaxRequests = 4
  MaxFaults = 1
  MaxCrashes = 1
SYMMETRY Symmetric
CHECK_DEADLOCK FALSE
INVARIANTS TypeOK OneLatest RealVersionsHaveBytes VersionedReadsAreWhole VariantsMatchTheirSource
PROPERTIES ImplementsWriteOnceVersions VersionsGoOnlyWhenNamed PromotesNewest
