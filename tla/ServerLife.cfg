SPECIFICATION LifeFairSpec
CONSTANTS
  m1 = m1
  m2 = m2
  e1 = e1
  e2 = e2
  j1 = j1
  j2 = j2
  h1 = h1
  t1 = t1
  w1 = w1
  w2 = w2
  v1 = v1
  v2 = v2
  Emitter = {m1, m2}
  Front <- S3AndOther
  EventOf <- Events
  JobOf <- ImgJobs
  Event = {e1, e2}
  Job = {j1, j2}
  Hook = {h1}
  Matching <- SomeMatching
  Worker = {w1}
  None = None
  QueueSize = 1
  MaxFaults = 1
  ImgWorker = {v1}
  Transform = {t1}
  NoJob = NoJob
  ImgQueueSize = 1
  Slots = 1
  MayForce = TRUE
  MayFail = TRUE
CHECK_DEADLOCK FALSE
INVARIANTS NeverSendsOnClosedQueue SlotsAreAccountedFor S3EventsAreNeverLate WorkersEndWithTheServer
PROPERTIES NoAttemptAfterAnAnswer AcceptedEventsAreHandled ShutdownCompletes
