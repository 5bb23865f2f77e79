SPECIFICATION Spec
CONSTANTS
  m1 = m1  m2 = m2  c1 = c1  c2 = c2  c3 = c3  p1 = p1  s1 = s1  s2 = s2  s3 = s3
  j1 = j1  j2 = j2  j3 = j3  b1 = b1  o1 = o1
  f1 = f1  f2 = f2  h1 = h1  h2 = h2  r1 = r1  r2 = r2  v1 = v1  v2 = v2
  NoMission = NoMission  NoSess = NoSess  NoJob = NoJob  NoCall = NoCall  NoOwner = NoOwner  NoFwd = NoFwd
  NoSnap = NoSnap  NoPlug = NoPlug
  MIds = {m1, m2}  Steps = {p1}  Sess = {s1, s2}  Jobs = {j1}  Calls = {c1, c2, c3}
  MaxMissions = 1  StepStatuses = {"passed", "failed"}  MaxWriteFaults = 1
  PerSegment = 2  MaxSegments = 1  MaxRecords = 7
  MaxAuditCrashes = 2  MaxAuditFaults = 2  TornTails = {"cut"}
  RegJobs = {j1, j2, j3}  MaxInMemory = 2  MaxPersisted = 3  MaxRegCrashes = 1  MaxRegFaults = 1
  Snaps = {m1, m2}  MaxVersion = 3  MaxMishaps = 1
  Cap = 4  MinCapacity = 2  PageLimit = 3  Widths = {1, 2}  MaxBytes = 5
  NSteps = 2
  Plugs = {p1}  PlugCalls = {c1, c2}  CallSlots = 1  MaxBuilds = 3
  FleetRuns = {r1, r2}  Servers = {v1, v2}  Parallelism = 2
INVARIANTS
  EvidenceIsReal
  NoLeakedSession
  IndexFindsMissions
  NothingToLose
  AckedIsKept
  HealthyVerifies
  FileIsCurrent
  OriginalRecoverable
  StreamIsLossless
  RecipeLeavesNothing
  AnswerIsPinned
  FleetPoolBounded
  PublishedIsHeard
  OneDefaultPerOwner
  NothingOutlivesShutdown
PROPERTY
  ImplementsAppendOnlyLog
CHECK_DEADLOCK FALSE
