SPECIFICATION Spec
CONSTANTS
  j1 = j1  j2 = j2  j3 = j3  s1 = s1  s2 = s2  s3 = s3  a1 = a1  a2 = a2
  NoJob = NoJob  NoRequest = NoRequest
  Jobs <- MCThreeJobs
  Sessions <- MCTwoSessions
  Owners <- MCOneOwner
  SessionOwner <- MCTwoOwned
  Requests <- MCPlain
  MaxForegroundJobs = 0
  MaxBackgroundJobs = 0
  MaxJobsPerAgent = 0
  MaxJobsInMemory = 2
  MaxPendingPerOwner = 1
  MaxPendingTotal = 1
  ConfirmTimeout = FALSE
  Retention = TRUE
  Faults = {"pty"}
SYMMETRY RegistrySymmetry
INVARIANTS
  OneCommandPerShell
  RegistryBounded
  RunningIsListed
