SPECIFICATION Spec
CONSTANTS
  j1 = j1  j2 = j2  j3 = j3  s1 = s1  s2 = s2  s3 = s3  a1 = a1  a2 = a2
  NoJob = NoJob  NoRequest = NoRequest
  Jobs <- MCJobs
  Sessions <- MCOneSession
  Owners <- MCOneOwner
  SessionOwner <- MCOneOwned
  Requests <- MCEither
  MaxForegroundJobs = 2
  MaxBackgroundJobs = 2
  MaxJobsPerAgent = 0
  MaxJobsInMemory = 2
  MaxPendingPerOwner = 1
  MaxPendingTotal = 1
  ConfirmTimeout = FALSE
  Retention = FALSE
  Faults = {"encode"}
INVARIANTS
  TerminalNeverRuns
