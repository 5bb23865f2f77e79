SPECIFICATION Spec
CONSTANTS
  j1 = j1  j2 = j2  j3 = j3  s1 = s1  s2 = s2  s3 = s3  a1 = a1  a2 = a2
  NoJob = NoJob  NoRequest = NoRequest
  Jobs <- MCJobs
  Sessions <- MCSessions
  Owners <- MCOwners
  SessionOwner <- MCSessionOwner
  Requests <- MCAllowed
  MaxForegroundJobs = 1
  MaxBackgroundJobs = 1
  MaxJobsPerAgent = 1
  MaxJobsInMemory = 2
  MaxPendingPerOwner = 1
  MaxPendingTotal = 2
  ConfirmTimeout = FALSE
  Retention = FALSE
  Faults = {"encode", "store", "pty"}
SYMMETRY JobSymmetry
INVARIANTS
  QuotasRespected
  RefusedNeverRuns
  TerminalNeverRuns
