SPECIFICATION AuditSpec
CONSTANTS
  PerSegment = 2
  MaxSegments = 1
  MaxRecords = 4
  MaxAuditCrashes = 2
  MaxAuditFaults = 0
  TornTails = {}
INVARIANTS
  RecoverySucceeds
CHECK_DEADLOCK FALSE
