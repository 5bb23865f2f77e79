SPECIFICATION RegistrySpec
CONSTANTS
  j1 = j1  j2 = j2  j3 = j3
  RegJobs = {j1, j2, j3}
  MaxInMemory = 1
  MaxPersisted = 2
  MaxRegCrashes = 2
  MaxRegFaults = 1
INVARIANTS
  LiveJobsSurvive
CHECK_DEADLOCK FALSE
