SPECIFICATION SecretsSpec
CONSTANTS
  a = a  b = b  i1 = i1  i2 = i2  NoJob = NoJob
  Cmds = {a, b}  Inits <- MCInits  Answered = {a}  Signallers = {a}  MaxAttempts = 1
  NoSecret = NoSecret  NoHandler = NoHandler
  Handlers = {g1, g2}  Names = {n1}  Secrets = {k1, k2}
  AttemptLimit = 2  LiteralCap = 1  MaxServers = 1  MaxSaveFaults = 1  MaxRestarts = 1
INVARIANTS
  InputStaysWithItsCommand
  OneLineOutstanding
  OutputIsItsOwn
  SecretStaysRedacted
  ResetsAllReported
  ThrottleHolds
  SecretsAreCovered
CHECK_DEADLOCK FALSE
