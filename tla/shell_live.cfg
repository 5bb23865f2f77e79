SPECIFICATION FairSpec
CONSTANTS
  a = a  i1 = i1  i2 = i2  NoJob = NoJob
  Cmds = {a}  Inits <- MCInits  Answered = {a}  Signallers = {a}  MaxAttempts = 2
PROPERTY EveryCommandSettles
CHECK_DEADLOCK FALSE
