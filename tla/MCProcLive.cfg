\* One CPU; three generations that sleep, exit and are killed; ticks wraps around at 2.
CONSTANTS
  Cpu = {c0}
  Cpu0 = c0
  NoCpu = nocpu
  NPROC = 3
  MaxPid = 3
  KillPids = {2}
  TICKMOD = 2
  SleepArgs = {1}
SPECIFICATION FairSpec
PROPERTIES RunnableRuns InitReaps 
