\* Two CPUs; init and its descendants in a table of three slots, one of them used twice.
CONSTANTS
  Cpu = {c0, c1}
  Cpu0 = c0
  NoCpu = nocpu
  NPROC = 3
  MaxPid = 4
  KillPids = {2, 3, 4}
  TICKMOD = 1
  SleepArgs = {}
SPECIFICATION Spec
INVARIANTS StackLive LockHandoff ParentAlive NoMissedExit
