\* Two CPUs; the child of init calls sleep(); ticks wraps around at 3.
CONSTANTS
  Cpu = {c0, c1}
  Cpu0 = c0
  NoCpu = nocpu
  NPROC = 2
  MaxPid = 2
  KillPids = {2}
  TICKMOD = 3
  SleepArgs = {2}
SPECIFICATION Spec
INVARIANTS NoMissedTick
