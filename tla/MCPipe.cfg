\* A reader that may be killed and two writers; counters wrap around when the pipe is full.
CONSTANTS
  Reader = {r1}
  Writer = {w1,w2}
  NoProc = none
  Byte = {a,b}
  PIPESIZE = 2
  UINTMOD = 4
  MaxN = 2
  Victims = {r1}
SPECIFICATION FairSpec
INVARIANTS NoUseAfterFree 
PROPERTIES IsFifo CloseEndsCalls 
CHECK_DEADLOCK FALSE  \* everybody may close
