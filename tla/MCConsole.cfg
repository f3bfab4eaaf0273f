CONSTANTS
  c0 = c0
  c1 = c1
  x = x
  NL = NL
  EOF = EOF
  NoCpu = NoCpu
  Cpu = {c0, c1}
  IrqCpu = c0
  Lock = {"cons", "ptable"}
  INPUT_BUF = 2
  UINTMOD = 4
  Char = {x}
  Lengths = {1, 2}
SPECIFICATION Spec
INVARIANTS CliMatched SpinEnds SleepsOnEmpty
PROPERTIES IsLineQueue
