\* More blocks than buffers; a process may have two buffers, as write_log() has.
CONSTANTS
  Proc = {p1, p2}
  Block = {1, 2, 3}
  Val = {v0, v1}
  NoBlock = none
  NoBuf = nobuf
  NBUF = 2
  PINMAX = 1
  HOLD = 2
SPECIFICATION Spec
INVARIANTS WaitersServed
PROPERTIES IsBlockStore
SYMMETRY Symmetry
