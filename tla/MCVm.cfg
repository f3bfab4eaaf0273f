CONSTANTS
  p1 = p1
  p2 = p2
  Proc = {p1, p2}
  First = p1
  NPAGES = 12
  PGSIZE = 2
  NPTENTRIES = 2
  KERNBASE = 8
  WORD = 16
  Images = {1}
  SbrkArgs <- SmallSbrk
SPECIFICATION Spec
INVARIANTS OnePlace 
PROPERTIES LossNeedsShortage
