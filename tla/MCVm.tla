-------------------------------- MODULE MCVm --------------------------------
EXTENDS Vm

SmallSbrk == {-3, 3}
=============================================================================
