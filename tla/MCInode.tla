------------------------------ MODULE MCInode ------------------------------
EXTENDS Inode

Symmetry == Permutations(Proc) \cup Permutations(File) \cup Permutations(Val)
=============================================================================
