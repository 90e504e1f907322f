--------------------------- MODULE MCToolDispatch ---------------------------
EXTENDS ToolDispatch, TLC
CONSTANTS u1, k1, c1, c2, c3, c4
Symmetry == Permutations(Calls)
=============================================================================
