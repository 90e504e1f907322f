---------------------------- MODULE MCAuthzCache ----------------------------
EXTENDS AuthzCache, TLC
CONSTANTS u1, s1, t1, o1, c1, c2, w1, p1, i1
Symmetry == Permutations({c1, c2})
=============================================================================
