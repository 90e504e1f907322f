--------------------------- MODULE MCKitLifecycle ---------------------------
EXTENDS KitLifecycle
CONSTANTS k1, k2, r1, r2, starter
OneEach == [p \in Plans |-> 1]
=============================================================================
