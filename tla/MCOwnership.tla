--------------------------- MODULE MCOwnership ---------------------------
EXTENDS ProcessOwnership, TLC

CONSTANTS t1, t2, w1, w2, k1

\* Terminal clients are interchangeable where no property is about liveness.
TuisAlike == Permutations(Tuis)
==========================================================================
