--------------------------- MODULE MCIntegration ---------------------------
EXTENDS Integration, TLC

CONSTANTS b1, b2, w1, w2, s1, r1, e1
============================================================================
