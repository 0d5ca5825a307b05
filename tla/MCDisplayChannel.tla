--------------------------- MODULE MCDisplayChannel ---------------------------
EXTENDS DisplayChannel

CONSTANTS w1, w2, d1, d2, small, large
================================================================================
