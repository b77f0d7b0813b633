----------------------------- MODULE MCParallel -----------------------------
EXTENDS Parallel, TLC
CONSTANTS c1, c2, c3, w1, w2, s1, s2, s3
=============================================================================
