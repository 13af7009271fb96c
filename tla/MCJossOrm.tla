----------------------------- MODULE MCJossOrm -----------------------------
EXTENDS JossOrm, TLC

CONSTANTS r1, r2

Symmetric == Permutations(Runtimes)
=============================================================================
