------------------------------- MODULE MCProxy -------------------------------
EXTENDS Proxy, TLC
CONSTANTS r1, r2, r3, b1, b2, b3, m1, m2
Symmetry == Permutations(Requests) \cup Permutations(Backends)
=============================================================================
