----------------------------- MODULE MCDownload -----------------------------
EXTENDS Download, TLC
CONSTANTS u1, u2
MCSize == [r \in 1..Revisions |-> [f \in Files |-> IF f = 1 THEN r + 1 ELSE 4 - r]]
Symmetry == Permutations(Users)
=============================================================================
