--------------------------- MODULE MCServerManager ---------------------------
EXTENDS ServerManager, TLC
CONSTANTS r1, r2, r3, r4, m1, m2, m3
MCSizes == [m \in Models |-> IF m = m1 THEN {2} ELSE {1}]
MCGrowing == [m \in Models |-> IF m = m3 THEN {1, 3} ELSE {1}]
Symmetry == Permutations(Requests)
MCSameModels == Symmetry \cup Permutations({m1, m2})
=============================================================================
