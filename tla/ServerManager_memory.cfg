SPECIFICATION Spec
CONSTANTS
  r1 = r1
  r2 = r2
  r3 = r3
  r4 = r4
  m1 = m1
  m2 = m2
  m3 = m3
  None = None
  Requests = {r1, r2, r3}
  Models = {m1, m2, m3}
  MaxLoaded = 0
  MaxMemory = 2
  Sizes <- MCGrowing
  Faults = {"crash", "edit"}
SYMMETRY MCSameModels
CHECK_DEADLOCK FALSE
INVARIANTS
  MemoryBudget
