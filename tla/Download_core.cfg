SPECIFICATION Spec
CONSTANTS
  u1 = u1
  u2 = u2
  None = None
  Users = {u1, u2}
  Files = {1, 2, 3, 4}
  Selections = {{1, 2}, {4}}
  Projectors = {3}
  Speech = {4}
  Onnx = {}
  Splits = {{1, 2}}
  Foldered = {1}
  Unsized = {}
  Revisions = 2
  Size <- MCSize
  FolderFirst = TRUE
  MaxCommands = 3
  MaxMishaps = 1
SYMMETRY Symmetry
CHECK_DEADLOCK FALSE
INVARIANTS
  TypeOK
  ServedIsWhole
  SuccessServes
