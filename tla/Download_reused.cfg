SPECIFICATION Spec
CONSTANTS
  u1 = u1
  u2 = u2
  None = None
  Users = {u1}
  Files = {1, 2}
  Selections = {{1}, {2}}
  Projectors = {}
  Speech = {}
  Onnx = {}
  Splits = {}
  Foldered = {}
  Unsized = {}
  Revisions = 1
  Size <- MCSize
  FolderFirst = TRUE
  MaxCommands = 3
  MaxMishaps = 0
CHECK_DEADLOCK FALSE
INVARIANT
  RerunFinishes
