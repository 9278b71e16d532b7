SPECIFICATION Spec
CONSTANTS
  Entry = {e1, e2}
  HeaderLen = {1, 2}
  ChunkLen = {4}
  Size = 7
  ProtectedRef = 1
  RefModulus = 65536
  Word = 1073741824
  MaxBody = 4
  MaxRef = 1
  MaxTime = 1
  Events = {"disk", "create", "header", "clock", "heap", "merge"}
SYMMETRY Symmetry
INVARIANT WithinSize
CHECK_DEADLOCK FALSE
