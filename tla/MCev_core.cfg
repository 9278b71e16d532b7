SPECIFICATION Spec
CONSTANTS
  Entry = {e1, e2, e3}
  HeaderLen = {1, 2}
  ChunkLen = {4}
  Size = 12
  ProtectedRef = 2
  RefModulus = 65536
  Word = 1073741824
  MaxBody = 4
  MaxRef = 2
  MaxTime = 1
  Events = {"disk", "restart"}
SYMMETRY Symmetry
INVARIANTS Linked Accounted WithinSize TargetAlive RoomFound
