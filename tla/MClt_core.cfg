SPECIFICATION Spec
CONSTANTS
  Url = {u1, u2, u3}
  Id = {d1, d2, d3}
  Null = Null
  Deleted = Deleted
  InitialSize = 4
  MaxHash = 1
  Events = {"zero", "reload"}
SYMMETRY Symmetry
INVARIANTS Findable Counted
PROPERTY IndexSpec
CHECK_DEADLOCK FALSE
