SPECIFICATION Spec
CONSTANTS
  Url = {u1, u2}
  Id = {d1, d2, d3}
  Null = Null
  Deleted = Deleted
  InitialSize = 4
  MaxHash = 1
  Events = {"zero", "heap", "merge", "reload"}
SYMMETRY Symmetry
INVARIANT Findable
CHECK_DEADLOCK FALSE
