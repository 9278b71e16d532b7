SPECIFICATION Spec
CONSTANTS
  Trans = {t1, t2, t3}
  Id = {d1, d2, d3}
  Null = Null
  Chunks = 1
  Events = {"share", "evict", "fail"}
SYMMETRY Symmetry
INVARIANT Released
PROPERTY InUseKept
CHECK_DEADLOCK FALSE
