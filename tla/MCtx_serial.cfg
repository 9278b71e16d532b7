SPECIFICATION Spec
CONSTANTS
  Trans = {t1, t2}
  Id = {d1, d2, d3}
  Null = Null
  Chunks = 3
  Events = {"evict", "empty", "fail", "leave"}
SYMMETRY Symmetry
INVARIANTS TableSound BodyWhole HitServed NotModifiedServed
CHECK_DEADLOCK FALSE
