SPECIFICATION Spec
CONSTANTS
  Entry = {e1, e2}
  None = None
  MaxBody = 2
  MaxGen = 2
  QueueReserve = 1
  ImmediateWriteThreshold = 0
  Events = {"disk", "write", "heap", "update", "clear", "shutdown", "crash", "shared", "reuse"}
SYMMETRY Symmetry
INVARIANTS TypeOK QueueLinked NeverForgotten SingleWriter
CHECK_DEADLOCK FALSE
