SPECIFICATION Spec
CONSTANTS
  Entry = {e1, e2, e3}
  None = None
  MaxBody = 2
  MaxGen = 3
  QueueReserve = 32
  ImmediateWriteThreshold = 0
  Events = {"clear", "shared", "reuse"}
SYMMETRY Symmetry
INVARIANT BodyIntact
PROPERTY ReaderUndisturbed
CHECK_DEADLOCK FALSE
