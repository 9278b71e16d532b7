SPECIFICATION FairSpec
CONSTANTS
  Entry = {e1, e2}
  None = None
  MaxBody = 2
  MaxGen = 3
  QueueReserve = 32
  ImmediateWriteThreshold = 1
  Events = {"write"}
INVARIANT BodyIntact
PROPERTIES ReaderUndisturbed Drained
CHECK_DEADLOCK FALSE
