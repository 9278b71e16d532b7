\* Claims that do not hold (README, section 7): check one at a time, with the
\* constants given beside it.
SPECIFICATION Spec
CONSTANTS
    Entry = {e1, e2}
    None = None
    MaxBody = 2
    MaxGen = 2
    QueueReserve = 32
    ImmediateWriteThreshold = 0
    Events = {}
CHECK_DEADLOCK FALSE
INVARIANT NoUseAfterFree
\* INVARIANT CancelReturns   with Events = {"clear"}
\* INVARIANT CollectInRange
\* INVARIANT QueuedNotActive   with Events = {"clear"}
\* INVARIANT DumpedToDisk   with Events = {"shutdown"}
\* INVARIANT BodyIntact   with Events = {"heap"}
\* INVARIANT UpdatedBodyIntact   with Events = {"update"}
\* PROPERTY CompleteIndexed
\* PROPERTY Drained   with SPECIFICATION FairSpec, Events = {"disk"}
\* INVARIANT FailedRemoved   with Events = {"write"}
