\* Claims that do not hold (README, section 7): check one at a time, with the
\* constants given beside it.
SPECIFICATION Spec
CONSTANTS
    Entry = {e1, e2}
    HeaderLen = {1}
    ChunkLen = {4}
    Size = 12
    ProtectedRef = 3
    RefModulus = 65536
    Word = 1073741824
    MaxBody = 4
    MaxRef = 3
    MaxTime = 1
    Events = {}
SYMMETRY Symmetry
CHECK_DEADLOCK FALSE
INVARIANT BucketsAsListed
\* INVARIANT LruOrder
\* INVARIANT Linked   with Events = {"merge"}
\* INVARIANT CandidatesLinked   with Size = 7, Events = {"heap"}
\* PROPERTY LargestGoes   with Entry = {e1, e2, e3}, Size = 11, ProtectedRef = 2, Word = 16, MaxRef = 2, MaxTime = 2
\* INVARIANT RefPositive   with RefModulus = 4, MaxRef = 4
\* PROPERTY GivesUpOnlyIfNone   with Entry = {e1, e2, e3}, Size = 10
\* INVARIANT EnoughMeansFits   with ChunkLen = {4, 5}, Size = 6, MaxBody = 5
\* INVARIANT TargetAlive   with HeaderLen = {1, 2}, Size = 10, Events = {"header"}
\* INVARIANT Accounted   with Events = {"create"}
\* INVARIANT Accounted   with Events = {"merge"}
