\* Claims that do not hold (README, section 7): check one at a time, with the
\* constants given beside it.
SPECIFICATION Spec
CONSTANTS
    Trans = {t1, t2}
    Id = {d1, d2}
    Null = Null
    Chunks = 2
    Events = {"share"}
SYMMETRY Symmetry
CHECK_DEADLOCK FALSE
INVARIANT BodyWhole
\* INVARIANT NoUseAfterFree   with Chunks = 1, Events = {"evict"}
\* INVARIANT HitServed   with Chunks = 1
\* INVARIANT NotModifiedServed   with Chunks = 1
\* INVARIANT Released   with Chunks = 1, Events = {"leave"}
\* INVARIANT AllReleased   with Chunks = 1, Events = {"share", "empty"}
\* INVARIANT AcceptedServed   with Chunks = 1, Events = {"evict"}
