\* Claims that do not hold (README, section 7): check one at a time, with the
\* constants given beside it.
SPECIFICATION Spec
CONSTANTS
    Url = {u1, u2}
    Id = {d1, d2, d3}
    Null = Null
    Deleted = Deleted
    InitialSize = 4
    MaxHash = 1
    Events = {"zero"}
SYMMETRY Symmetry
CHECK_DEADLOCK FALSE
INVARIANT OneEntryPerUrl
\* PROPERTY EraseIntended
\* INVARIANT SlotsAlive   with Events = {"heap"}
\* INVARIANT HeldAlive   with Events = {"merge"}
\* PROPERTY LeftoversOnly   with Events = {"merge"}
