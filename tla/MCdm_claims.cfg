\* Claims that do not hold (README, section 7): check one at a time, with the
\* constants given beside it.
SPECIFICATION Spec
CONSTANTS
    Length = 5
    BufferSize = 2
    Actions = {"ifexpired"}
    Settings = {{}}
    MaxVersion = 1
    MaxStarts = 2
    Events = {}
INVARIANT CompletedIsPersisted
\* INVARIANT RunLExpected   with Events = {"suspend"}
\* INVARIANT InProgressGoesOn   with Events = {"efailed"}
\* INVARIANT CardComesBack   with Events = {"media"}
\* INVARIANT CanBeMoved   with Events = {"move"}
\* INVARIANT FileIsPrefix   with Events = {"writefail"}
\* INVARIANT FileIsPrefix   with MaxStarts = 3, Events = {"media", "crash", "absent"}
\* INVARIANT FileIsPrefix   with MaxVersion = 2, Events = {"unvalidated"}
\* INVARIANT MoveGoesOn   with Events = {"move", "crash"}
