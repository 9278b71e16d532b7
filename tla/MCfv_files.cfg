SPECIFICATION Spec
CONSTANTS
    Dbs = {d1, d2}
    Bases = {"a", "A"}
    Cut <- MCCut
    Wild = {}
    Import <- MCNone
    RefTable <- MCRef
    NewBases = {"A"}
    NewPostfix = {0}
    MaxUid = 2
    FlagUids = {1}
    Events = {"files", "delete", "special", "inuse", "listing", "crash"}
SYMMETRY MCSymmetry
INVARIANTS NamesUnique WriterAlone NoOrphanLeft
PROPERTY FilesKept
