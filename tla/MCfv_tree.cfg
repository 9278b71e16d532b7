SPECIFICATION Spec
CONSTANTS
    Dbs = {d1}
    Bases = {"a"}
    Cut <- MCCut
    Wild = {}
    Import <- MCNone
    RefTable <- MCRef
    NewBases = {"a"}
    NewPostfix = {0}
    MaxUid = 3
    FlagUids = {1}
    Events = {"restore", "factory", "readonly", "special", "crash", "reuse"}
INVARIANTS TreeSound NamesUnique RestoreComplete
PROPERTY UserItemsKept
