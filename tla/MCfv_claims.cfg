\* Claims that do not hold (README, section 7): check one at a time, with the
\* constants given beside it.
SPECIFICATION Spec
CONSTANTS
    Dbs = {d1}
    Bases = {"a"}
    Cut <- MCCut
    Wild = {}
    Import <- MCNone
    RefTable <- MCRef
    NewBases = {"a"}
    NewPostfix = {0}
    MaxUid = 3
    FlagUids = {1}
    Events = {"restore"}
INVARIANT RestoreNeverRefused
\* INVARIANT GeneratedUnique   with Bases = {"a", "w"}, Wild = {"w"}, NewBases = {"a", "w"}, MaxUid = 2, Events = {}
\* INVARIANT AllOrphansGo   with MaxUid = 2, Events = {"files", "listing"}
\* INVARIANT NewItemsHaveNoFile   with MaxUid = 2, Events = {"files", "delete"}
\* INVARIANT DeleteIsAtomic   with FlagUids = {3}, Events = {"readonly"}
\* INVARIANT TreeSound   with RefTable <- MCRefFar
