-------------------------- MODULE MCFavouritesSrvDb --------------------------
(***************************************************************************)
(* Small instances of FavouritesSrvDb.  "a" is an ordinary name, "A" one    *)
(* that is so long that it is cut to "a" before a postfix is added, "w" a   *)
(* name that the query language reads as a wildcard.                        *)
(***************************************************************************)
EXTENDS FavouritesSrvDb, TLC

MCCut == [b \in Bases |-> IF b = "A" THEN "a" ELSE b]

MCItem(u, p, b) == [uid |-> u, parent |-> p, type |-> "item", name |-> [b |-> b, n |-> 0],
                    ro |-> FALSE, fact |-> FALSE]
MCFolder(u, b) == [MCItem(u, Root, b) EXCEPT !.type = "folder"]

MCNone == {}
MCRef == {MCFolder(1, "a"), MCItem(2, 1, "a")}
MCRefFar == {MCItem(3, Root, "a")}

ASSUME MCSound == ImportSound /\ (RefSound \/ RefTable = MCRefFar)

MCSymmetry == Permutations(Dbs)
=============================================================================
