--------------------------- MODULE MCFavouritesSrv ---------------------------
(* Small instances of FavouritesSrv. *)
EXTENDS FavouritesSrv, TLC

MCSymmetry == Permutations(Clients)
=============================================================================
