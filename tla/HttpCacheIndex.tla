--------------------------- MODULE HttpCacheIndex ---------------------------
(***************************************************************************)
(* What the cache expects of its lookup table: a set of entries, which     *)
(* only the operations of the cache change, each as it says. How an entry  *)
(* is reached (hashing, probing, tombstones, rehashing) does not show.     *)
(* URLs are compared without case (fold); a response without a body is     *)
(* stored but hidden, so that a URL may get a second entry.                *)
(***************************************************************************)
CONSTANTS Url, Id

VARIABLES fold, entry

(* entry is a function on the stored entries: the URL, whether a transaction
   uses the entry, and whether it has a body. *)
Stored == DOMAIN entry
Same(u, w) == fold[u] = fold[w]
Hidden(e) == ~entry[e].used /\ ~entry[e].body

Put(e, r) == entry' = [f \in Stored \cup {e} |-> IF f = e THEN r ELSE entry[f]]
Set(e, used, body) == Put(e, [url |-> entry[e].url, used |-> used, body |-> body])
Drop(gone) == entry' = [f \in Stored \ gone |-> entry[f]]

Init == fold \in [Url -> Url] /\ entry = [e \in {} |-> TRUE]

(* A URL gets an entry when it has none, or when one of its name is hidden. *)
Insert(e, u) ==
  /\ e \notin Stored
  /\ \/ \A f \in Stored : entry[f].url # u
     \/ \E f \in Stored : Same(entry[f].url, u) /\ Hidden(f)
  /\ Put(e, [url |-> u, used |-> TRUE, body |-> FALSE])

(* The response is complete, with a body or without one. *)
Complete(e, body) ==
  /\ e \in Stored /\ entry[e].used /\ ~entry[e].body
  /\ Set(e, FALSE, body)

(* It is given up: an entry of its URL goes, its own or a namesake's. *)
Abandon(e) ==
  /\ e \in Stored /\ entry[e].used /\ ~entry[e].body
  /\ \E f \in Stored : Same(entry[f].url, entry[e].url) /\ Drop({f})

(* A hit, and its end. *)
Take(e) == e \in Stored /\ ~entry[e].used /\ entry[e].body /\ Set(e, TRUE, TRUE)
Release(e) == e \in Stored /\ entry[e].used /\ entry[e].body /\ Set(e, FALSE, TRUE)

(* An entry goes, or all that are not in use. *)
Remove(e) == e \in Stored /\ ~entry[e].used /\ Drop({e})
Clear == Drop({e \in Stored : ~entry[e].used})

(* The cache is closed and opened again: what has a body comes back. *)
Reopen ==
  entry' = [e \in {f \in Stored : entry[f].body} |-> [url |-> entry[e].url, used |-> FALSE, body |-> TRUE]]

Next ==
  /\ UNCHANGED fold
  /\ \/ \E e \in Id : \/ \E u \in Url : Insert(e, u)
                      \/ \E body \in BOOLEAN : Complete(e, body)
                      \/ Abandon(e) \/ Take(e) \/ Release(e) \/ Remove(e)
     \/ Clear \/ Reopen

Spec == Init /\ [][Next]_<<fold, entry>>
=============================================================================
