--------------------------- MODULE MCBffResource ---------------------------
(* Small instances of BffResource. *)
EXTENDS BffResource

CONSTANTS p1, p2, a, b

(* Every panel selects between the same two entities; one of them is        *)
(* prefetched under the pointer.                                           *)
MCShows == [p \in Panels |-> {a, b}]
=============================================================================
