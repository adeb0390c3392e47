--------------------------- MODULE MCProglogStore ---------------------------
(* The store for TLC: an empty record, one that fits the buffer, and one   *)
(* that is longer than it.                                                 *)
EXTENDS ProglogStore

CONSTANTS p, q, r

MCLengthOf == (p :> 0) @@ (q :> 1) @@ (r :> 5)
=============================================================================
