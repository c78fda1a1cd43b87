--------------------------- MODULE MCCallLifetime ---------------------------
(* Instances of CallLifetime for TLC. *)
EXTENDS CallLifetime, TLC

(* The rooms for fetches and for DataRefs are all alike.                   *)
Symmetry == Permutations(Fetches) \cup Permutations(Raws)
=============================================================================
