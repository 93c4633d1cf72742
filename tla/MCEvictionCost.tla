--------------------------- MODULE MCEvictionCost ---------------------------
(* Instances of EvictionCost for TLC. *)
EXTENDS EvictionCost

CONSTANTS c1, c2, c3, t1, t2

OneSetting == {<<"manual", 3>>}

Symmetry == Permutations(Checksum) \union Permutations(Thread)
=============================================================================
