----------------------------- MODULE MCShutdown -----------------------------
(* Instances of Shutdown and RefHolders for TLC. *)
EXTENDS Shutdown, TLC

CONSTANTS c1, c2, e1, e2, x, y, t, u

\* Conversions and items turn x into y and back.
Swap(d, how) == IF d = x THEN y ELSE x

Symmetry ==
    Permutations({c1, c2}) \union Permutations({e1, e2})
    \union Permutations({x, y}) \union Permutations({t, u})
=============================================================================
