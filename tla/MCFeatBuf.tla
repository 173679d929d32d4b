------------------------------ MODULE MCFeatBuf ------------------------------
(* FeatBuf for TLC: searches are interchangeable. *)
EXTENDS FeatBuf, TLC

CONSTANTS s1, s2

OneSearch == {s1}
TwoSearches == {s1, s2}
Symmetry == Permutations(Searches)
=============================================================================
