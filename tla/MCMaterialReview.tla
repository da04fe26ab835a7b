--------------------------- MODULE MCMaterialReview ---------------------------
(* Small instances of MaterialReview.                                       *)
EXTENDS MaterialReview, TLC

CONSTANTS v1, v2, v3, r1, r2

Symmetry == Permutations(Versions) \cup Permutations(Requests)
=============================================================================
