--------------------------- MODULE MCUnionForEach ---------------------------
(***************************************************************************)
(* Up to three matchers over three bytes, in every combination.            *)
(***************************************************************************)
EXTENDS UnionForEach

MCFamilies == UNION {[1..k -> SUBSET {0, 7, 255}] : k \in 0..3}
=============================================================================
