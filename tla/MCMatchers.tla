----------------------------- MODULE MCMatchers -----------------------------
(***************************************************************************)
(* Matchers over four bytes, in two words of two bits.                     *)
(***************************************************************************)
EXTENDS Matchers

MCGiven == {{}, {3}, {0, 1, 2}}

MCGivenRanges == {<<>>, <<[Lo |-> 1, Hi |-> 3]>>, <<[Lo |-> 0, Hi |-> 0], [Lo |-> 2, Hi |-> 3]>>}
=============================================================================
