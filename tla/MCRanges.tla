------------------------------ MODULE MCRanges ------------------------------
(***************************************************************************)
(* All lists of up to three ranges over six bytes.                         *)
(***************************************************************************)
EXTENDS Ranges

MCMaxByte == 5

MCLists == UNION {[1..n -> [Lo : 0..MCMaxByte, Hi : 0..MCMaxByte]] : n \in 0..3}

\* 0..1 and 2..3.
TwoAdjacent == {<<[Lo |-> 0, Hi |-> 1], [Lo |-> 2, Hi |-> 3]>>}
=============================================================================
