----------------------------- MODULE MCAssembler -----------------------------
(***************************************************************************)
(* Lists of items with an encoder that is narrower than the real one, so   *)
(* that a few items reach all its limits.  An offset takes one byte up to  *)
(* -4 and 3, two up to -8 and 7, four up to -12 and 11, and eight (with    *)
(* the second byte of header that eight bytes need) beyond.                *)
(***************************************************************************)
EXTENDS Assembler

NarrowLength(s) ==
    CASE s \in -4..3 -> 1
      [] s \in -8..7 \ -4..3 -> 2
      [] s \in -12..11 \ -8..7 -> 4
      [] OTHER -> 9

NarrowEncode(c, s) ==
    [i \in 1 .. c.size + IF c.label = None THEN 0 ELSE NarrowLength(s) |-> 0]

\* Jumps to either label, another instruction, of two bytes, and one with a bad
\* immediate.
NarrowCalls == [label : Name, size : {1}] \cup [label : {None}, size : {0, 2}]
NarrowAccepts(c) == c.size > 0

\* The proofs apply to this encoder.
ASSUME NarrowEncoderGrows == EncoderGrows(Offsets)
=============================================================================
