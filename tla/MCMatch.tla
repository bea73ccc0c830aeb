------------------------------- MODULE MCMatch -------------------------------
(***************************************************************************)
(* Match for the sample programs of peggyvm_test.go, loaded from their     *)
(* bytes, for all short programs that record captures, and for short       *)
(* programs whose offsets are all forward.                                 *)
(***************************************************************************)
EXTENDS Samples

WordsUpTo(len) == UNION {[1..k -> {Letter.a, Letter.b, Letter.n}] : k \in 0..len}
SampleInputs == WordsUpTo(6)

-----------------------------------------------------------------------------

Instr(code, imm0, imm1) == [Code |-> code, Imm0 |-> imm0, Imm1 |-> imm1, Imm2 |-> 0, Len |-> 1]

CaptureInstrs ==
    {Instr(c, i, 0) : c \in {"BCAP", "ECAP"}, i \in {0, 1}}
    \cup {Instr("FCAP", i, k) : i \in {0, 1, 2}, k \in {0, 1}}
    \cup {Instr("ANYB", 1, 0), Instr("RWNDB", 1, 0), Instr("FAIL", 0, 0), Instr("JMP", -9, 0)}

Five(first, rest) ==
    [Len |-> 5, Ops |-> [xp \in 0..4 |-> IF xp = 0 THEN first ELSE rest[xp]],
     Literals |-> <<>>, ByteSets |-> <<>>, Captures |-> 2]

CapturePrograms ==
    {Five(Instr("CHOICE", to, 0), s) : to \in {1, 3}, s \in [1..4 -> CaptureInstrs]}

ForwardInstrs ==
    {Instr(c, s, 0) : c \in {"CHOICE", "COMMIT", "PCOMMIT"}, s \in {0, 2}}
    \cup {Instr("ANYB", 1, 0), Instr("FAIL", 0, 0), Instr("FAIL2X", 0, 0),
          Instr("RET", 0, 0), Instr("BCOMMIT", 1, 0), Instr("CALL", 0, 0)}

ForwardPrograms == {Five(Instr("CHOICE", 1, 0), s) : s \in [1..4 -> ForwardInstrs]}

MatchFamilies ==
    {[Programs |-> SamplePrograms, Inputs |-> SampleInputs],
     [Programs |-> CapturePrograms, Inputs |-> {<<Letter.a, Letter.n>>}],
     [Programs |-> ForwardPrograms, Inputs |-> {<<Letter.a>>}]}
=============================================================================
