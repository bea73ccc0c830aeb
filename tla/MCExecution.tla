----------------------------- MODULE MCExecution -----------------------------
(***************************************************************************)
(* Families of small programs for Execution: all the programs of a given   *)
(* length over a set of instructions.                                      *)
(***************************************************************************)
EXTENDS Execution

Instr(code, imm0, imm1, imm2) ==
    [Code |-> code, Imm0 |-> imm0, Imm1 |-> imm1, Imm2 |-> imm2, Len |-> 1]

Bad == Instr("BAD", 0, 0, 0)

\* The instructions of seq one after the other.  The bytes inside a longer
\* instruction do not decode.
Load(seq) ==
    LET start[i \in 1 .. Len(seq) + 1] ==
            IF i = 1 THEN 0 ELSE start[i - 1] + seq[i - 1].Len
        n == start[Len(seq) + 1]
    IN  [Len |-> n,
         Ops |-> [xp \in 0 .. n - 1 |->
                    IF \E i \in DOMAIN seq : start[i] = xp
                    THEN seq[CHOOSE i \in DOMAIN seq : start[i] = xp]
                    ELSE Bad],
         Literals |-> <<<<97, 98>>>>,
         ByteSets |-> <<{97}>>,
         Captures |-> 1]

MCMaxU64 == 20
MCInputs == {<<>>, <<97>>, <<97, 98>>, <<97, 97, 98>>}

\* Offsets: out of range below and above, backward, none, forward.
MCOffsets == {-9, -3, 0, 1, 20}

MCInstrs ==
    {Instr(c, s, 0, 0) : c \in {"CHOICE", "COMMIT", "CALL", "PCOMMIT", "BCOMMIT"},
                         s \in MCOffsets}
    \cup {[Instr("JMP", s, 0, 0) EXCEPT !.Len = 2] : s \in MCOffsets}
    \cup {Instr("TANYB", s, 2, 0) : s \in MCOffsets}
    \cup {Instr("TSAMEB", s, 97, 1) : s \in MCOffsets}
    \cup {Instr("TLITB", s, l, 0) : s \in MCOffsets, l \in {0, 1}}
    \cup {Instr("TMATCHB", s, l, 2) : s \in MCOffsets, l \in {0, 1}}
    \cup {Instr(c, 0, 0, 0) : c \in {"NOP", "FAIL", "RET", "FAIL2X", "GIVEUP", "END", "BAD"}}
    \cup {Instr("ANYB", n, 0, 0) : n \in 0 .. 2}
    \cup {Instr("SAMEB", b, n, 0) : b \in {97, 98 + 256}, n \in {1, 2}}
    \cup {Instr(c, i, 1, 0) : c \in {"LITB", "MATCHB", "SPANB", "BCAP", "ECAP"}, i \in {0, 1}}
    \cup {Instr("RWNDB", n, 0, 0) : n \in {1, 2}}
    \cup {Instr("FCAP", i, n, 0) : i \in {0, 1}, n \in {0, 1, 2}}

\* A first instruction that puts something on a stack or consumes a byte,
\* then any two.
MCPrelude == {Instr("CHOICE", 0, 0, 0), Instr("CHOICE", 1, 0, 0), Instr("CALL", 0, 0, 0),
              Instr("BCAP", 0, 0, 0), Instr("ANYB", 1, 0, 0)}

AnyThree == {Load(<<a, b, c>>) : a \in MCPrelude, b \in MCInstrs, c \in MCInstrs}

\* The instructions that move captures and frames about.
BacktrackInstrs ==
    {Instr("CHOICE", s, 0, 0) : s \in {0, 1}}
    \cup {Instr("BCAP", 0, 0, 0), Instr("ANYB", 1, 0, 0), Instr("FAIL", 0, 0, 0),
          Instr("PCOMMIT", -2, 0, 0), Instr("BCOMMIT", 0, 0, 0), Instr("FAIL2X", 0, 0, 0),
          Instr("CALL", 0, 0, 0), Instr("RET", 0, 0, 0)}

BacktrackFive ==
    {Load(<<a, b, c, d, e>>) :
        a \in {Instr("CHOICE", 1, 0, 0), Instr("BCAP", 0, 0, 0), Instr("ANYB", 1, 0, 0)},
        b \in BacktrackInstrs, c \in BacktrackInstrs, d \in BacktrackInstrs,
        e \in BacktrackInstrs}

BacktrackInputs == {<<97>>, <<97, 97>>}

\* A subroutine that returns at once.
CallReturn ==
    {[Programs |-> {Load(<<Instr("CALL", 1, 0, 0), Instr("END", 0, 0, 0), Instr("RET", 0, 0, 0)>>)},
      Inputs |-> {<<97>>}]}
=============================================================================
