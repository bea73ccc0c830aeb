--------------------------- MODULE MCDisassembler ---------------------------
(***************************************************************************)
(* Programs for the disassembler: encoded from lists of instructions whose *)
(* immediates lie at the edges of the encoding lengths, whole or cut short *)
(* at every byte.                                                          *)
(***************************************************************************)
EXTENDS Disassembler

Ins(name, v0, v1, v2) ==
    [Meta |-> CHOOSE m \in opMeta : m.Name = name, Imm0 |-> v0, Imm1 |-> v1, Imm2 |-> v2]

One == Raw(1)
Zero == Raw(0)
Two32 == <<0, 0, 0, 0, 1, 0, 0, 0>>
AllBits == [i \in 1..8 |-> 255]

EdgeOffsets == {0, 127, 128, -128, -129, 32767, 32768, -32768, -32769}
EdgeUints == {Raw(v) : v \in {1, 129, 255, 257, 65535, 65537}} \cup {AllBits}

EdgeInstrs ==
    {Ins("JMP", Raw(s), Zero, Zero) : s \in EdgeOffsets}
    \cup {Ins("CHOICE", Raw(s), Zero, Zero) : s \in EdgeOffsets}
    \cup {Ins("ANYB", v, Zero, Zero) : v \in EdgeUints}
    \cup {Ins("LITB", v, Zero, Zero) : v \in EdgeUints \cup {Zero, Two32}}
    \cup {Ins("TSAMEB", Raw(0), Raw(97), v) : v \in EdgeUints}
    \cup {Ins("MATCHB", Two32, v, Zero) : v \in EdgeUints}
    \cup {Ins("FCAP", Two32, v, Zero) : v \in {Zero, AllBits}}
    \cup {Ins("END", Zero, Zero, Zero), Ins("NOP", Zero, Zero, Zero)}

Bytes(instrs) ==
    LET f[k \in 0 .. Len(instrs)] == IF k = 0 THEN <<>> ELSE f[k - 1] \o Encoded(instrs[k])
    IN  f[Len(instrs)]

Prog(instrs, cut, labels) ==
    LET bytes == Bytes(instrs)
    IN  [Bytes |-> SubSeq(bytes, 1, Len(bytes) - cut), Instrs |-> instrs,
         Starts |-> [k \in 1 .. Len(instrs) + 1 |-> Len(Bytes(SubSeq(instrs, 1, k - 1)))],
         Literals |-> 1, ByteSets |-> 1, Captures |-> <<FALSE, TRUE>>, Labels |-> labels]

Cuts == 0..19

EdgePrograms ==
    {Prog(<<i, j>>, cut, <<>>) :
        i \in {Ins("NOP", Zero, Zero, Zero), Ins("CHOICE", Raw(-1), Zero, Zero)},
        j \in EdgeInstrs, cut \in Cuts}

\* Three instructions of two bytes (CHOICE) or three (JMP) with jumps before
\* the program, to its start, into an instruction, to its end and past it.
JumpOffsets == {-9, -5, -3, 0, 2, 3}
JumpInstrs ==
    {Ins("JMP", Raw(s), Zero, Zero) : s \in JumpOffsets}
    \cup {Ins("CHOICE", Raw(s), Zero, Zero) : s \in {-5, -2, 3}}
    \cup {Ins("END", Zero, Zero, Zero)}

MCLabels == {<<>>, <<[Offset |-> 0, Name |-> <<"start", 0>>], [Offset |-> 3, Name |-> <<"mid", 3>>],
                     [Offset |-> 3, Name |-> <<"other", 3>>], [Offset |-> 9, Name |-> <<"end", 9>>]>>}

JumpPrograms ==
    {Prog(<<i, j, k>>, 0, labels) :
        i \in JumpInstrs, j \in JumpInstrs, k \in JumpInstrs, labels \in MCLabels}

\* Bytecode that no encoder wrote: a reserved opcode, a bad immediate length,
\* an immediate that is missing and one that is not expected.
BadBytes == {<<18, 0>>, <<128 + 2 * 9, 0>>, <<132, 7>>, <<16>>, <<4, 3>>, <<0, 16>>}
BadPrograms ==
    {[Prog(<<>>, 0, <<>>) EXCEPT !.Bytes = <<0>> \o b] : b \in BadBytes}

AllPrograms == EdgePrograms \cup JumpPrograms \cup BadPrograms

\* ANYB 2, whose count is or-ed into the default count 1.
CountTwo == {Prog(<<Ins("ANYB", Raw(2), Zero, Zero)>>, 0, <<>>)}
=============================================================================
