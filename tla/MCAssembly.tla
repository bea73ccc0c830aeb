----------------------------- MODULE MCAssembly -----------------------------
(***************************************************************************)
(* Lists of items to assemble with the real encoder: single instructions   *)
(* with arguments of every kind, and loops whose body puts the distances   *)
(* of both jumps around the limits of a one-byte offset.                   *)
(***************************************************************************)
EXTENDS Assembly

CONSTANTS A, C      \* two of the names of labels

Nil == [type |-> "nil"]
Label == [type |-> "label"]
Num(type, bytes) == [type |-> type, bytes |-> bytes]
Op(name, x, y, z, l) ==
    [meta |-> CHOOSE m \in opMeta : m.Name = name, args |-> <<x, y, z>>, label |-> l]

Big == <<1, 2, 3, 4, 5, 6, 7, 8>>
Minus == <<254, 255, 255, 255, 255, 255, 255, 255>>
Low == <<0, 0, 0, 0, 0, 0, 0, 128>>

\* Numbers of every width, at the edges of the lengths; each has an unsigned and a
\* signed reading.
Numbers(width) ==
    CASE width = 1 -> {<<1>>, <<127>>, <<128>>, <<255>>}
      [] width = 2 -> {<<1, 0>>, <<255, 127>>, <<254, 255>>}
      [] width = 4 -> {<<1, 0, 1, 0>>, <<254, 255, 255, 255>>}
      [] width = 8 -> {Raw(1), Raw(128), Raw(32768), Big, Minus, Low}

\* Immediates of every type.
Args ==
    {Nil, Label, [type |-> "other"]}
    \cup UNION {{Num(type, bytes) : bytes \in Numbers(Width(type))} : type \in UnsignedTypes \cup SignedTypes}

labelOf(args) == IF \E i \in 1..3 : args[i].type = "label" THEN A ELSE None

OneOp ==
    {<<A, Op(name, x, y, Nil, labelOf(<<x, y, Nil>>))>> :
        name \in {"NOP", "CHOICE", "TANYB", "MATCHB", "FCAP"}, x \in Args, y \in Args}

\* Filler of 122 to 130 bytes: four instructions of 26 bytes, one of 18, 19 or
\* 20, and some of one byte.
Long(times) == Op("TSAMEB", Num("int", Big), Num("uint", Big), times, None)

Filler(times, nops) ==
    [i \in 1..4 |-> Long(Num("uint", Big))] \o <<Long(times)>>
    \o [i \in 1..nops |-> Op("NOP", Nil, Nil, Nil, None)]

Counts == {Nil, Num("int", Raw(129)), Num("int", Raw(257))}

Loop(open, close, body) ==
    <<A, Op(open, Label, Nil, Nil, C)>> \o body \o <<Op(close, Label, Nil, Nil, A), C>>

Loops ==
    {Loop(open, close, Filler(times, nops)) :
        open \in {"CHOICE", "TANYB"}, close \in {"COMMIT", "JMP"}, times \in Counts, nops \in 0..6}

\* A: CHOICE C; 124 bytes; COMMIT A; C: with an offset of two bytes the backward
\* jump is 129 bytes long, with one of one byte 128.
EdgeLoops == {Loop("CHOICE", "COMMIT", Filler(Num("int", Raw(257)), 0))}

OpsAndLoops == OneOp \cup Loops

CONSTANT Scripts    \* the lists of items that may be emitted

VARIABLE script     \* the list that is being emitted

MCCall == UNION {{s[i] : i \in 1 .. Len(s)} : s \in Scripts} \ Name

\* The encoder of opcode.go grows, at the edges of its lengths at least.
EdgeOffsets ==
    {-2147483647, -32769, -32768, -129, -128, -1, 0, 1, 127, 128, 32767, 32768, MaxOffset}

ASSUME Calls == \A c \in Call : IsCall(c)
ASSUME EncoderGrowsAtEdges == EncoderGrows(EdgeOffsets)

ScriptInit == Init /\ script \in Scripts

ScriptNext ==
    /\ \/ /\ N < Len(script)
          /\ \E x \in {script[N + 1]} : IF x \in Name THEN EmitLabel(x) ELSE EmitOp(x)
       \/ Finish
       \/ Fix
    /\ UNCHANGED script

ScriptSpec == ScriptInit /\ [][ScriptNext]_<<vars, script>>
=============================================================================
