------------------------------ MODULE Assembly ------------------------------
(***************************************************************************)
(* The assembler with the encoder of opcode.go: what EmitOp makes of its   *)
(* arguments, and what Op.Decode finds in the bytes that Finish returns.   *)
(*                                                                         *)
(* An argument has its Go type, "nil", "label" (an AsmItem) or "other",    *)
(* and, if it is a number, its bytes, lowest first: one, two, four or, for *)
(* uint and int too (on a machine of 64 bits), eight.                      *)
(***************************************************************************)
EXTENDS Assembler, Bytecode

UnsignedTypes == {"uint", "uint8", "uint16", "uint32", "uint64"}
SignedTypes == {"int", "int8", "int16", "int32", "int64"}

\* How many bytes a number has.
Width(type) ==
    CASE type \in {"uint8", "int8"} -> 1
      [] type \in {"uint16", "int16"} -> 2
      [] type \in {"uint32", "int32"} -> 4
      [] OTHER -> 8

\* The arguments of EmitOp.
IsCall(c) ==
    /\ c.meta \in opMeta
    /\ \A i \in 1..3 : c.args[i].type \in UnsignedTypes \cup SignedTypes =>
                          c.args[i].bytes \in [1 .. Width(c.args[i].type) -> Byte]

Slot(c, i) == CASE i = 1 -> c.meta.Imm0 [] i = 2 -> c.meta.Imm1 [] i = 3 -> c.meta.Imm2

Negative(x) == x.type \in SignedTypes /\ x.bytes[Width(x.type)] >= 128

\* The assertions of the type switch.
acceptsImm(m, x) ==
    CASE x.type = "nil"                        -> m.Type = "None" \/ ~ m.Required
      [] x.type \in UnsignedTypes              -> ~ Signed(m.Type)
      [] x.type \in {"int", "int32"}           -> Signed(m.Type) \/ ~ Negative(x)
      [] x.type \in {"int8", "int16", "int64"} -> Signed(m.Type)
      [] x.type = "label"                      -> m.Type = "CodeOffset"
      [] OTHER                                 -> FALSE

\* ... and "multiple fixups for one op".
AcceptsArgs(c) ==
    /\ \A i \in 1..3 : acceptsImm(Slot(c, i), c.args[i])
    /\ \A i, j \in 1..3 : c.args[i].type = "label" /\ c.args[j].type = "label" => i = j

\* The value in a slot.
Offset64(s) == IF s = MaxOffset THEN <<255, 255, 255, 255, 255, 255, 255, 127>> ELSE Raw(s)

\* A number in a slot of 64 bits, with the bytes above its own.
extended(x, high) == [i \in 1..8 |-> IF i <= Width(x.type) THEN x.bytes[i] ELSE high]

\* Faulty variant: signed numbers are converted as if they were unsigned.
converted_Unsigned(x) == extended(x, 0)

\* "uint64(x)" and "s2u(int64(x))": the sign of a signed type is extended.
converted(x) == extended(x, IF Negative(x) THEN 255 ELSE 0)

value(c, i, s) ==
    LET x == c.args[i]
    IN  CASE x.type = "nil"   -> Default(Slot(c, i))
          [] x.type = "label" -> Offset64(s)
          [] OTHER            -> converted(x)

EncodeArgs(c, s) == Encode(c.meta, value(c, 1, s), value(c, 2, s), value(c, 3, s))

-----------------------------------------------------------------------------

\* An int64 or uint64 is the number x: it shows the bytes of x, which above them
\* has only its sign.
IsNumber(raw, x) ==
    \A j \in 1..8 :
        raw[j] = IF j <= Width(x.type) THEN x.bytes[j] ELSE IF Negative(x) THEN 255 ELSE 0

\* An immediate is what EmitOp was given for slot i of c, or the offset s.
IsArgument(raw, c, i, s) ==
    LET x == c.args[i]
    IN  /\ x.type = "nil" => raw = Default(Slot(c, i))
        /\ x.type = "label" => raw = Offset64(s)
        /\ x.type \in UnsignedTypes \cup SignedTypes => IsNumber(raw, x)

\* Op.Decode, at the address of each op, finds in the bytes of the program the
\* instruction that was emitted: its opcode, its length, and in every slot the
\* argument of EmitOp, a number of any of the ten Go types among them (or the
\* fixed-up offset), unless the or with the slot's default loses it.
CodeDecodes ==
    Done => \A k \in 1..N : IsOp(k) =>
        LET c == List[k]
            d == Decode(Code, XP[k])
            same(i, got) == Survives(Slot(c, i), value(c, i, Imm[k])) => IsArgument(got, c, i, Imm[k])
        IN  /\ d.err = "nil" /\ d.Meta = c.meta /\ d.Len = Len(Bytes(k))
            /\ same(1, d.Imm0) /\ same(2, d.Imm1) /\ same(3, d.Imm2)
=============================================================================
