--------------------------- MODULE Samples_proofs ---------------------------
(***************************************************************************)
(* The sample programs of peggyvm_test.go mean their regular expressions,  *)
(* for inputs of any length: their bytes are decoded, every step of the    *)
(* machine is followed along an invariant that says where the program is   *)
(* in the word, and Match's loop turns the marks into the captures.        *)
(***************************************************************************)
EXTENDS Samples, TLAPS, WellFoundedInduction

-----------------------------------------------------------------------------
(* The bytes of the samples. *)

\* The immediate that Op.Decode reads from the k bytes after i.
Immediate(m, s, i, k, v) ==
    LET imm == BC!ImmDecode(m, SubSeq(s, i + 1, i + k))
    IN  imm.err = "nil" /\ v = IF BC!Signed(m.Type) THEN BC!AsInt(imm.value)
          ELSE BC!AsUint(imm.value)

\* Byte-wise or with the zero default.
LEMMA OrZero == \A x \in Byte : BC!Or8(0, x) = x
  BY DEF BC!Or8, Byte

\* An immediate of no bytes has its default.
LEMMA NoImmediate ==
    ASSUME NEW s \in Seq(Byte), NEW i \in Nat
    PROVE  Immediate(BC!none, s, i, 0, 0) /\ Immediate(BC!count, s, i, 0, 1)
<1>1. SubSeq(s, i + 1, i + 0) = <<>>
  OBVIOUS
<1>2. ~ BC!Signed("None") /\ ~ BC!Signed("Count")
  BY DEF BC!Signed
<1>3. Immediate(BC!none, s, i, 0, 0)
  BY <1>1, <1>2 DEF Immediate, BC!ImmDecode, BC!none, BC!Default, BC!AsUint, BC!Horner
<1>4. Immediate(BC!count, s, i, 0, 1)
  BY <1>1, <1>2 DEF Immediate, BC!ImmDecode, BC!count, BC!optional, BC!Default, BC!AsUint, BC!Horner
<1> QED
  BY <1>3, <1>4

\* The slice of one byte.
LEMMA OneByte ==
    ASSUME NEW s \in Seq(Byte), NEW n \in 1 .. Len(s)
    PROVE  SubSeq(s, n, n) = <<s[n]>> /\ s[n] \in Byte
<1>1. s[n] \in Byte
  OBVIOUS
<1> DEFINE t == SubSeq(s, n, n)
           u == <<s[n]>>
<1>2. t \in Seq(Byte)
  OBVIOUS
<1>3. Len(t) = 1
  OBVIOUS
<1>4. t[1] = s[n]
  OBVIOUS
<1>5. u \in Seq(Byte) /\ Len(u) = 1 /\ u[1] = s[n]
  BY <1>1
<1> HIDE DEF t, u
<1>6. t = u
  BY <1>2, <1>3, <1>4, <1>5
<1> QED
  BY <1>1, <1>6 DEF t, u

\* An immediate of one byte: a code offset is sign-extended.
LEMMA ByteImmediate ==
    ASSUME NEW s \in Seq(Byte), NEW i \in Nat, i < Len(s), NEW type,
           type \in {"CodeOffset", "Byte", "LiteralIdx", "CaptureIdx", "Count"},
           NEW v, v = IF type = "CodeOffset" /\ s[i + 1] >= 128 THEN s[i + 1] - 256 ELSE s[i + 1]
    PROVE  Immediate(BC!required(type), s, i, 1, v)
<1> DEFINE m == BC!required(type)
           x == s[i + 1]
           high == IF type = "CodeOffset" /\ x >= 128 THEN 255 ELSE 0
           value == [k \in 1 .. 8 |-> IF k = 1 THEN x ELSE high]
<1>1. SubSeq(s, i + 1, i + 1) = <<x>> /\ x \in Byte
  <2>1. i + 1 \in 1 .. Len(s)
    OBVIOUS
  <2> QED
    BY <2>1, OneByte
<1>2. /\ m.Type = type /\ m.Required /\ m.PackedDefault = 0 /\ type # "None"
      /\ (BC!Signed(type) <=> type = "CodeOffset")
  BY DEF BC!required, BC!Signed
<1>6. v = IF type = "CodeOffset" /\ x >= 128 THEN x - 256 ELSE x
  OBVIOUS
<1> HIDE DEF m, x
<1>3. BC!Default(m) = [k \in 1 .. 8 |-> 0]
  BY <1>2 DEF BC!Default
<1>4. high \in Byte
  BY DEF Byte
<1>5. BC!ImmDecode(m, <<x>>) = [value |-> value, err |-> "nil"]
  <2>1. BC!ImmDecode(m, <<x>>) =
           [value |-> [k \in 1 .. 8 |-> BC!Or8(BC!Default(m)[k], IF k <= 1 THEN <<x>>[k]
             ELSE high)],
            err |-> "nil"]
    BY <1>2, SMTT(40) DEF BC!ImmDecode
  <2>2. \A k \in 1 .. 8 : BC!Or8(BC!Default(m)[k], IF k <= 1 THEN <<x>>[k] ELSE high) = value[k]
    BY <1>1, <1>3, <1>4, OrZero
  <2> QED
    BY <2>1, <2>2, Zenon
<1>7. /\ value[1] = x /\ value[2] = high /\ value[3] = high /\ value[4] = high
      /\ value[5] = high /\ value[6] = high /\ value[7] = high /\ value[8] = high
  OBVIOUS
<1> HIDE DEF value
<1>8. v = IF BC!Signed(type) THEN BC!AsInt(value) ELSE BC!AsUint(value)
  <2>1. CASE type = "CodeOffset" /\ x >= 128
    <3>1. high = 255
      BY <2>1
    <3> QED
      BY <1>1, <1>2, <1>6, <1>7, <2>1, <3>1 DEF BC!AsInt, BC!Horner, Byte
  <2>2. CASE ~ (type = "CodeOffset" /\ x >= 128)
    <3>1. high = 0
      BY <2>2
    <3> QED
      BY <1>1, <1>2, <1>6, <1>7, <2>2, <3>1 DEF BC!AsInt, BC!AsUint, BC!Horner, Byte
  <2> QED
    BY <2>1, <2>2
<1>9. SubSeq(s, i + 1, i + 1) = <<x>> /\ m.Type = type
  BY <1>1, <1>2
<1>10. \A r : r = [value |-> value, err |-> "nil"] => r.value = value /\ r.err = "nil"
  OBVIOUS
<1>11. Immediate(m, s, i, 1, v)
  BY <1>5, <1>8, <1>9, <1>10, Zenon DEF Immediate
<1> QED
  BY <1>11 DEF m

\* An instruction with at most two immediates.
Op2(code, imm0, imm1, len) == [Code |-> code, Imm0 |-> imm0, Imm1 |-> imm1, Imm2 |-> 0, Len |-> len]

\* At xp there is an instruction with a header of h bytes and n0 and n1 bytes of
\* immediates, whose values are v0, v1 and v2.
Readable(s, xp, h, n0, n1, meta, v0, v1, v2) ==
    /\ meta \in BC!opMeta /\ BC!MetaOf(meta.Code) = meta /\ ~ meta.Illegal
    /\ xp + h + n0 + n1 <= Len(s)
    /\ BC!Wide(s[xp + 1]) <=> h = 2
    /\ BC!Fields(s[xp + 1], s[xp + 2]) = <<meta.Code, n0, n1, 0>>
    /\ Immediate(meta.Imm0, s, xp + h, n0, v0)
    /\ Immediate(meta.Imm1, s, xp + h + n0, n1, v1)
    /\ Immediate(meta.Imm2, s, xp + h + n0 + n1, 0, v2)

\* Op.Decode, for an instruction that is Readable.
LEMMA DecodesTo ==
    ASSUME NEW s \in Seq(Byte), NEW xp \in Nat, NEW h \in 1..2, NEW n0 \in 0..1, NEW n1 \in 0..1,
           NEW meta, NEW v0, NEW v1, NEW v2, Readable(s, xp, h, n0, n1, meta, v0, v1, v2)
    PROVE  DecodeAt(s, xp) = [Code |-> meta.Name, Imm0 |-> v0, Imm1 |-> v1, Imm2 |-> v2,
                              Len |-> h + n0 + n1]
<1> DEFINE i == xp + h
           f == <<meta.Code, n0, n1, 0>>
           imm0 == BC!ImmDecode(meta.Imm0, SubSeq(s, i + 1, i + n0))
           imm1 == BC!ImmDecode(meta.Imm1, SubSeq(s, i + n0 + 1, i + n0 + n1))
           imm2 == BC!ImmDecode(meta.Imm2, SubSeq(s, i + n0 + n1 + 1, i + n0 + n1 + 0))
           value(m, v) == IF BC!Signed(m.Type) THEN BC!AsInt(v) ELSE BC!AsUint(v)
           op == [err |-> "nil", Meta |-> meta, Imm0 |-> imm0.value, Imm1 |-> imm1.value,
                  Imm2 |-> imm2.value, Len |-> h + n0 + n1]
<1>0. /\ BC!MetaOf(meta.Code) = meta /\ ~ meta.Illegal /\ xp + h + n0 + n1 <= Len(s)
      /\ BC!Wide(s[xp + 1]) <=> h = 2
      /\ BC!Fields(s[xp + 1], s[xp + 2]) = <<meta.Code, n0, n1, 0>>
  BY Zenon DEF Readable
<1>1. /\ imm0.err = "nil" /\ v0 = value(meta.Imm0, imm0.value)
      /\ imm1.err = "nil" /\ v1 = value(meta.Imm1, imm1.value)
      /\ imm2.err = "nil" /\ v2 = value(meta.Imm2, imm2.value)
  BY Zenon DEF Immediate, Readable
<1>2. /\ f[1] = meta.Code /\ f[2] = n0 /\ f[3] = n1 /\ f[4] = 0
      /\ BC!ImmLengthDecode[f[2] + 1] = n0 /\ BC!ImmLengthDecode[f[3] + 1] = n1
      /\ BC!ImmLengthDecode[f[4] + 1] = 0
  BY DEF BC!ImmLengthDecode
<1>3. i + n0 + n1 + 0 <= Len(s) /\ i + n0 + n1 + 0 - xp = h + n0 + n1 /\ Len(s) \in Nat
  BY <1>0
<1> HIDE DEF imm0, imm1, imm2, f
<1>4. BC!DecodeImms(s, xp, i, f) = op
  BY <1>0, <1>1, <1>2, <1>3, SMTT(90) DEF BC!DecodeImms, imm0, imm1, imm2
<1>5. BC!Decode(s, xp) = op
  <2>1. i = xp + (IF BC!Wide(s[xp + 1]) THEN 2 ELSE 1)
    BY <1>0
  <2>2. xp < Len(s) /\ (BC!Wide(s[xp + 1]) => xp + 1 < Len(s)) /\ Len(s) \in Nat
    BY <1>0
  <2>3. BC!Fields(s[xp + 1], s[xp + 2]) = f
    BY <1>0 DEF f
  <2> HIDE DEF i
  <2> QED
    BY <1>2, <1>4, <2>1, <2>2, <2>3, SMTT(30) DEF BC!Decode
<1> HIDE DEF i, value
<1>6. op.err = "nil" /\ op.Meta = meta /\ op.Imm0 = imm0.value /\ op.Imm1 = imm1.value
        /\ op.Imm2 = imm2.value
      /\ op.Len = h + n0 + n1
  OBVIOUS
<1> HIDE DEF op
<1> QED
  BY <1>1, <1>5, <1>6 DEF DecodeAt, value

\* The table has one entry for an opcode, and none of them is illegal.
LEMMA TableEntry ==
    ASSUME NEW m \in BC!opMeta
    PROVE  BC!MetaOf(m.Code) = m /\ ~ m.Illegal
<1>1. ~ m.Illegal
  BY DEF BC!opMeta, BC!Meta
<1>2. \A n \in BC!opMeta : n.Code = m.Code => n = m
  <2>1. \A code, name, imm0, imm1, imm2 : BC!Meta(code, name, imm0, imm1, imm2).Code = code
    BY DEF BC!Meta
  <2> QED
    BY <2>1 DEF BC!opMeta
<1> QED
  BY <1>1, <1>2 DEF BC!MetaOf

\* The value of an immediate of n bytes after i, by its kind.
ValueOf(m, s, i, n) ==
    IF n = 0 THEN IF m = BC!count THEN 1 ELSE 0
    ELSE IF m.Type = "CodeOffset" /\ s[i + 1] >= 128 THEN s[i + 1] - 256 ELSE s[i + 1]

\* The kinds of immediates that may be omitted, and that may have one byte.
Omitted == {BC!none, BC!count}
Explicit == {BC!required(type) : type \in {"CodeOffset", "Byte", "LiteralIdx", "CaptureIdx",
  "Count"}}

\* What an immediate of at most one byte is.
LEMMA ImmediateIs ==
    ASSUME NEW s \in Seq(Byte), NEW i \in Nat, NEW n \in 0..1, i + n <= Len(s), NEW m,
           n = 0 => m \in Omitted, n = 1 => m \in Explicit
    PROVE  Immediate(m, s, i, n, ValueOf(m, s, i, n))
<1>1. CASE n = 0
  <2>1. BC!none # BC!count
    BY DEF BC!none, BC!count, BC!optional
  <2> QED
    BY <1>1, <2>1, NoImmediate DEF ValueOf, Omitted
<1>2. CASE n = 1
  <2>1. PICK type \in {"CodeOffset", "Byte", "LiteralIdx", "CaptureIdx", "Count"} : m =
               BC!required(type)
    BY <1>2 DEF Explicit
  <2>2. m.Type = type
    BY <2>1 DEF BC!required
  <2>3. ValueOf(m, s, i, 1) = IF type = "CodeOffset" /\ s[i + 1] >= 128 THEN s[i + 1] - 256
          ELSE s[i + 1]
    BY <2>2 DEF ValueOf
  <2>4. i < Len(s)
    BY <1>2
  <2> QED
    BY <1>2, <2>1, <2>3, <2>4, ByteImmediate, Zenon
<1> QED
  BY <1>1, <1>2

\* At xp a header of h bytes starts, for the opcode code, with n0 and n1 bytes of
\* immediates.
HeaderAt(s, xp, h, code, n0, n1) ==
    /\ xp + h + n0 + n1 <= Len(s)
    /\ BC!Wide(s[xp + 1]) <=> h = 2
    /\ BC!Fields(s[xp + 1], s[xp + 2]) = <<code, n0, n1, 0>>

\* An instruction is read from its header and its entry in the table.
LEMMA Reads ==
    ASSUME NEW s \in Seq(Byte), NEW xp \in Nat, NEW h \in 1..2, NEW n0 \in 0..1, NEW n1 \in 0..1,
           NEW code, NEW name, NEW imm0, NEW imm1,
           HeaderAt(s, xp, h, code, n0, n1),
           BC!Meta(code, name, imm0, imm1, BC!none) \in BC!opMeta,
           n0 = 0 => imm0 \in Omitted, n0 = 1 => imm0 \in Explicit,
           n1 = 0 => imm1 \in Omitted, n1 = 1 => imm1 \in Explicit
    PROVE  DecodeAt(s, xp) = Op2(name, ValueOf(imm0, s, xp + h, n0),
                                 ValueOf(imm1, s, xp + h + n0, n1), h + n0 + n1)
<1> DEFINE meta == BC!Meta(code, name, imm0, imm1, BC!none)
           v0 == ValueOf(imm0, s, xp + h, n0)
           v1 == ValueOf(imm1, s, xp + h + n0, n1)
<1> HIDE DEF meta, v0, v1
<1>1. /\ meta.Code = code /\ meta.Name = name /\ meta.Imm0 = imm0 /\ meta.Imm1 = imm1
      /\ meta.Imm2 = BC!none
  BY DEF BC!Meta, meta
<1>6. meta \in BC!opMeta
  BY DEF meta
<1>2. BC!MetaOf(meta.Code) = meta /\ ~ meta.Illegal
  BY <1>6, TableEntry
<1>3. /\ xp + h + n0 + n1 <= Len(s) /\ (BC!Wide(s[xp + 1]) <=> h = 2)
      /\ BC!Fields(s[xp + 1], s[xp + 2]) = <<meta.Code, n0, n1, 0>>
  BY <1>1, Zenon DEF HeaderAt
<1>4. /\ xp + h \in Nat /\ xp + h + n0 \in Nat /\ xp + h + n0 + n1 \in Nat /\ xp + h + n0 <= Len(s)
  BY <1>3
<1>5. /\ Immediate(imm0, s, xp + h, n0, v0) /\ Immediate(imm1, s, xp + h + n0, n1, v1)
      /\ Immediate(BC!none, s, xp + h + n0 + n1, 0, 0)
  BY <1>3, <1>4, ImmediateIs, NoImmediate, Zenon DEF v0, v1
<1>7. DecodeAt(s, xp) = [Code |-> meta.Name, Imm0 |-> v0, Imm1 |-> v1, Imm2 |-> 0,
                         Len |-> h + n0 + n1]
  <2>1. /\ Immediate(meta.Imm0, s, xp + h, n0, v0) /\ Immediate(meta.Imm1, s, xp + h + n0, n1, v1)
        /\ Immediate(meta.Imm2, s, xp + h + n0 + n1, 0, 0)
    BY <1>1, <1>5, Zenon
  <2>2. Readable(s, xp, h, n0, n1, meta, v0, v1, 0)
    BY <1>2, <1>3, <1>6, <2>1, Zenon DEF Readable
  <2> QED
    BY <2>2, DecodesTo
<1> QED
  BY <1>1, <1>7 DEF Op2, v0, v1

\* The kinds of immediates that the samples use.
LEMMA Kinds ==
    /\ {BC!count, BC!none} \subseteq Omitted
    /\ {BC!offset, BC!required("Byte"), BC!required("LiteralIdx"), BC!required("CaptureIdx"),
        BC!required("Count")} \subseteq Explicit
    /\ BC!none # BC!count /\ BC!offset.Type = "CodeOffset" /\ BC!required("Byte").Type = "Byte"
    /\ BC!required("LiteralIdx").Type = "LiteralIdx"
         /\ BC!required("CaptureIdx").Type = "CaptureIdx"
    /\ BC!required("Count").Type = "Count"
<1>1. BC!offset = BC!required("CodeOffset")
  BY DEF BC!offset
<1> QED
  BY <1>1 DEF Omitted, Explicit, BC!none, BC!count, BC!required, BC!optional

\* The entries of the table that the sample programs use.
LEMMA Used ==
    /\ BC!Meta(1, "CHOICE", BC!offset, BC!none, BC!none) \in BC!opMeta
    /\ BC!Meta(2, "COMMIT", BC!offset, BC!none, BC!none) \in BC!opMeta
    /\ BC!Meta(4, "ANYB", BC!count, BC!none, BC!none) \in BC!opMeta
    /\ BC!Meta(5, "SAMEB", BC!required("Byte"), BC!count, BC!none) \in BC!opMeta
    /\ BC!Meta(6, "LITB", BC!required("LiteralIdx"), BC!none, BC!none) \in BC!opMeta
    /\ BC!Meta(8, "JMP", BC!offset, BC!none, BC!none) \in BC!opMeta
    /\ BC!Meta(19, "FAIL2X", BC!none, BC!none, BC!none) \in BC!opMeta
    /\ BC!Meta(21, "FCAP", BC!required("CaptureIdx"), BC!required("Count"), BC!none) \in BC!opMeta
    /\ BC!Meta(22, "BCAP", BC!required("CaptureIdx"), BC!none, BC!none) \in BC!opMeta
    /\ BC!Meta(23, "ECAP", BC!required("CaptureIdx"), BC!none, BC!none) \in BC!opMeta
    /\ BC!Meta(63, "END", BC!none, BC!none, BC!none) \in BC!opMeta
  BY ZenonT(40) DEF BC!opMeta

\* What Op.Decode and the reading of its immediates make of the bytes at xp.
Decodes(s, xp, op) == DecodeAt(s, xp) = op

\* Instructions without explicit immediates.
LEMMA ReadsBare ==
    ASSUME NEW s \in Seq(Byte), NEW xp \in Nat, xp + 1 <= Len(s)
    PROVE  /\ s[xp + 1] = 64 => Decodes(s, xp, Op2("ANYB", 1, 0, 1))
           /\ xp + 2 <= Len(s) /\ s[xp + 1] = 166 /\ s[xp + 2] = 0
                => Decodes(s, xp, Op2("FAIL2X", 0, 0, 2))
<1>1. CASE s[xp + 1] = 64
  <2>1. HeaderAt(s, xp, 1, 4, 0, 0)
    BY <1>1 DEF HeaderAt, BC!Wide, BC!Fields
  <2>2. DecodeAt(s, xp) = Op2("ANYB", ValueOf(BC!count, s, xp + 1, 0),
          ValueOf(BC!none, s, xp + 1 + 0, 0), 1 + 0 + 0)
    BY <2>1, Kinds, Used, Reads
  <2> QED
    BY <1>1, <2>2, Kinds DEF ValueOf, Decodes
<1>2. CASE xp + 2 <= Len(s) /\ s[xp + 1] = 166 /\ s[xp + 2] = 0
  <2>1. HeaderAt(s, xp, 2, 19, 0, 0)
    BY <1>2 DEF HeaderAt, BC!Wide, BC!Fields
  <2>2. DecodeAt(s, xp) = Op2("FAIL2X", ValueOf(BC!none, s, xp + 2, 0),
          ValueOf(BC!none, s, xp + 2 + 0, 0), 2 + 0 + 0)
    BY <2>1, Kinds, Used, Reads
  <2> QED
    BY <1>2, <2>2, Kinds DEF ValueOf, Decodes
<1> QED
  BY <1>1, <1>2

\* The header of END.
EndHeader(a, b) == a = 254 /\ b = 0

\* The instruction that ends a program.
LEMMA ReadsEnd ==
    ASSUME NEW s \in Seq(Byte), NEW xp \in Nat, xp + 2 <= Len(s), EndHeader(s[xp + 1], s[xp + 2])
    PROVE  Decodes(s, xp, Op2("END", 0, 0, 2))
<1>1. HeaderAt(s, xp, 2, 63, 0, 0)
  BY DEF EndHeader, HeaderAt, BC!Wide, BC!Fields
<1>2. DecodeAt(s, xp) = Op2("END", ValueOf(BC!none, s, xp + 2, 0),
        ValueOf(BC!none, s, xp + 2 + 0, 0), 2 + 0 + 0)
  BY <1>1, Kinds, Used, Reads
<1> QED
  BY <1>2, Kinds DEF ValueOf, Decodes

\* A byte as a signed number.
SignedByte(x) == IF x >= 128 THEN x - 256 ELSE x

\* Instructions with a one-byte header and one immediate.
LEMMA ReadsShort ==
    ASSUME NEW s \in Seq(Byte), NEW xp \in Nat, xp + 2 <= Len(s)
    PROVE  /\ s[xp + 1] = 20 => Decodes(s, xp, Op2("CHOICE", SignedByte(s[xp + 2]), 0, 2))
           /\ s[xp + 1] = 36 => Decodes(s, xp, Op2("COMMIT", SignedByte(s[xp + 2]), 0, 2))
           /\ s[xp + 1] = 84 => Decodes(s, xp, Op2("SAMEB", s[xp + 2], 1, 2))
           /\ s[xp + 1] = 100 => Decodes(s, xp, Op2("LITB", s[xp + 2], 0, 2))
<1>0. xp + 1 + 1 = xp + 2 /\ 1 + 1 + 0 = 2
  OBVIOUS
<1>1. CASE s[xp + 1] = 20
  <2>1. HeaderAt(s, xp, 1, 1, 1, 0)
    BY <1>1 DEF HeaderAt, BC!Wide, BC!Fields
  <2>2. DecodeAt(s, xp) = Op2("CHOICE", ValueOf(BC!offset, s, xp + 1, 1),
          ValueOf(BC!none, s, xp + 1 + 1, 0), 1 + 1 + 0)
    BY <2>1, Kinds, Used, Reads
  <2> QED
    BY <1>0, <1>1, <2>2, Kinds DEF ValueOf, Decodes, SignedByte
<1>2. CASE s[xp + 1] = 36
  <2>1. HeaderAt(s, xp, 1, 2, 1, 0)
    BY <1>2 DEF HeaderAt, BC!Wide, BC!Fields
  <2>2. DecodeAt(s, xp) = Op2("COMMIT", ValueOf(BC!offset, s, xp + 1, 1),
          ValueOf(BC!none, s, xp + 1 + 1, 0), 1 + 1 + 0)
    BY <2>1, Kinds, Used, Reads
  <2> QED
    BY <1>0, <1>2, <2>2, Kinds DEF ValueOf, Decodes, SignedByte
<1>3. CASE s[xp + 1] = 84
  <2>1. HeaderAt(s, xp, 1, 5, 1, 0)
    BY <1>3 DEF HeaderAt, BC!Wide, BC!Fields
  <2>2. DecodeAt(s, xp) = Op2("SAMEB", ValueOf(BC!required("Byte"), s, xp + 1, 1),
          ValueOf(BC!count, s, xp + 1 + 1, 0), 1 + 1 + 0)
    BY <2>1, Kinds, Used, Reads
  <2> QED
    BY <1>0, <1>3, <2>2, Kinds DEF ValueOf, Decodes
<1>4. CASE s[xp + 1] = 100
  <2>1. HeaderAt(s, xp, 1, 6, 1, 0)
    BY <1>4 DEF HeaderAt, BC!Wide, BC!Fields
  <2>2. DecodeAt(s, xp) = Op2("LITB", ValueOf(BC!required("LiteralIdx"), s, xp + 1, 1),
          ValueOf(BC!none, s, xp + 1 + 1, 0), 1 + 1 + 0)
    BY <2>1, Kinds, Used, Reads
  <2> QED
    BY <1>0, <1>4, <2>2, Kinds DEF ValueOf, Decodes
<1> QED
  BY <1>1, <1>2, <1>3, <1>4

\* Instructions with a two-byte header and one or two immediates.
LEMMA ReadsWide ==
    ASSUME NEW s \in Seq(Byte), NEW xp \in Nat, xp + 3 <= Len(s)
    PROVE  /\ s[xp + 1] = 144 /\ s[xp + 2] = 64
             => Decodes(s, xp, Op2("JMP", SignedByte(s[xp + 3]), 0, 3))
           /\ s[xp + 1] = 172 /\ s[xp + 2] = 64 => Decodes(s, xp, Op2("BCAP", s[xp + 3], 0, 3))
           /\ s[xp + 1] = 174 /\ s[xp + 2] = 64 => Decodes(s, xp, Op2("ECAP", s[xp + 3], 0, 3))
           /\ xp + 4 <= Len(s) /\ s[xp + 1] = 170 /\ s[xp + 2] = 72 =>
                Decodes(s, xp, Op2("FCAP", s[xp + 3], s[xp + 4], 4))
<1>0. xp + 2 + 1 = xp + 3 /\ xp + 2 + 1 + 1 = xp + 4 /\ 2 + 1 + 0 = 3 /\ 2 + 1 + 1 = 4
  OBVIOUS
<1>1. CASE s[xp + 1] = 144 /\ s[xp + 2] = 64
  <2>1. HeaderAt(s, xp, 2, 8, 1, 0)
    BY <1>1 DEF HeaderAt, BC!Wide, BC!Fields
  <2>2. DecodeAt(s, xp) = Op2("JMP", ValueOf(BC!offset, s, xp + 2, 1),
          ValueOf(BC!none, s, xp + 2 + 1, 0), 2 + 1 + 0)
    BY <2>1, Kinds, Used, Reads
  <2> QED
    BY <1>0, <1>1, <2>2, Kinds DEF ValueOf, Decodes, SignedByte
<1>2. CASE s[xp + 1] = 172 /\ s[xp + 2] = 64
  <2>1. HeaderAt(s, xp, 2, 22, 1, 0)
    BY <1>2 DEF HeaderAt, BC!Wide, BC!Fields
  <2>2. DecodeAt(s, xp) = Op2("BCAP", ValueOf(BC!required("CaptureIdx"), s, xp + 2, 1),
          ValueOf(BC!none, s, xp + 2 + 1, 0), 2 + 1 + 0)
    BY <2>1, Kinds, Used, Reads
  <2> QED
    BY <1>0, <1>2, <2>2, Kinds DEF ValueOf, Decodes
<1>3. CASE s[xp + 1] = 174 /\ s[xp + 2] = 64
  <2>1. HeaderAt(s, xp, 2, 23, 1, 0)
    BY <1>3 DEF HeaderAt, BC!Wide, BC!Fields
  <2>2. DecodeAt(s, xp) = Op2("ECAP", ValueOf(BC!required("CaptureIdx"), s, xp + 2, 1),
          ValueOf(BC!none, s, xp + 2 + 1, 0), 2 + 1 + 0)
    BY <2>1, Kinds, Used, Reads
  <2> QED
    BY <1>0, <1>3, <2>2, Kinds DEF ValueOf, Decodes
<1>4. CASE xp + 4 <= Len(s) /\ s[xp + 1] = 170 /\ s[xp + 2] = 72
  <2>1. HeaderAt(s, xp, 2, 21, 1, 1)
    BY <1>4 DEF HeaderAt, BC!Wide, BC!Fields
  <2>2. DecodeAt(s, xp) = Op2("FCAP", ValueOf(BC!required("CaptureIdx"), s, xp + 2, 1),
                              ValueOf(BC!required("Count"), s, xp + 2 + 1, 1), 2 + 1 + 1)
    BY <2>1, Kinds, Used, Reads
  <2> QED
    BY <1>0, <1>4, <2>2, Kinds DEF ValueOf, Decodes
<1> QED
  BY <1>1, <1>2, <1>3, <1>4

\* The instructions of Sample1, decoded from its bytes.
LEMMA Program1 ==
    /\ Sample1.Len = 21 /\ Sample1.Captures = 1 /\ Sample1.Literals = <<<<97, 110, 97>>>>
    /\ Sample1.Ops[0] = Op2("BCAP", 0, 0, 3) /\ Sample1.Ops[3] = Op2("CHOICE", 7, 0, 2)
    /\ Sample1.Ops[5] = Op2("LITB", 0, 0, 2) /\ Sample1.Ops[7] = Op2("CHOICE", 7, 0, 2)
    /\ Sample1.Ops[9] = Op2("ANYB", 1, 0, 1) /\ Sample1.Ops[10] = Op2("FAIL2X", 0, 0, 2)
    /\ Sample1.Ops[12] = Op2("ANYB", 1, 0, 1) /\ Sample1.Ops[13] = Op2("JMP", -13, 0, 3)
    /\ Sample1.Ops[16] = Op2("ECAP", 0, 0, 3) /\ Sample1.Ops[19] = Op2("END", 0, 0, 2)
<1> DEFINE s == <<172, 64, 0,  20, 7,  100, 0,  20, 7,  64,  166, 0,  64,  144, 64, 243,
                  174, 64, 0,  254, 0>>
           lits == <<<<97, 110, 97>>>>
<1>1. s \in Seq(Byte) /\ Len(s) = 21
  BY DEF Byte
<1>2. /\ s[1] = 172 /\ s[2] = 64 /\ s[3] = 0 /\ s[4] = 20 /\ s[5] = 7 /\ s[6] = 100 /\ s[7] = 0
      /\ s[8] = 20 /\ s[9] = 7 /\ s[10] = 64 /\ s[11] = 166 /\ s[12] = 0 /\ s[13] = 64
      /\ s[14] = 144 /\ s[15] = 64 /\ s[16] = 243 /\ s[17] = 174 /\ s[18] = 64 /\ s[19] = 0
      /\ s[20] = 254 /\ s[21] = 0
  OBVIOUS
<1>3. Sample1 = LoadBytes(s, lits, <<>>, 1)
  BY DEF Sample1
<1> HIDE DEF s, lits
<1>4. /\ Sample1.Len = 21 /\ Sample1.Captures = 1 /\ Sample1.Literals = lits
      /\ \A xp \in 0..20 : Sample1.Ops[xp] = DecodeAt(s, xp)
  BY <1>1, <1>3 DEF LoadBytes
<1>5. /\ DecodeAt(s, 9) = Op2("ANYB", 1, 0, 1)
      /\ DecodeAt(s, 10) = Op2("FAIL2X", 0, 0, 2)
      /\ DecodeAt(s, 12) = Op2("ANYB", 1, 0, 1)
      /\ DecodeAt(s, 19) = Op2("END", 0, 0, 2)
  <2>1. Decodes(s, 9, Op2("ANYB", 1, 0, 1))
    <3>1. s \in Seq(Byte) /\ 9 \in Nat /\ 9 + 1 <= Len(s) /\ s[9 + 1] = 64
      BY <1>1, <1>2
    <3> QED
      BY <3>1, ReadsBare, Zenon
  <2>2. Decodes(s, 10, Op2("FAIL2X", 0, 0, 2))
    <3>1. s \in Seq(Byte) /\ 10 \in Nat /\ 10 + 1 <= Len(s) /\ 10 + 2 <= Len(s)
            /\ s[10 + 1] = 166 /\ s[10 + 2] = 0
      BY <1>1, <1>2
    <3> QED
      BY <3>1, ReadsBare, ZenonT(40)
  <2>3. Decodes(s, 12, Op2("ANYB", 1, 0, 1))
    <3>1. s \in Seq(Byte) /\ 12 \in Nat /\ 12 + 1 <= Len(s) /\ s[12 + 1] = 64
      BY <1>1, <1>2
    <3> QED
      BY <3>1, ReadsBare, Zenon
  <2>4. Decodes(s, 19, Op2("END", 0, 0, 2))
    <3>1. s \in Seq(Byte) /\ 19 \in Nat /\ 19 + 1 <= Len(s) /\ 19 + 2 <= Len(s)
            /\ EndHeader(s[19 + 1], s[19 + 2])
      BY <1>1, <1>2 DEF EndHeader
    <3> QED
      BY <3>1, ReadsEnd, Zenon
  <2> QED
    BY <2>1, <2>2, <2>3, <2>4 DEF Decodes
<1>6. /\ DecodeAt(s, 3) = Op2("CHOICE", 7, 0, 2)
      /\ DecodeAt(s, 5) = Op2("LITB", 0, 0, 2)
      /\ DecodeAt(s, 7) = Op2("CHOICE", 7, 0, 2)
  <2>1. /\ 3 \in Nat /\ 3 + 2 <= Len(s) /\ s[3 + 1] = 20
        /\ 5 \in Nat /\ 5 + 2 <= Len(s) /\ s[5 + 1] = 100
        /\ 7 \in Nat /\ 7 + 2 <= Len(s) /\ s[7 + 1] = 20
    BY <1>1, <1>2
  <2>2. /\ Decodes(s, 3, Op2("CHOICE", SignedByte(s[3 + 2]), 0, 2))
        /\ Decodes(s, 5, Op2("LITB", s[5 + 2], 0, 2))
        /\ Decodes(s, 7, Op2("CHOICE", SignedByte(s[7 + 2]), 0, 2))
    BY <1>1, <2>1, ReadsShort, Zenon
  <2> QED
    BY <1>2, <2>2 DEF Decodes, SignedByte
<1>7. /\ DecodeAt(s, 0) = Op2("BCAP", 0, 0, 3)
      /\ DecodeAt(s, 13) = Op2("JMP", -13, 0, 3)
      /\ DecodeAt(s, 16) = Op2("ECAP", 0, 0, 3)
  <2>1. /\ 0 \in Nat /\ 0 + 3 <= Len(s) /\ s[0 + 1] = 172 /\ s[0 + 2] = 64
        /\ 13 \in Nat /\ 13 + 3 <= Len(s) /\ s[13 + 1] = 144 /\ s[13 + 2] = 64
        /\ 16 \in Nat /\ 16 + 3 <= Len(s) /\ s[16 + 1] = 174 /\ s[16 + 2] = 64
    BY <1>1, <1>2
  <2>2. /\ Decodes(s, 0, Op2("BCAP", s[0 + 3], 0, 3))
        /\ Decodes(s, 13, Op2("JMP", SignedByte(s[13 + 3]), 0, 3))
        /\ Decodes(s, 16, Op2("ECAP", s[16 + 3], 0, 3))
    BY <1>1, <2>1, ReadsWide, ZenonT(40)
  <2> QED
    BY <1>2, <2>2 DEF Decodes, SignedByte
<1> QED
  BY <1>4, <1>5, <1>6, <1>7 DEF lits

\* The instructions of Sample2, decoded from its bytes.
LEMMA Program2 ==
    /\ Sample2.Len = 29 /\ Sample2.Captures = 2
    /\ Sample2.Ops[0] = Op2("BCAP", 0, 0, 3) /\ Sample2.Ops[3] = Op2("SAMEB", 98, 1, 2)
    /\ Sample2.Ops[5] = Op2("CHOICE", 10, 0, 2) /\ Sample2.Ops[7] = Op2("SAMEB", 97, 1, 2)
    /\ Sample2.Ops[9] = Op2("SAMEB", 110, 1, 2) /\ Sample2.Ops[11] = Op2("FCAP", 1, 2, 4)
    /\ Sample2.Ops[15] = Op2("COMMIT", -12, 0, 2) /\ Sample2.Ops[17] = Op2("SAMEB", 97, 1, 2)
    /\ Sample2.Ops[19] = Op2("CHOICE", 3, 0, 2) /\ Sample2.Ops[21] = Op2("ANYB", 1, 0, 1)
    /\ Sample2.Ops[22] = Op2("FAIL2X", 0, 0, 2) /\ Sample2.Ops[24] = Op2("ECAP", 0, 0, 3)
    /\ Sample2.Ops[27] = Op2("END", 0, 0, 2)
<1> DEFINE s == <<172, 64, 0,  84, 98,  20, 10,  84, 97,  84, 110,  170, 72, 1, 2,  36, 244,
                  84, 97,  20, 3,  64,  166, 0,  174, 64, 0,  254, 0>>
<1>1. s \in Seq(Byte) /\ Len(s) = 29
  BY DEF Byte
<1>2. /\ s[1] = 172 /\ s[2] = 64 /\ s[3] = 0 /\ s[4] = 84 /\ s[5] = 98 /\ s[6] = 20 /\ s[7] = 10
      /\ s[8] = 84 /\ s[9] = 97 /\ s[10] = 84 /\ s[11] = 110 /\ s[12] = 170 /\ s[13] = 72
      /\ s[14] = 1 /\ s[15] = 2 /\ s[16] = 36 /\ s[17] = 244 /\ s[18] = 84 /\ s[19] = 97
      /\ s[20] = 20 /\ s[21] = 3 /\ s[22] = 64 /\ s[23] = 166 /\ s[24] = 0 /\ s[25] = 174
      /\ s[26] = 64 /\ s[27] = 0 /\ s[28] = 254 /\ s[29] = 0
  OBVIOUS
<1>3. Sample2 = LoadBytes(s, <<>>, <<>>, 2)
  BY DEF Sample2
<1> HIDE DEF s
<1>4. /\ Sample2.Len = 29 /\ Sample2.Captures = 2
      /\ \A xp \in 0..28 : Sample2.Ops[xp] = DecodeAt(s, xp)
  BY <1>1, <1>3 DEF LoadBytes
<1>5. /\ DecodeAt(s, 21) = Op2("ANYB", 1, 0, 1)
      /\ DecodeAt(s, 22) = Op2("FAIL2X", 0, 0, 2)
      /\ DecodeAt(s, 27) = Op2("END", 0, 0, 2)
  <2>1. Decodes(s, 21, Op2("ANYB", 1, 0, 1))
    <3>1. s \in Seq(Byte) /\ 21 \in Nat /\ 21 + 1 <= Len(s) /\ s[21 + 1] = 64
      BY <1>1, <1>2
    <3> QED
      BY <3>1, ReadsBare, Zenon
  <2>2. Decodes(s, 22, Op2("FAIL2X", 0, 0, 2))
    <3>1. s \in Seq(Byte) /\ 22 \in Nat /\ 22 + 1 <= Len(s) /\ 22 + 2 <= Len(s)
            /\ s[22 + 1] = 166 /\ s[22 + 2] = 0
      BY <1>1, <1>2
    <3> QED
      BY <3>1, ReadsBare, ZenonT(40)
  <2>3. Decodes(s, 27, Op2("END", 0, 0, 2))
    <3>1. s \in Seq(Byte) /\ 27 \in Nat /\ 27 + 1 <= Len(s) /\ 27 + 2 <= Len(s)
            /\ EndHeader(s[27 + 1], s[27 + 2])
      BY <1>1, <1>2 DEF EndHeader
    <3> QED
      BY <3>1, ReadsEnd, Zenon
  <2> QED
    BY <2>1, <2>2, <2>3 DEF Decodes
<1>6. /\ DecodeAt(s, 3) = Op2("SAMEB", 98, 1, 2)
      /\ DecodeAt(s, 5) = Op2("CHOICE", 10, 0, 2)
      /\ DecodeAt(s, 7) = Op2("SAMEB", 97, 1, 2)
      /\ DecodeAt(s, 9) = Op2("SAMEB", 110, 1, 2)
      /\ DecodeAt(s, 15) = Op2("COMMIT", -12, 0, 2)
      /\ DecodeAt(s, 17) = Op2("SAMEB", 97, 1, 2)
      /\ DecodeAt(s, 19) = Op2("CHOICE", 3, 0, 2)
  <2>1. /\ 3 \in Nat /\ 3 + 2 <= Len(s) /\ s[3 + 1] = 84
        /\ 5 \in Nat /\ 5 + 2 <= Len(s) /\ s[5 + 1] = 20
        /\ 7 \in Nat /\ 7 + 2 <= Len(s) /\ s[7 + 1] = 84
        /\ 9 \in Nat /\ 9 + 2 <= Len(s) /\ s[9 + 1] = 84
        /\ 15 \in Nat /\ 15 + 2 <= Len(s) /\ s[15 + 1] = 36
        /\ 17 \in Nat /\ 17 + 2 <= Len(s) /\ s[17 + 1] = 84
        /\ 19 \in Nat /\ 19 + 2 <= Len(s) /\ s[19 + 1] = 20
    BY <1>1, <1>2
  <2>2. /\ Decodes(s, 3, Op2("SAMEB", s[3 + 2], 1, 2))
        /\ Decodes(s, 5, Op2("CHOICE", SignedByte(s[5 + 2]), 0, 2))
        /\ Decodes(s, 7, Op2("SAMEB", s[7 + 2], 1, 2))
        /\ Decodes(s, 9, Op2("SAMEB", s[9 + 2], 1, 2))
        /\ Decodes(s, 15, Op2("COMMIT", SignedByte(s[15 + 2]), 0, 2))
        /\ Decodes(s, 17, Op2("SAMEB", s[17 + 2], 1, 2))
        /\ Decodes(s, 19, Op2("CHOICE", SignedByte(s[19 + 2]), 0, 2))
    BY <1>1, <2>1, ReadsShort, Zenon
  <2> QED
    BY <1>2, <2>2 DEF Decodes, SignedByte
<1>7. /\ DecodeAt(s, 0) = Op2("BCAP", 0, 0, 3)
      /\ DecodeAt(s, 11) = Op2("FCAP", 1, 2, 4)
      /\ DecodeAt(s, 24) = Op2("ECAP", 0, 0, 3)
  <2>1. /\ 0 \in Nat /\ 0 + 3 <= Len(s) /\ s[0 + 1] = 172 /\ s[0 + 2] = 64
        /\ 11 \in Nat /\ 11 + 3 <= Len(s) /\ 11 + 4 <= Len(s) /\ s[11 + 1] = 170 /\ s[11 + 2] = 72
        /\ 24 \in Nat /\ 24 + 3 <= Len(s) /\ s[24 + 1] = 174 /\ s[24 + 2] = 64
    BY <1>1, <1>2
  <2>2. /\ Decodes(s, 0, Op2("BCAP", s[0 + 3], 0, 3))
        /\ Decodes(s, 11, Op2("FCAP", s[11 + 3], s[11 + 4], 4))
        /\ Decodes(s, 24, Op2("ECAP", s[24 + 3], 0, 3))
    BY <1>1, <2>1, ReadsWide, ZenonT(40)
  <2> QED
    BY <1>2, <2>2 DEF Decodes, SignedByte
<1> QED
  BY <1>4, <1>5, <1>6, <1>7

-----------------------------------------------------------------------------
(* What the instructions of the samples do. *)

\* Step changes neither the program nor the input.
LEMMA StepKeeps == Step => P' = P /\ I' = I
  BY Zenon DEF Step, StepHalted, StepEOF, StepBadOp, NOP, CHOICE, COMMIT, FAIL, ANYB, SAMEB, LITB,
         MATCHB, JMP, CALL, RET, TANYB, TSAMEB, TLITB, TMATCHB, PCOMMIT, BCOMMIT, SPANB, FAIL2X, RWNDB,
         FCAP, BCAP, ECAP, GIVEUP, END, Frozen

\* Step does what the opcode at XP says.
LEMMA StepIs ==
    ASSUME Step, R = "Running", XP < P.Len, XP \in Nat, P.Len \in Nat
    PROVE  /\ Op.Code = "CHOICE" => CHOICE
           /\ Op.Code = "COMMIT" => COMMIT
           /\ Op.Code = "ANYB" => ANYB
           /\ Op.Code = "SAMEB" => SAMEB
           /\ Op.Code = "LITB" => LITB
           /\ Op.Code = "JMP" => JMP
           /\ Op.Code = "FAIL2X" => FAIL2X
           /\ Op.Code = "FCAP" => FCAP
           /\ Op.Code = "BCAP" => BCAP
           /\ Op.Code = "ECAP" => ECAP
           /\ Op.Code = "END" => END
<1> DEFINE code == Op.Code
<1>1. ~ StepHalted /\ ~ StepEOF
  BY DEF StepHalted, StepEOF
<1>2. /\ StepBadOp => code = "BAD"
      /\ NOP => code = "NOP"
      /\ CHOICE => code = "CHOICE"
      /\ COMMIT => code = "COMMIT"
      /\ FAIL => code = "FAIL"
      /\ ANYB => code = "ANYB"
      /\ SAMEB => code = "SAMEB"
      /\ LITB => code = "LITB"
      /\ MATCHB => code = "MATCHB"
      /\ JMP => code = "JMP"
      /\ CALL => code = "CALL"
      /\ RET => code = "RET"
      /\ TANYB => code = "TANYB"
      /\ TSAMEB => code = "TSAMEB"
  BY Zenon DEF StepBadOp, NOP, CHOICE, COMMIT, FAIL, ANYB, SAMEB, LITB, MATCHB, JMP, CALL, RET,
               TANYB, TSAMEB, Fetch
<1>3. /\ TLITB => code = "TLITB"
      /\ TMATCHB => code = "TMATCHB"
      /\ PCOMMIT => code = "PCOMMIT"
      /\ BCOMMIT => code = "BCOMMIT"
      /\ SPANB => code = "SPANB"
      /\ FAIL2X => code = "FAIL2X"
      /\ RWNDB => code = "RWNDB"
      /\ FCAP => code = "FCAP"
      /\ BCAP => code = "BCAP"
      /\ ECAP => code = "ECAP"
      /\ GIVEUP => code = "GIVEUP"
      /\ END => code = "END"
  BY Zenon DEF TLITB, TMATCHB, PCOMMIT, BCOMMIT, SPANB, FAIL2X, RWNDB, FCAP, BCAP, ECAP, GIVEUP,
               END, Fetch
<1> HIDE DEF code
<1>4. SUFFICES
           /\ code = "CHOICE" => CHOICE
           /\ code = "COMMIT" => COMMIT
           /\ code = "ANYB" => ANYB
           /\ code = "SAMEB" => SAMEB
           /\ code = "LITB" => LITB
           /\ code = "JMP" => JMP
           /\ code = "FAIL2X" => FAIL2X
           /\ code = "FCAP" => FCAP
           /\ code = "BCAP" => BCAP
           /\ code = "ECAP" => ECAP
           /\ code = "END" => END
  BY Zenon DEF code
<1> QED
  BY <1>1, <1>2, <1>3 DEF Step

\* The state of a machine that runs, and the instruction that is next.
Now(xp, dp, caps, cs) ==
    XP = xp /\ DP = dp /\ KS = caps /\ CS = cs /\ R = "Running" /\ ret = "nil"

At(op, xp, dp, caps, cs) ==
    Now(xp, dp, caps, cs) /\ xp \in Nat /\ dp \in Nat /\ xp < P.Len /\ P.Ops[xp] = op

\* A choice frame, and a mark on the capture stack.
Choice(xp, dp, caps) == [IsChoice |-> TRUE, DP |-> dp, XP |-> xp, KS |-> caps]
MarkOf(index, isEnd, dp) == [Index |-> index, IsEnd |-> isEnd, DP |-> dp]

\* The program and the input are what they should be, and the data pointer is
\* within the input.
Sane == IsProgram(P) /\ I \in Seq(Byte) /\ Len(I) <= MaxU64 /\ DP <= Len(I)

\* What is known of the machine when the instruction at XP is op.
LEMMA Running ==
    ASSUME Sane, NEW code, NEW imm0, NEW imm1, NEW len \in Nat, NEW xp, NEW dp, NEW caps, NEW cs,
           At(Op2(code, imm0, imm1, len), xp, dp, caps, cs)
    PROVE  /\ Op.Code = code /\ Op.Imm0 = imm0 /\ Op.Imm1 = imm1 /\ NextXP = xp + len
           /\ XP = xp /\ DP = dp /\ KS = caps /\ CS = cs /\ R = "Running" /\ ret = "nil"
           /\ XP \in Nat /\ P.Len \in Nat /\ XP < P.Len /\ dp \in Nat /\ xp \in Nat
           /\ dp <= Len(I) /\ Len(I) \in Nat /\ Len(I) <= MaxU64 /\ MaxU64 \in Nat
<1>1. /\ XP = xp /\ DP = dp /\ KS = caps /\ CS = cs /\ R = "Running" /\ ret = "nil"
      /\ xp \in Nat /\ dp \in Nat /\ xp < P.Len /\ Op = Op2(code, imm0, imm1, len)
  BY DEF At, Now, Op
<1>2. Op.Code = code /\ Op.Imm0 = imm0 /\ Op.Imm1 = imm1 /\ Op.Len = len
  BY <1>1 DEF Op2
<1>3. P.Len \in Nat /\ I \in Seq(Byte) /\ Len(I) <= MaxU64 /\ DP <= Len(I)
  BY MaxU64Assumption DEF Sane, IsProgram, U64
<1> QED
  BY <1>1, <1>2, <1>3, MaxU64Assumption DEF NextXP

\* CHOICE pushes a frame with the data pointer and the captures of now.
LEMMA DoesChoice ==
    ASSUME Sane, Step, NEW o \in Int, NEW len \in Nat, NEW xp, NEW dp, NEW caps, NEW cs,
           At(Op2("CHOICE", o, 0, len), xp, dp, caps, cs), xp + len + o \in U64
    PROVE  Now(xp + len, dp, caps, Append(cs, Choice(xp + len + o, dp, caps)))'
<1>1. CHOICE
  BY Running, StepIs
<1>2. /\ NextXP = xp + len /\ Op.Imm0 = o /\ DP = dp /\ KS = caps /\ CS = cs
      /\ R = "Running"
  BY Running
<1> QED
  BY <1>1, <1>2 DEF CHOICE, Now, Choice

\* JMP adds its offset to the address of the next instruction.
LEMMA DoesJump ==
    ASSUME Sane, Step, NEW o \in Int, NEW len \in Nat, NEW xp, NEW dp, NEW caps, NEW cs,
           At(Op2("JMP", o, 0, len), xp, dp, caps, cs), xp + len + o \in U64
    PROVE  Now(xp + len + o, dp, caps, cs)'
<1>1. JMP
  BY Running, StepIs
<1>2. /\ NextXP = xp + len /\ Op.Imm0 = o /\ DP = dp /\ KS = caps /\ CS = cs
      /\ R = "Running"
  BY Running
<1> QED
  BY <1>1, <1>2 DEF JMP, addOffset, Now

\* COMMIT pops the choice frame and jumps.
LEMMA DoesCommit ==
    ASSUME Sane, Step, NEW o \in Int, NEW len \in Nat, NEW xp, NEW dp, NEW caps, NEW fr,
           At(Op2("COMMIT", o, 0, len), xp, dp, caps, <<fr>>), fr.IsChoice, xp + len + o \in U64
    PROVE  Now(xp + len + o, dp, caps, <<>>)'
<1>1. COMMIT
  BY Running, StepIs
<1>2. /\ NextXP = xp + len /\ Op.Imm0 = o /\ DP = dp /\ KS = caps /\ CS = <<fr>>
      /\ R = "Running"
  BY Running
<1>3. <<fr>> # <<>> /\ Len(<<fr>>) = 1 /\ SubSeq(<<fr>>, 1, 0) = <<>>
  OBVIOUS
<1>4. CS # <<>> /\ top = fr /\ popCS = <<>>
  BY <1>2, <1>3 DEF top, popCS
<1>5. ~ popFault
  BY <1>4 DEF popFault
<1>6. CS' = <<>> /\ addOffset(o) /\ DP' = dp /\ KS' = caps /\ R' = "Running"
  BY <1>1, <1>2, <1>4, <1>5 DEF COMMIT
<1> QED
  BY <1>2, <1>6 DEF addOffset, Now

\* What is left of two frames after a pop.
LEMMA FirstOfTwo ==
    ASSUME NEW fr, NEW g
    PROVE  SubSeq(<<fr, g>>, 1, 1) = <<fr>>
<1> DEFINE S == {fr, g}
           s == <<fr, g>>
           t == SubSeq(s, 1, 1)
           u == <<fr>>
<1>1. s \in Seq(S) /\ Len(s) = 2 /\ s[1] = fr /\ u \in Seq(S) /\ Len(u) = 1 /\ u[1] = fr
  OBVIOUS
<1> HIDE DEF s, S, u
<1>2. t \in Seq(S) /\ Len(t) = 1 /\ t[1] = fr
  BY <1>1
<1> HIDE DEF t
<1>3. t = u
  BY <1>1, <1>2
<1> QED
  BY <1>3 DEF t, s, u

\* x.fail() with no frame, one choice frame or two.
LEMMA Fails ==
    /\ R = "Running" /\ fail(<<>>) => R' = "Failure" /\ ret' = "nil"
    /\ \A xp, dp, caps :
          R = "Running" /\ fail(<<Choice(xp, dp, caps)>>) => Now(xp, dp, caps, <<>>)'
    /\ \A fr, xp, dp, caps :
          R = "Running" /\ fail(<<fr, Choice(xp, dp, caps)>>) => Now(xp, dp, caps, <<fr>>)'
<1>1. R = "Running" /\ fail(<<>>) => R' = "Failure" /\ ret' = "nil"
  BY DEF fail
<1>2. ASSUME NEW xp, NEW dp, NEW caps, R = "Running", fail(<<Choice(xp, dp, caps)>>)
      PROVE  Now(xp, dp, caps, <<>>)'
  <2> DEFINE fr == Choice(xp, dp, caps)
             cs == <<fr>>
  <2>1. fr.IsChoice /\ fr.DP = dp /\ fr.XP = xp /\ fr.KS = caps
    BY DEF Choice
  <2> HIDE DEF fr
  <2>2. DOMAIN cs = {1} /\ cs[1] = fr /\ SubSeq(cs, 1, 1 - 1) = <<>>
    OBVIOUS
  <2>3. fail(cs)
    BY <1>2 DEF fr
  <2> HIDE DEF cs
  <2> QED
    BY <1>2, <2>1, <2>2, <2>3 DEF fail, resume, Now
<1>3. ASSUME NEW fr, NEW xp, NEW dp, NEW caps, R = "Running", fail(<<fr, Choice(xp, dp, caps)>>)
      PROVE  Now(xp, dp, caps, <<fr>>)'
  <2> DEFINE g == Choice(xp, dp, caps)
             cs == <<fr, g>>
  <2>1. g.IsChoice /\ g.DP = dp /\ g.XP = xp /\ g.KS = caps
    BY DEF Choice
  <2> HIDE DEF g
  <2>2. DOMAIN cs = {1, 2} /\ cs[2] = g /\ Len(cs) = 2
    OBVIOUS
  <2>3. SubSeq(cs, 1, 2 - 1) = <<fr>>
    BY FirstOfTwo
  <2>4. fail(cs)
    BY <1>3 DEF g
  <2> HIDE DEF cs
  <2>5. ~ \A i \in DOMAIN cs : ~ cs[i].IsChoice
    BY <2>1, <2>2
  <2>6. PICK i \in DOMAIN cs : /\ \A j \in i + 1 .. Len(cs) : ~ cs[j].IsChoice
                              /\ resume(cs[i], SubSeq(cs, 1, i - 1)) /\ ret' = "nil"
    BY <2>4, <2>5, Zenon DEF fail
  <2>7. i = 2
    BY <2>1, <2>2, <2>6
  <2>8. resume(g, <<fr>>)
    BY <2>2, <2>3, <2>6, <2>7, Zenon
  <2> QED
    BY <1>3, <2>1, <2>6, <2>8, Zenon DEF resume, Now
<1> QED
  BY <1>1, <1>2, <1>3, Zenon

\* FAIL2X drops the choice frame on top and fails.
LEMMA DoesFailTwice ==
    ASSUME Sane, Step, NEW len \in Nat, NEW xp, NEW dp, NEW caps, NEW cs,
           At(Op2("FAIL2X", 0, 0, len), xp, dp, caps, cs), R = "Running"
    PROVE  /\ \A fr : fr.IsChoice /\ cs = <<fr>> => fail(<<>>)
           /\ \A fr, g : g.IsChoice /\ cs = <<fr, g>> => fail(<<fr>>)
<1>1. FAIL2X
  BY Running, StepIs
<1>2. CS = cs
  BY Running
<1>3. ASSUME NEW fr, fr.IsChoice, cs = <<fr>> PROVE fail(<<>>)
  <2>1. <<fr>> # <<>> /\ Len(<<fr>>) = 1 /\ SubSeq(<<fr>>, 1, 0) = <<>>
    OBVIOUS
  <2>2. CS # <<>> /\ top = fr /\ popCS = <<>>
    BY <1>2, <1>3, <2>1 DEF top, popCS
  <2> QED
    BY <1>1, <1>3, <2>2, Zenon DEF FAIL2X, popFault
<1>4. ASSUME NEW fr, NEW g, g.IsChoice, cs = <<fr, g>> PROVE fail(<<fr>>)
  <2>1. <<fr, g>> # <<>> /\ Len(<<fr, g>>) = 2 /\ SubSeq(<<fr, g>>, 1, 1) = <<fr>>
    BY FirstOfTwo
  <2>2. CS # <<>> /\ top = g /\ popCS = <<fr>>
    BY <1>2, <1>4, <2>1 DEF top, popCS
  <2> QED
    BY <1>1, <1>4, <2>2, Zenon DEF FAIL2X, popFault
<1> QED
  BY <1>3, <1>4

\* ANYB takes a byte, or fails at the end of the input.
LEMMA DoesAny ==
    ASSUME Sane, Step, NEW len \in Nat, NEW xp, NEW dp, NEW caps, NEW cs,
           At(Op2("ANYB", 1, 0, len), xp, dp, caps, cs)
    PROVE  /\ dp < Len(I) => Now(xp + len, dp + 1, caps, cs)'
           /\ dp >= Len(I) => fail(cs)
<1>1. ANYB
  BY Running, StepIs
<1>2. /\ NextXP = xp + len /\ Op.Imm0 = 1 /\ DP = dp /\ KS = caps /\ CS = cs
      /\ R = "Running" /\ dp \in Nat /\ dp <= Len(I) /\ Len(I) \in Nat /\ Len(I) <= MaxU64
      /\ MaxU64 \in Nat
  BY Running
<1>3. availableBytes = Len(I) - dp
  BY <1>2 DEF availableBytes, Sub64
<1>4. dp < Len(I) => Add64(dp, 1) = dp + 1
  BY <1>2 DEF Add64
<1> QED
  BY <1>1, <1>2, <1>3, <1>4 DEF ANYB, advanceOrFail, advance, Now

\* SAMEB takes the byte b, or fails.
LEMMA DoesSame ==
    ASSUME Sane, Step, NEW b \in Byte, NEW len \in Nat, NEW xp, NEW dp, NEW caps, NEW cs,
           At(Op2("SAMEB", b, 1, len), xp, dp, caps, cs)
    PROVE  /\ dp < Len(I) /\ I[dp + 1] = b => Now(xp + len, dp + 1, caps, cs)'
           /\ ~ (dp < Len(I) /\ I[dp + 1] = b) => fail(cs)
<1>1. SAMEB
  BY Running, StepIs
<1>2. /\ NextXP = xp + len /\ Op.Imm0 = b /\ Op.Imm1 = 1 /\ DP = dp /\ KS = caps /\ CS = cs
      /\ R = "Running" /\ dp \in Nat /\ dp <= Len(I) /\ Len(I) \in Nat /\ Len(I) <= MaxU64
      /\ MaxU64 \in Nat
  BY Running
<1>3. availableBytes = Len(I) - dp
  BY <1>2 DEF availableBytes, Sub64
<1>4. dp < Len(I) => Add64(dp, 1) = dp + 1
  BY <1>2 DEF Add64
<1>5. Exactly(b) = {b}
  BY DEF Exactly, Byte
<1>6. matchN({b}, 1) <=> dp < Len(I) /\ I[dp + 1] = b
  <2>1. 0 .. 1 - 1 = {0} /\ dp + 0 + 1 = dp + 1
    BY <1>2
  <2> QED
    BY <1>2, <1>3, <2>1 DEF matchN
<1>7. advanceOrFail(matchN({b}, 1), 1)
  BY <1>1, <1>2, <1>5 DEF SAMEB
<1>8. (matchN({b}, 1) /\ advance(1)) \/ (~ matchN({b}, 1) /\ fail(cs))
  BY <1>2, <1>7, Zenon DEF advanceOrFail
<1>9. matchN({b}, 1) /\ advance(1) => Now(xp + len, dp + 1, caps, cs)'
  BY <1>2, <1>4, <1>6 DEF advance, Now
<1> QED
  BY <1>6, <1>8, <1>9, Zenon

\* LITB takes a literal of three bytes, or fails.
LEMMA DoesLiteral ==
    ASSUME Sane, Step, NEW len \in Nat, NEW xp, NEW dp, NEW caps, NEW cs,
           At(Op2("LITB", 0, 0, len), xp, dp, caps, cs),
           NEW x, NEW y, NEW z, P.Literals = <<<<x, y, z>>>>
    PROVE  LET good == dp + 3 <= Len(I) /\ I[dp + 1] = x /\ I[dp + 2] = y /\ I[dp + 3] = z
           IN  (good => Now(xp + len, dp + 3, caps, cs)') /\ (~ good => fail(cs))
<1> DEFINE good == dp + 3 <= Len(I) /\ I[dp + 1] = x /\ I[dp + 2] = y /\ I[dp + 3] = z
           lit == <<x, y, z>>
<1>1. LITB
  BY Running, StepIs
<1>2. /\ NextXP = xp + len /\ Op.Imm0 = 0 /\ DP = dp /\ KS = caps /\ CS = cs
      /\ R = "Running" /\ dp \in Nat /\ dp <= Len(I) /\ Len(I) \in Nat /\ Len(I) <= MaxU64
      /\ MaxU64 \in Nat
  BY Running
<1>3. availableBytes = Len(I) - dp
  BY <1>2 DEF availableBytes, Sub64
<1>4. dp + 3 <= Len(I) => Add64(dp, 3) = dp + 3
  BY <1>2 DEF Add64
<1>5. Len(P.Literals) = 1 /\ P.Literals[0 + 1] = lit /\ Len(lit) = 3 /\ DOMAIN lit = 1..3
      /\ lit[1] = x /\ lit[2] = y /\ lit[3] = z
  OBVIOUS
<1> HIDE DEF lit
<1>6. matchLit(lit) <=> good
  <2>1. \A k : k \in 1..3 <=> k = 1 \/ k = 2 \/ k = 3
    OBVIOUS
  <2> QED
    BY <1>2, <1>3, <1>5, <2>1 DEF matchLit
<1>7. advanceOrFail(matchLit(lit), 3)
  BY <1>1, <1>2, <1>5 DEF LITB
<1>8. (good /\ advance(3)) \/ (~ good /\ fail(cs))
  BY <1>2, <1>6, <1>7, Zenon DEF advanceOrFail
<1>9. good /\ advance(3) => Now(xp + len, dp + 3, caps, cs)'
  BY <1>2, <1>4 DEF advance, Now
<1> QED
  BY <1>8, <1>9, Zenon

\* BCAP and ECAP record a mark.
LEMMA DoesCapture ==
    ASSUME Sane, Step, NEW c \in Nat, NEW len \in Nat, NEW xp, NEW dp, NEW caps, NEW cs,
             c < P.Captures
    PROVE  /\ At(Op2("BCAP", c, 0, len), xp, dp, caps, cs) =>
                Now(xp + len, dp, Append(caps, MarkOf(c, FALSE, dp)), cs)'
           /\ At(Op2("ECAP", c, 0, len), xp, dp, caps, cs) =>
                Now(xp + len, dp, Append(caps, MarkOf(c, TRUE, dp)), cs)'
<1>0. P.Captures \in Nat
  BY DEF Sane, IsProgram
<1>1. ASSUME At(Op2("BCAP", c, 0, len), xp, dp, caps, cs)
      PROVE  Now(xp + len, dp, Append(caps, MarkOf(c, FALSE, dp)), cs)'
  <2>1. BCAP
    BY <1>1, Running, StepIs
  <2>2. /\ NextXP = xp + len /\ Op.Imm0 = c /\ DP = dp /\ KS = caps /\ CS = cs /\ R = "Running"
    BY <1>1, Running
  <2>3. ~ noCapture /\ Mark(FALSE, DP) = MarkOf(c, FALSE, dp)
    BY <1>0, <2>2 DEF noCapture, Mark, MarkOf
  <2> QED
    BY <2>1, <2>2, <2>3, Zenon DEF BCAP, assign, Now
<1>2. ASSUME At(Op2("ECAP", c, 0, len), xp, dp, caps, cs)
      PROVE  Now(xp + len, dp, Append(caps, MarkOf(c, TRUE, dp)), cs)'
  <2>1. ECAP
    BY <1>2, Running, StepIs
  <2>2. /\ NextXP = xp + len /\ Op.Imm0 = c /\ DP = dp /\ KS = caps /\ CS = cs /\ R = "Running"
    BY <1>2, Running
  <2>3. ~ noCapture /\ Mark(TRUE, DP) = MarkOf(c, TRUE, dp)
    BY <1>0, <2>2 DEF noCapture, Mark, MarkOf
  <2> QED
    BY <2>1, <2>2, <2>3, Zenon DEF ECAP, assign, Now
<1> QED
  BY <1>1, <1>2, Zenon

\* FCAP records the capture of the last n bytes.
LEMMA DoesFullCapture ==
    ASSUME Sane, Step, NEW c \in Nat, NEW len \in Nat, NEW xp, NEW dp, NEW caps, NEW cs,
             c < P.Captures,
           NEW n \in Nat, n <= dp, At(Op2("FCAP", c, n, len), xp, dp, caps, cs)
    PROVE  Now(xp + len, dp, Append(Append(caps, MarkOf(c, FALSE, dp - n)), MarkOf(c, TRUE, dp)),
             cs)'
<1>0. P.Captures \in Nat
  BY DEF Sane, IsProgram
<1>1. FCAP
  BY Running, StepIs
<1>2. /\ NextXP = xp + len /\ Op.Imm0 = c /\ Op.Imm1 = n /\ DP = dp /\ KS = caps /\ CS = cs
      /\ R = "Running" /\ dp \in Nat /\ n <= dp /\ n \in Nat
  BY Running
<1>3. /\ ~ noCapture /\ Mark(TRUE, DP) = MarkOf(c, TRUE, dp)
      /\ Mark(FALSE, Sub64(DP, n)) = MarkOf(c, FALSE, dp - n)
  BY <1>0, <1>2 DEF noCapture, Mark, MarkOf, Sub64
<1>4. assign(Append(Append(KS, Mark(FALSE, Sub64(DP, Op.Imm1))), Mark(TRUE, DP)))
  <2>1. ~ (Op.Imm1 > DP)
    BY <1>2
  <2> QED
    BY <1>1, <1>3, <2>1, Zenon DEF FCAP
<1>5. assign(Append(Append(caps, MarkOf(c, FALSE, dp - n)), MarkOf(c, TRUE, dp)))
  BY <1>2, <1>3, <1>4, Zenon
<1> QED
  BY <1>2, <1>5 DEF assign, Now

\* END succeeds with the captures of now.
LEMMA DoesEnd ==
    ASSUME Sane, Step, NEW len \in Nat, NEW xp, NEW dp, NEW caps, NEW cs,
           At(Op2("END", 0, 0, len), xp, dp, caps, cs)
    PROVE  R' = "Success" /\ ret' = "nil" /\ KS' = caps
<1>1. END
  BY Running, StepIs
<1> QED
  BY <1>1, Running DEF END

-----------------------------------------------------------------------------
(* Sequences. *)

\* What Append returns.
LEMMA AppendProps ==
    ASSUME NEW S, NEW s \in Seq(S), NEW b \in S
    PROVE  /\ Append(s, b) \in Seq(S) /\ Len(Append(s, b)) = Len(s) + 1
           /\ \A k \in 1 .. Len(s) + 1 : Append(s, b)[k] = IF k <= Len(s) THEN s[k] ELSE b
  OBVIOUS

\* A sequence of two elements is one of one element, appended to.
LEMMA AppendIs ==
    ASSUME NEW S, NEW b \in S, NEW s \in Seq(S), Len(s) = 1,
           NEW u \in Seq(S), Len(u) = 2, u[1] = s[1], u[2] = b
    PROVE  Append(s, b) = u
<1> DEFINE t == Append(s, b)
<1>1. t \in Seq(S) /\ Len(t) = Len(s) + 1 /\ \A k \in 1 .. Len(s) + 1 : t[k] =
        IF k <= Len(s) THEN s[k] ELSE b
  BY ONLY s \in Seq(S), b \in S, AppendProps
<1> HIDE DEF t
<1>2. \A k : k \in 1..2 <=> k = 1 \/ k = 2
  OBVIOUS
<1>3. t = u
  BY <1>1, <1>2
<1> QED
  BY <1>3 DEF t

\* Append to a sequence of no element or one.
LEMMA AppendOne == \A a, b : Append(<<>>, a) = <<a>> /\ Append(<<a>>, b) = <<a, b>>
<1> SUFFICES ASSUME NEW a, NEW b PROVE Append(<<>>, a) = <<a>> /\ Append(<<a>>, b) = <<a, b>>
  BY Zenon
<1>1. \E S, s, u : /\ s = <<a>> /\ s \in Seq(S) /\ Len(s) = 1 /\ s[1] = a
                   /\ u = <<a, b>> /\ u \in Seq(S) /\ Len(u) = 2 /\ u[1] = a /\ u[2] = b /\ b \in S
  <2>1. <<a>> \in Seq({a, b}) /\ <<a, b>> \in Seq({a, b})
    OBVIOUS
  <2>2. Len(<<a>>) = 1 /\ <<a>>[1] = a /\ Len(<<a, b>>) = 2 /\ <<a, b>>[1] = a /\ <<a, b>>[2] = b
    OBVIOUS
  <2> QED
    BY <2>1, <2>2, Zenon
<1>2. PICK S, s, u : /\ s = <<a>> /\ s \in Seq(S) /\ Len(s) = 1 /\ s[1] = a
                     /\ u = <<a, b>> /\ u \in Seq(S) /\ Len(u) = 2 /\ u[1] = a /\ u[2] = b
                          /\ b \in S
  BY <1>1, Zenon
<1>3. Append(s, b) = u
  BY <1>2, AppendIs, Zenon
<1>4. Append(<<>>, a) = <<a>>
  OBVIOUS
<1> QED
  BY <1>2, <1>3, <1>4, Zenon

-----------------------------------------------------------------------------
(* .*ana$ *)

\* "ana" is at d, and d is not past the "ana" that ends the word, if one does.
Ana(w, d) == d + 3 <= Len(w) /\ w[d + 1] = 97 /\ w[d + 2] = 110 /\ w[d + 3] = 97
Later(w, d) == EndsInAna(w) => d + 3 <= Len(w)

\* A word ends in "ana" when "ana" is three bytes before its end.
LEMMA EndsWord ==
    ASSUME NEW w \in Seq(Byte)
    PROVE  EndsInAna(w) <=> Len(w) >= 3 /\ Ana(w, Len(w) - 3)
<1> DEFINE n == Len(w)
           t == SubSeq(w, n - 2, n)
           ana == <<97, 110, 97>>
<1>1. Letter.a = 97 /\ Letter.n = 110
  BY DEF Letter
<1>2. SUFFICES ASSUME n >= 3 PROVE t = ana <=> Ana(w, n - 3)
  BY <1>1 DEF EndsInAna
<1>3. n \in Nat /\ n - 2 \in 1 .. n /\ n - 3 + 1 = n - 2 /\ n - 3 + 2 = n - 1 /\ n - 3 + 3 = n
  BY <1>2
<1>4. t \in Seq(Byte) /\ Len(t) = 3 /\ t[1] = w[n - 2] /\ t[2] = w[n - 1] /\ t[3] = w[n]
  <2>1. t \in Seq(Byte) /\ Len(t) = 3
    BY <1>2, <1>3
  <2>2. \A k \in 1..3 : t[k] = w[n - 3 + k]
    BY <1>2, <1>3
  <2> QED
    BY <1>3, <2>1, <2>2
<1>5. ana \in Seq(Byte) /\ Len(ana) = 3 /\ ana[1] = 97 /\ ana[2] = 110 /\ ana[3] = 97
  BY DEF Byte
<1> HIDE DEF t, ana
<1>6. t = ana <=> t[1] = 97 /\ t[2] = 110 /\ t[3] = 97
  <2>1. \A k : k \in 1..3 <=> k = 1 \/ k = 2 \/ k = 3
    OBVIOUS
  <2> QED
    BY <1>4, <1>5, <2>1
<1> QED
  BY <1>2, <1>3, <1>4, <1>6 DEF Ana

\* How Later changes as the loop goes on through the word.
LEMMA AnaLater ==
    ASSUME NEW w \in Seq(Byte), NEW d \in 0 .. Len(w)
    PROVE  /\ Later(w, 0)
           /\ Later(w, d) /\ ~ Ana(w, d) => Later(w, d + 1)
           /\ d + 4 <= Len(w) => Later(w, d + 1)
           /\ Ana(w, d) /\ d + 3 >= Len(w) => d + 3 = Len(w) /\ EndsInAna(w)
           /\ Later(w, d + 1) /\ d >= Len(w) => ~ EndsInAna(w)
<1>1. EndsInAna(w) <=> Len(w) >= 3 /\ Ana(w, Len(w) - 3)
  BY EndsWord
<1>2. Len(w) \in Nat
  OBVIOUS
<1>3. ASSUME EndsInAna(w), d + 3 <= Len(w), ~ Ana(w, d) PROVE d + 4 <= Len(w)
  <2>1. d + 3 = Len(w) => Len(w) - 3 = d
    BY <1>2
  <2>2. d + 3 # Len(w)
    BY <1>1, <1>3, <2>1
  <2> QED
    BY <1>2, <1>3, <2>2
<1>4. ASSUME Ana(w, d), d + 3 >= Len(w) PROVE d + 3 = Len(w) /\ EndsInAna(w)
  <2>1. d + 3 = Len(w) /\ Len(w) - 3 = d
    BY <1>2, <1>4 DEF Ana
  <2> QED
    BY <1>1, <1>4, <2>1
<1> QED
  BY <1>1, <1>2, <1>3, <1>4 DEF Later

\* The capture stack at the start of the word and at its end, and the frames
\* that skip a letter and that accept the word.
Begun == <<MarkOf(0, FALSE, 0)>>
Ended(w) == <<MarkOf(0, FALSE, 0), MarkOf(0, TRUE, Len(w))>>
Skip(d) == Choice(12, d, Begun)
Accept(d) == Choice(16, d, Begun)

\* Where Sample1 is on the way through the word w: d is the start of this turn
\* of the loop.
Paths1(w) ==
    \E d \in 0 .. Len(w) :
        \/ Now(0, 0, <<>>, <<>>)
        \/ Now(3, d, Begun, <<>>) /\ Later(w, d)
        \/ Now(5, d, Begun, <<Skip(d)>>) /\ Later(w, d)
        \/ Now(7, d + 3, Begun, <<Skip(d)>>) /\ Ana(w, d)
        \/ Now(9, d + 3, Begun, <<Skip(d), Accept(d + 3)>>) /\ Ana(w, d)
        \/ Now(10, d + 4, Begun, <<Skip(d), Accept(d + 3)>>) /\ d + 4 <= Len(w)
        \/ Now(12, d, Begun, <<>>) /\ Later(w, d + 1)
        \/ Now(13, d, Begun, <<>>) /\ Later(w, d)
        \/ Now(16, Len(w), Begun, <<Skip(d)>>) /\ EndsInAna(w)
        \/ Now(19, Len(w), Ended(w), <<Skip(d)>>) /\ EndsInAna(w)

\* The answer to .*ana$.
Halted1(w) ==
    /\ ret = "nil"
    /\ \/ R = "Success" /\ EndsInAna(w) /\ KS = Ended(w)
       \/ R = "Failure" /\ ~ EndsInAna(w)

\* Every step of Sample1 stays on its way through the word, or halts with the
\* answer of the regular expression.
LEMMA Step1 ==
    ASSUME Sane, Step, P = Sample1, NEW w, w = I, Paths1(w)
    PROVE  Paths1(w)' \/ Halted1(w)'
<1>0. w \in Seq(Byte) /\ Len(w) \in Nat /\ 21 <= MaxU64 /\ MaxU64 \in Nat
  <2>1. I \in Seq(Byte) /\ P.Len \in U64
    BY DEF Sane, IsProgram
  <2>2. P.Len = 21
    BY Program1
  <2> QED
    BY <2>1, <2>2, MaxU64Assumption DEF U64
<1>u. \A x \in Int : 0 <= x /\ x <= 21 => x \in U64
  BY <1>0 DEF U64
<1>1. PICK d \in 0 .. Len(w) :
        \/ Now(0, 0, <<>>, <<>>)
        \/ Now(3, d, Begun, <<>>) /\ Later(w, d)
        \/ Now(5, d, Begun, <<Skip(d)>>) /\ Later(w, d)
        \/ Now(7, d + 3, Begun, <<Skip(d)>>) /\ Ana(w, d)
        \/ Now(9, d + 3, Begun, <<Skip(d), Accept(d + 3)>>) /\ Ana(w, d)
        \/ Now(10, d + 4, Begun, <<Skip(d), Accept(d + 3)>>) /\ d + 4 <= Len(w)
        \/ Now(12, d, Begun, <<>>) /\ Later(w, d + 1)
        \/ Now(13, d, Begun, <<>>) /\ Later(w, d)
        \/ Now(16, Len(w), Begun, <<Skip(d)>>) /\ EndsInAna(w)
        \/ Now(19, Len(w), Ended(w), <<Skip(d)>>) /\ EndsInAna(w)
  BY Zenon DEF Paths1
<1>d. d \in Nat /\ d <= Len(w) /\ 0 \in 0 .. Len(w)
  BY <1>0
<1>2. CASE Now(0, 0, <<>>, <<>>)
  <2>1. At(Op2("BCAP", 0, 0, 3), 0, 0, <<>>, <<>>)
    BY <1>2, Program1 DEF At
  <2>2. 0 < P.Captures
    BY Program1
  <2>3. Now(0 + 3, 0, Append(<<>>, MarkOf(0, FALSE, 0)), <<>>)'
    BY <2>1, <2>2, DoesCapture, Zenon
  <2>4. Append(<<>>, MarkOf(0, FALSE, 0)) = Begun
    BY AppendOne DEF Begun
  <2>5. Now(3, 0, Begun, <<>>)'
    BY <2>3, <2>4 DEF Now, Begun
  <2>6. Later(w, 0)
    BY <1>0, AnaLater
  <2> QED
    BY <1>d, <2>5, <2>6, Zenon DEF Paths1
<1>3. CASE Now(3, d, Begun, <<>>) /\ Later(w, d)
  <2>1. At(Op2("CHOICE", 7, 0, 2), 3, d, Begun, <<>>)
    BY <1>3, <1>d, Program1 DEF At
  <2>2. 3 + 2 + 7 \in U64
    BY <1>u
  <2>3. Now(3 + 2, d, Begun, Append(<<>>, Choice(3 + 2 + 7, d, Begun)))'
    <3>1. 7 \in Int /\ 2 \in Nat
      OBVIOUS
    <3> QED
      BY <2>1, <2>2, <3>1, DoesChoice, Zenon
  <2>4. Append(<<>>, Choice(3 + 2 + 7, d, Begun)) = <<Skip(d)>>
    BY AppendOne DEF Skip
  <2>5. Now(5, d, Begun, <<Skip(d)>>)'
    BY <2>3, <2>4 DEF Now
  <2> QED
    BY <1>3, <2>5, Zenon DEF Paths1
<1>4. CASE Now(5, d, Begun, <<Skip(d)>>) /\ Later(w, d)
  <2>1. At(Op2("LITB", 0, 0, 2), 5, d, Begun, <<Skip(d)>>)
    BY <1>4, <1>d, Program1 DEF At
  <2>2. P.Literals = <<<<97, 110, 97>>>>
    BY Program1
  <2>3. (Ana(w, d) => Now(5 + 2, d + 3, Begun, <<Skip(d)>>)') /\ (~ Ana(w, d) => fail(<<Skip(d)>>))
    BY <2>1, <2>2, DoesLiteral DEF Ana
  <2>4. CASE Ana(w, d)
    <3>1. Now(7, d + 3, Begun, <<Skip(d)>>)'
      BY <2>3, <2>4 DEF Now
    <3> QED
      BY <2>4, <3>1, Zenon DEF Paths1
  <2>5. CASE ~ Ana(w, d)
    <3>1. Now(12, d, Begun, <<>>)'
      BY <1>4, <2>3, <2>5, Fails DEF Skip, Now
    <3>2. Later(w, d + 1)
      BY <1>0, <1>4, <2>5, AnaLater
    <3> QED
      BY <3>1, <3>2, Zenon DEF Paths1
  <2> QED
    BY <2>4, <2>5
<1>5. CASE Now(7, d + 3, Begun, <<Skip(d)>>) /\ Ana(w, d)
  <2>1. At(Op2("CHOICE", 7, 0, 2), 7, d + 3, Begun, <<Skip(d)>>)
    BY <1>5, <1>d, Program1 DEF At
  <2>2. 7 + 2 + 7 \in U64
    BY <1>u
  <2>3. Now(7 + 2, d + 3, Begun, Append(<<Skip(d)>>, Choice(7 + 2 + 7, d + 3, Begun)))'
    BY <1>d, <2>1, <2>2, DoesChoice
  <2>4. Append(<<Skip(d)>>, Choice(7 + 2 + 7, d + 3, Begun)) = <<Skip(d), Accept(d + 3)>>
    BY AppendOne DEF Accept
  <2>5. Now(9, d + 3, Begun, <<Skip(d), Accept(d + 3)>>)'
    BY <2>3, <2>4 DEF Now
  <2> QED
    BY <1>5, <2>5, Zenon DEF Paths1
<1>6. CASE Now(9, d + 3, Begun, <<Skip(d), Accept(d + 3)>>) /\ Ana(w, d)
  <2>1. At(Op2("ANYB", 1, 0, 1), 9, d + 3, Begun, <<Skip(d), Accept(d + 3)>>)
    BY <1>6, <1>d, Program1 DEF At
  <2>2. CASE d + 3 < Len(w)
    <3>1. Now(9 + 1, d + 3 + 1, Begun, <<Skip(d), Accept(d + 3)>>)'
      BY <2>1, <2>2, DoesAny
    <3>2. Now(10, d + 4, Begun, <<Skip(d), Accept(d + 3)>>)' /\ d + 4 <= Len(w)
      BY <1>0, <1>d, <2>2, <3>1 DEF Now
    <3> QED
      BY <3>2, Zenon DEF Paths1
  <2>3. CASE d + 3 >= Len(w)
    <3>1. fail(<<Skip(d), Accept(d + 3)>>)
      BY <2>1, <2>3, DoesAny
    <3>2. R = "Running"
      BY <1>6 DEF Now
    <3>3. Now(16, d + 3, Begun, <<Skip(d)>>)'
      BY <3>1, <3>2, Fails, Zenon DEF Accept
    <3>4. d + 3 = Len(w) /\ EndsInAna(w)
      BY <1>0, <1>6, <2>3, AnaLater
    <3>5. Now(16, Len(w), Begun, <<Skip(d)>>)'
      BY <3>3, <3>4 DEF Now
    <3> QED
      BY <3>4, <3>5, Zenon DEF Paths1
  <2> QED
    BY <1>0, <1>d, <2>2, <2>3
<1>7. CASE Now(10, d + 4, Begun, <<Skip(d), Accept(d + 3)>>) /\ d + 4 <= Len(w)
  <2>1. At(Op2("FAIL2X", 0, 0, 2), 10, d + 4, Begun, <<Skip(d), Accept(d + 3)>>)
    BY <1>7, <1>d, Program1 DEF At
  <2>2. R = "Running" /\ Accept(d + 3).IsChoice
    BY <1>7 DEF Now, Accept, Choice
  <2>3. fail(<<Skip(d)>>)
    BY <2>1, <2>2, DoesFailTwice
  <2>4. Now(12, d, Begun, <<>>)'
    BY <2>2, <2>3, Fails, Zenon DEF Skip
  <2>5. Later(w, d + 1)
    BY <1>0, <1>7, AnaLater
  <2> QED
    BY <2>4, <2>5, Zenon DEF Paths1
<1>8. CASE Now(12, d, Begun, <<>>) /\ Later(w, d + 1)
  <2>1. At(Op2("ANYB", 1, 0, 1), 12, d, Begun, <<>>)
    BY <1>8, <1>d, Program1 DEF At
  <2>2. CASE d < Len(w)
    <3>1. Now(12 + 1, d + 1, Begun, <<>>)'
      BY <2>1, <2>2, DoesAny
    <3>2. Now(13, d + 1, Begun, <<>>)'
      BY <3>1 DEF Now
    <3>3. d + 1 \in 0 .. Len(w)
      BY <1>0, <1>d, <2>2
    <3> QED
      BY <1>8, <3>2, <3>3, Zenon DEF Paths1
  <2>3. CASE d >= Len(w)
    <3>1. fail(<<>>) /\ R = "Running"
      BY <1>8, <2>1, <2>3, DoesAny DEF Now
    <3>2. ~ EndsInAna(w)
      BY <1>0, <1>8, <2>3, AnaLater
    <3> QED
      BY <3>1, <3>2, Fails, Zenon DEF Halted1
  <2> QED
    BY <1>0, <1>d, <2>2, <2>3
<1>9. CASE Now(13, d, Begun, <<>>) /\ Later(w, d)
  <2>1. At(Op2("JMP", -13, 0, 3), 13, d, Begun, <<>>)
    BY <1>9, <1>d, Program1 DEF At
  <2>2. 13 + 3 + -13 \in U64
    BY <1>u
  <2>3. Now(13 + 3 + -13, d, Begun, <<>>)'
    BY <2>1, <2>2, DoesJump
  <2>4. Now(3, d, Begun, <<>>)'
    BY <2>3 DEF Now
  <2> QED
    BY <1>9, <2>4, Zenon DEF Paths1
<1>10. CASE Now(16, Len(w), Begun, <<Skip(d)>>) /\ EndsInAna(w)
  <2>1. At(Op2("ECAP", 0, 0, 3), 16, Len(w), Begun, <<Skip(d)>>)
    BY <1>10, <1>0, Program1 DEF At
  <2>2. 0 < P.Captures
    BY Program1
  <2>3. Now(16 + 3, Len(w), Append(Begun, MarkOf(0, TRUE, Len(w))), <<Skip(d)>>)'
    BY <2>1, <2>2, DoesCapture, Zenon
  <2>4. Append(Begun, MarkOf(0, TRUE, Len(w))) = Ended(w)
    BY AppendOne, Zenon DEF Begun, Ended
  <2>5. Now(19, Len(w), Ended(w), <<Skip(d)>>)'
    BY <2>3, <2>4 DEF Now, Begun, Ended, MarkOf
  <2> QED
    BY <1>10, <2>5, Zenon DEF Paths1
<1>11. CASE Now(19, Len(w), Ended(w), <<Skip(d)>>) /\ EndsInAna(w)
  <2>1. At(Op2("END", 0, 0, 2), 19, Len(w), Ended(w), <<Skip(d)>>)
    BY <1>11, <1>0, Program1 DEF At
  <2>2. R' = "Success" /\ ret' = "nil" /\ KS' = Ended(w)
    BY <2>1, DoesEnd
  <2> QED
    BY <1>11, <2>2, Zenon DEF Halted1
<1> QED
  BY <1>1, <1>2, <1>3, <1>4, <1>5, <1>6, <1>7, <1>8, <1>9, <1>10, <1>11, Zenon

-----------------------------------------------------------------------------
(* ^b(an)*a$ *)

\* The letter at position k of the words of b(an)*a.
Letters(k) == IF k = 1 THEN 98 ELSE IF k % 2 = 0 THEN 97 ELSE 110

\* The word w starts with b(an)*, of length d.
Bans(w, d) == d % 2 = 1 /\ d <= Len(w) /\ \A k \in 1..d : w[k] = Letters(k)

\* The capture stack after b(an)*, of length d.
MarkAt(k) == IF k = 1 THEN MarkOf(0, FALSE, 0)
             ELSE IF k % 2 = 0 THEN MarkOf(1, FALSE, k - 1) ELSE MarkOf(1, TRUE, k)
MarksOf(d) == [k \in 1..d |-> MarkAt(k)]

\* The letters after an odd number of letters.
LEMMA LettersAre ==
    /\ Letters(1) = 98
    /\ \A d \in Nat : d % 2 = 1 => /\ Letters(d + 1) = 97 /\ Letters(d + 2) = 110
                                   /\ (d + 2) % 2 = 1 /\ (d + 1) % 2 = 0 /\ (d + 1) % 2 # 1
  BY DEF Letters

\* b(an)*a, by its letters.
LEMMA BananaIs ==
    ASSUME NEW w \in Seq(Byte)
    PROVE  IsBanana(w) <=> /\ Len(w) >= 2 /\ Len(w) % 2 = 0
                           /\ \A k \in 1 .. Len(w) : w[k] = Letters(k)
<1>1. Letter.a = 97 /\ Letter.n = 110 /\ Letter.b = 98 /\ DOMAIN w = 1 .. Len(w)
  BY DEF Letter
<1> QED
  BY <1>1 DEF IsBanana, Letters

\* b(an)* starts with a b.
LEMMA BansStart ==
    ASSUME NEW w \in Seq(Byte)
    PROVE  /\ 0 < Len(w) /\ w[0 + 1] = 98 => 1 \in 1 .. Len(w) /\ Bans(w, 1)
           /\ IsBanana(w) => 0 < Len(w) /\ w[0 + 1] = 98
<1>1. \A k \in 1..1 : k = 1
  OBVIOUS
<1>2. Len(w) \in Nat /\ 1 % 2 = 1
  OBVIOUS
<1> QED
  BY <1>1, <1>2, LettersAre, BananaIs DEF Bans

\* How b(an)* of length d goes on.
LEMMA BansNext ==
    ASSUME NEW w \in Seq(Byte), NEW d \in 1 .. Len(w), Bans(w, d)
    PROVE  /\ IsBanana(w) => d + 1 <= Len(w) /\ w[d + 1] = 97
           /\ d + 2 <= Len(w) /\ w[d + 1] = 97 /\ w[d + 2] = 110 => Bans(w, d + 2)
           /\ Bans(w, d + 2) => d + 2 <= Len(w) /\ w[d + 1] = 97 /\ w[d + 2] = 110
           /\ d + 1 = Len(w) /\ w[d + 1] = 97 => IsBanana(w)
           /\ IsBanana(w) /\ d + 2 <= Len(w) => Bans(w, d + 2)
<1>1. /\ d \in Nat /\ d % 2 = 1 /\ d <= Len(w) /\ Len(w) \in Nat
      /\ Letters(d + 1) = 97 /\ Letters(d + 2) = 110 /\ (d + 2) % 2 = 1 /\ (d + 1) % 2 = 0
  <2>1. d \in Nat /\ d % 2 = 1 /\ d <= Len(w) /\ Len(w) \in Nat
    BY DEF Bans
  <2> QED
    BY <2>1, LettersAre
<1>2. \A k \in 1..d : w[k] = Letters(k)
  BY DEF Bans
<1>3. /\ \A k \in 1 .. d + 1 : k \in 1..d \/ k = d + 1
      /\ \A k \in 1 .. d + 2 : k \in 1..d \/ k = d + 1 \/ k = d + 2
  BY <1>1
<1>4. /\ IsBanana(w) => d + 1 <= Len(w) /\ w[d + 1] = 97
  <2> SUFFICES ASSUME IsBanana(w) PROVE d + 1 <= Len(w) /\ w[d + 1] = 97
    OBVIOUS
  <2>1. Len(w) % 2 = 0 /\ \A k \in 1 .. Len(w) : w[k] = Letters(k)
    BY BananaIs
  <2>2. d # Len(w)
    BY <1>1, <2>1
  <2>3. d + 1 <= Len(w)
    BY <1>1, <2>2
  <2> QED
    BY <1>1, <2>1, <2>3
<1>5. /\ d + 2 <= Len(w) /\ w[d + 1] = 97 /\ w[d + 2] = 110 => Bans(w, d + 2)
  BY <1>1, <1>2, <1>3 DEF Bans
<1>6. Bans(w, d + 2) => d + 2 <= Len(w) /\ w[d + 1] = 97 /\ w[d + 2] = 110
  <2>1. d + 1 \in 1 .. d + 2 /\ d + 2 \in 1 .. d + 2
    BY <1>1
  <2> QED
    BY <1>1, <2>1 DEF Bans
<1>7. d + 1 = Len(w) /\ w[d + 1] = 97 => IsBanana(w)
  <2> SUFFICES ASSUME d + 1 = Len(w), w[d + 1] = 97 PROVE IsBanana(w)
    OBVIOUS
  <2>1. Len(w) >= 2 /\ Len(w) % 2 = 0
    BY <1>1
  <2>2. \A k \in 1 .. Len(w) : w[k] = Letters(k)
    BY <1>1, <1>2, <1>3
  <2> QED
    BY <2>1, <2>2, BananaIs
<1>8. IsBanana(w) /\ d + 2 <= Len(w) => Bans(w, d + 2)
  <2> SUFFICES ASSUME IsBanana(w), d + 2 <= Len(w) PROVE Bans(w, d + 2)
    OBVIOUS
  <2>1. \A k \in 1 .. Len(w) : w[k] = Letters(k)
    BY BananaIs
  <2> QED
    BY <1>1, <2>1 DEF Bans
<1> QED
  BY <1>4, <1>5, <1>6, <1>7, <1>8

\* The marks of the next (an).
LEMMA MarksNext ==
    /\ MarksOf(1) = Begun
    /\ \A d \in Nat : d % 2 = 1 =>
          Append(Append(MarksOf(d), MarkOf(1, FALSE, (d + 2) - 2)), MarkOf(1, TRUE, d + 2)) =
            MarksOf(d + 2)
<1>1. MarksOf(1) = Begun
  <2> DEFINE b == MarkOf(0, FALSE, 0)
  <2>1. \A k \in 1..1 : MarkAt(k) = b
    BY DEF MarkAt
  <2> HIDE DEF b
  <2>2. [k \in 1..1 |-> MarkAt(k)] = <<b>>
    BY <2>1
  <2> QED
    BY <2>2 DEF MarksOf, Begun, b
<1>2. ASSUME NEW d \in Nat, d % 2 = 1
      PROVE  Append(Append(MarksOf(d), MarkOf(1, FALSE, (d + 2) - 2)), MarkOf(1, TRUE, d + 2)) =
               MarksOf(d + 2)
  <2> DEFINE m == MarksOf(d)
             S == {MarkAt(k) : k \in Nat}
             x == MarkOf(1, FALSE, (d + 2) - 2)
             y == MarkOf(1, TRUE, d + 2)
  <2>1. MarkAt(d + 1) = x /\ MarkAt(d + 2) = y
    <3>1. d + 1 # 1 /\ d + 2 # 1 /\ (d + 1) % 2 = 0 /\ (d + 2) % 2 # 0 /\ d + 1 - 1 = (d + 2) - 2
      BY <1>2
    <3> QED
      BY <3>1 DEF MarkAt
  <2>2. m = [k \in 1..d |-> MarkAt(k)] /\ MarksOf(d + 2) = [k \in 1 .. d + 2 |-> MarkAt(k)]
    BY DEF MarksOf
  <2>3. x \in S /\ y \in S /\ \A k \in Nat : MarkAt(k) \in S
    <3>1. d + 1 \in Nat /\ d + 2 \in Nat
      OBVIOUS
    <3> HIDE DEF x, y
    <3> QED
      BY <2>1, <3>1, Zenon
  <2> HIDE DEF S, x, y, m
  <2>4. m \in Seq(S) /\ Len(m) = d /\ \A k \in 1..d : m[k] = MarkAt(k)
    BY <1>2, <2>2, <2>3
  <2> DEFINE n == Append(m, x)
             o == Append(n, y)
  <2>5. n \in Seq(S) /\ Len(n) = d + 1 /\ \A k \in 1 .. d + 1 : n[k] = MarkAt(k)
    <3>1. n \in Seq(S) /\ Len(n) = Len(m) + 1 /\ \A k \in 1 .. Len(m) + 1 : n[k] =
            IF k <= Len(m) THEN m[k] ELSE x
      BY <2>3, <2>4, AppendProps
    <3> HIDE DEF n
    <3> QED
      BY <1>2, <2>1, <2>4, <3>1
  <2> HIDE DEF n
  <2>6. o \in Seq(S) /\ Len(o) = d + 2 /\ \A k \in 1 .. d + 2 : o[k] = MarkAt(k)
    <3>1. o \in Seq(S) /\ Len(o) = Len(n) + 1 /\ \A k \in 1 .. Len(n) + 1 : o[k] =
            IF k <= Len(n) THEN n[k] ELSE y
      BY <2>3, <2>5, AppendProps
    <3> HIDE DEF o
    <3> QED
      BY <1>2, <2>1, <2>5, <3>1
  <2> HIDE DEF o
  <2>7. o = MarksOf(d + 2)
    <3>1. o = [k \in 1 .. d + 2 |-> o[k]]
      BY <1>2, <2>6
    <3> QED
      BY <2>2, <2>6, <3>1
  <2> QED
    BY <2>7, Zenon DEF o, n, m, x, y
<1> QED
  BY <1>1, <1>2, Zenon

\* The frames that leave the loop and that accept the word.
Leave(d) == Choice(17, d, MarksOf(d))
Finish(d) == Choice(24, d + 1, MarksOf(d))
\* The capture stack at the end of the word.
AllMarks(w) == Append(MarksOf(Len(w) - 1), MarkOf(0, TRUE, Len(w)))

\* Where Sample2 is in the word w after b(an)* of length d: in the middle of the
\* next (an), or of the end.
Round(w, d) ==
    \/ Now(5, d, MarksOf(d), <<>>)
    \/ Now(7, d, MarksOf(d), <<Leave(d)>>)
    \/ Now(9, d + 1, MarksOf(d), <<Leave(d)>>) /\ d + 1 <= Len(w) /\ w[d + 1] = 97
    \/ Now(11, d + 2, MarksOf(d), <<Leave(d)>>) /\ Bans(w, d + 2)
    \/ Now(15, d + 2, MarksOf(d + 2), <<Leave(d)>>) /\ Bans(w, d + 2)
    \/ /\ ~ Bans(w, d + 2)
       /\ \/ Now(17, d, MarksOf(d), <<>>)
          \/ /\ d + 1 <= Len(w) /\ w[d + 1] = 97
             /\ \/ Now(19, d + 1, MarksOf(d), <<>>)
                \/ Now(21, d + 1, MarksOf(d), <<Finish(d)>>)
                \/ Now(22, d + 2, MarksOf(d), <<Finish(d)>>) /\ d + 2 <= Len(w)
          \/ Now(24, Len(w), MarksOf(d), <<>>) /\ IsBanana(w) /\ d + 1 = Len(w)
          \/ Now(27, Len(w), AllMarks(w), <<>>) /\ IsBanana(w)

\* Where Sample2 is on the way through the word w.
Paths2(w) ==
    \/ Now(0, 0, <<>>, <<>>)
    \/ Now(3, 0, Begun, <<>>)
    \/ \E d \in 1 .. Len(w) : Bans(w, d) /\ Round(w, d)

\* The answer to ^b(an)*a$.
Halted2(w) ==
    /\ ret = "nil"
    /\ \/ R = "Success" /\ IsBanana(w) /\ KS = AllMarks(w)
       \/ R = "Failure" /\ ~ IsBanana(w)

\* The state, with the program counter and the captures under other names.
LEMMA SameNow ==
    ASSUME NEW xp, NEW dp, NEW caps, NEW cs, Now(xp, dp, caps, cs)', NEW xp2, NEW caps2,
             xp = xp2, caps = caps2
    PROVE  Now(xp2, dp, caps2, cs)'
  BY DEF Now

\* Every step of Sample2 stays on its way through the word, or halts with the
\* answer of the regular expression.
LEMMA Step2 ==
    ASSUME Sane, Step, P = Sample2, NEW w, w = I, Paths2(w)
    PROVE  Paths2(w)' \/ Halted2(w)'
<1>0. w \in Seq(Byte) /\ Len(w) \in Nat /\ 29 <= MaxU64 /\ MaxU64 \in Nat
  <2>1. I \in Seq(Byte) /\ P.Len \in U64
    BY DEF Sane, IsProgram
  <2>2. P.Len = 29
    BY Program2
  <2> QED
    BY <2>1, <2>2, MaxU64Assumption DEF U64
<1>u. \A x \in Int : 0 <= x /\ x <= 29 => x \in U64
  BY <1>0 DEF U64
<1>b. 97 \in Byte /\ 98 \in Byte /\ 110 \in Byte
  BY DEF Byte
<1>1. CASE Now(0, 0, <<>>, <<>>)
  <2>1. At(Op2("BCAP", 0, 0, 3), 0, 0, <<>>, <<>>)
    BY <1>1, Program2 DEF At
  <2>2. 0 < P.Captures
    BY Program2
  <2>3. Now(0 + 3, 0, Append(<<>>, MarkOf(0, FALSE, 0)), <<>>)'
    BY <2>1, <2>2, DoesCapture, Zenon
  <2>4. Append(<<>>, MarkOf(0, FALSE, 0)) = Begun
    BY AppendOne DEF Begun
  <2>5. Now(3, 0, Begun, <<>>)'
    BY <2>3, <2>4 DEF Now, Begun
  <2> QED
    BY <2>5, Zenon DEF Paths2
<1>2. CASE Now(3, 0, Begun, <<>>)
  <2> DEFINE good == 0 < Len(w) /\ w[0 + 1] = 98
  <2>1. At(Op2("SAMEB", 98, 1, 2), 3, 0, Begun, <<>>)
    BY <1>2, Program2 DEF At
  <2>2. (good => Now(3 + 2, 0 + 1, Begun, <<>>)') /\ (~ good => fail(<<>>))
    BY <1>b, <2>1, DoesSame
  <2>3. CASE good
    <3>1. Now(5, 1, Begun, <<>>)'
      BY <2>2, <2>3 DEF Now
    <3>2. Now(5, 1, MarksOf(1), <<>>)'
      BY <3>1, MarksNext, Zenon
    <3>3. 1 \in 1 .. Len(w) /\ Bans(w, 1)
      BY <1>0, <2>3, BansStart
    <3> QED
      BY <3>2, <3>3, Zenon DEF Paths2, Round
  <2>4. CASE ~ good
    <3>1. ~ IsBanana(w)
      BY <1>0, <2>4, BansStart
    <3>2. R = "Running"
      BY <1>2 DEF Now
    <3> QED
      BY <2>2, <2>4, <3>1, <3>2, Fails, Zenon DEF Halted2
  <2> QED
    BY <2>3, <2>4
<1>3. CASE ~ Now(0, 0, <<>>, <<>>) /\ ~ Now(3, 0, Begun, <<>>)
  <2>1. PICK d \in 1 .. Len(w) : Bans(w, d) /\ Round(w, d)
    BY <1>3, Zenon DEF Paths2
  <2> DEFINE an == d + 1 <= Len(w) /\ w[d + 1] = 97
  <2>d. d \in Nat /\ d + 1 \in Nat /\ d + 2 \in Nat /\ d <= Len(w) /\ d % 2 = 1
    BY <1>0, <2>1 DEF Bans
  <2>n. /\ IsBanana(w) => d + 1 <= Len(w) /\ w[d + 1] = 97
        /\ d + 2 <= Len(w) /\ w[d + 1] = 97 /\ w[d + 2] = 110 => Bans(w, d + 2)
        /\ Bans(w, d + 2) => d + 2 <= Len(w) /\ w[d + 1] = 97 /\ w[d + 2] = 110
        /\ d + 1 = Len(w) /\ w[d + 1] = 97 => IsBanana(w)
        /\ IsBanana(w) /\ d + 2 <= Len(w) => Bans(w, d + 2)
    BY <1>0, <2>1, BansNext
  <2>2. CASE Now(5, d, MarksOf(d), <<>>)
    <3>1. At(Op2("CHOICE", 10, 0, 2), 5, d, MarksOf(d), <<>>)
      BY <2>2, <2>d, Program2 DEF At
    <3>2. 5 + 2 + 10 \in U64 /\ 10 \in Int /\ 2 \in Nat
      BY <1>u
    <3>3. Now(5 + 2, d, MarksOf(d), Append(<<>>, Choice(5 + 2 + 10, d, MarksOf(d))))'
      BY <3>1, <3>2, DoesChoice, Zenon
    <3>4. Append(<<>>, Choice(5 + 2 + 10, d, MarksOf(d))) = <<Leave(d)>>
      BY AppendOne DEF Leave
    <3>5. Now(7, d, MarksOf(d), <<Leave(d)>>)'
      BY <3>3, <3>4 DEF Now
    <3> QED
      BY <2>1, <3>5, Zenon DEF Paths2, Round
  <2>3. CASE Now(7, d, MarksOf(d), <<Leave(d)>>)
    <3>1. At(Op2("SAMEB", 97, 1, 2), 7, d, MarksOf(d), <<Leave(d)>>)
      BY <2>3, <2>d, Program2 DEF At
    <3>2. d < Len(w) <=> d + 1 <= Len(w)
      BY <1>0, <2>d
    <3>3. (an => Now(7 + 2, d + 1, MarksOf(d), <<Leave(d)>>)') /\ (~ an => fail(<<Leave(d)>>))
      BY <1>b, <3>1, <3>2, DoesSame
    <3>4. CASE an
      <4>1. Now(9, d + 1, MarksOf(d), <<Leave(d)>>)'
        BY <3>3, <3>4 DEF Now
      <4> QED
        BY <2>1, <3>4, <4>1, Zenon DEF Paths2, Round
    <3>5. CASE ~ an
      <4>1. R = "Running"
        BY <2>3 DEF Now
      <4>2. Now(17, d, MarksOf(d), <<>>)'
        BY <3>3, <3>5, <4>1, Fails, Zenon DEF Leave
      <4>3. ~ Bans(w, d + 2)
        BY <1>0, <2>d, <2>n, <3>5
      <4> QED
        BY <2>1, <4>2, <4>3, Zenon DEF Paths2, Round
    <3> QED
      BY <3>4, <3>5
  <2>4. CASE Now(9, d + 1, MarksOf(d), <<Leave(d)>>) /\ an
    <3> DEFINE good == d + 1 < Len(w) /\ w[d + 1 + 1] = 110
    <3>1. At(Op2("SAMEB", 110, 1, 2), 9, d + 1, MarksOf(d), <<Leave(d)>>)
      BY <2>4, <2>d, Program2 DEF At
    <3>2. good <=> Bans(w, d + 2)
      <4>1. (d + 1 < Len(w) <=> d + 2 <= Len(w)) /\ d + 1 + 1 = d + 2
        BY <1>0, <2>d
      <4> QED
        BY <2>4, <2>n, <4>1
    <3>3. (good => Now(9 + 2, d + 1 + 1, MarksOf(d), <<Leave(d)>>)')
            /\ (~ good => fail(<<Leave(d)>>))
      BY <1>b, <2>d, <3>1, DoesSame
    <3>4. CASE good
      <4>1. Now(11, d + 2, MarksOf(d), <<Leave(d)>>)'
        BY <2>d, <3>3, <3>4 DEF Now
      <4> QED
        BY <2>1, <3>2, <3>4, <4>1, Zenon DEF Paths2, Round
    <3>5. CASE ~ good
      <4>1. R = "Running"
        BY <2>4 DEF Now
      <4>2. Now(17, d, MarksOf(d), <<>>)'
        BY <3>3, <3>5, <4>1, Fails, Zenon DEF Leave
      <4> QED
        BY <2>1, <3>2, <3>5, <4>2, Zenon DEF Paths2, Round
    <3> QED
      BY <3>4, <3>5
  <2>5. CASE Now(11, d + 2, MarksOf(d), <<Leave(d)>>) /\ Bans(w, d + 2)
    <3>1. At(Op2("FCAP", 1, 2, 4), 11, d + 2, MarksOf(d), <<Leave(d)>>)
      BY <2>5, <2>d, Program2 DEF At
    <3>2. 1 < P.Captures /\ 1 \in Nat /\ 4 \in Nat /\ 2 \in Nat /\ 2 <= d + 2
      BY <2>d, Program2
    <3>3. Now(11 + 4, d + 2, Append(Append(MarksOf(d), MarkOf(1, FALSE, (d + 2) - 2)),
            MarkOf(1, TRUE, d + 2)),
              <<Leave(d)>>)'
      BY <3>1, <3>2, DoesFullCapture, Zenon
    <3>4. Append(Append(MarksOf(d), MarkOf(1, FALSE, (d + 2) - 2)), MarkOf(1, TRUE, d + 2)) =
            MarksOf(d + 2)
      BY <2>d, MarksNext, Zenon
    <3>5. Now(15, d + 2, MarksOf(d + 2), <<Leave(d)>>)'
      BY <3>3, <3>4, SameNow, 11 + 4 = 15, Zenon
    <3> QED
      BY <2>1, <2>5, <3>5, Zenon DEF Paths2, Round
  <2>6. CASE Now(15, d + 2, MarksOf(d + 2), <<Leave(d)>>) /\ Bans(w, d + 2)
    <3>1. At(Op2("COMMIT", -12, 0, 2), 15, d + 2, MarksOf(d + 2), <<Leave(d)>>)
      BY <2>6, <2>d, Program2 DEF At
    <3>2. 15 + 2 + -12 \in U64 /\ -12 \in Int /\ Leave(d).IsChoice
      BY <1>u DEF Leave, Choice
    <3>3. Now(15 + 2 + -12, d + 2, MarksOf(d + 2), <<>>)'
      BY <1>b, <3>1, <3>2, DoesCommit
    <3>4. Now(5, d + 2, MarksOf(d + 2), <<>>)'
      BY <3>3 DEF Now
    <3>5. d + 2 \in 1 .. Len(w)
      BY <1>0, <2>6, <2>d, <2>n
    <3> QED
      BY <2>6, <3>4, <3>5, Zenon DEF Paths2, Round
  <2>7. CASE ~ Bans(w, d + 2) /\ Now(17, d, MarksOf(d), <<>>)
    <3>1. At(Op2("SAMEB", 97, 1, 2), 17, d, MarksOf(d), <<>>)
      BY <2>7, <2>d, Program2 DEF At
    <3>2. d < Len(w) <=> d + 1 <= Len(w)
      BY <1>0, <2>d
    <3>3. (an => Now(17 + 2, d + 1, MarksOf(d), <<>>)') /\ (~ an => fail(<<>>))
      BY <1>b, <3>1, <3>2, DoesSame
    <3>4. CASE an
      <4>1. Now(19, d + 1, MarksOf(d), <<>>)'
        BY <3>3, <3>4 DEF Now
      <4> QED
        BY <2>1, <2>7, <3>4, <4>1, Zenon DEF Paths2, Round
    <3>5. CASE ~ an
      <4>1. R = "Running"
        BY <2>7 DEF Now
      <4>2. ~ IsBanana(w)
        BY <2>n, <3>5
      <4> QED
        BY <3>3, <3>5, <4>1, <4>2, Fails, Zenon DEF Halted2
    <3> QED
      BY <3>4, <3>5
  <2>8. CASE ~ Bans(w, d + 2) /\ an /\ Now(19, d + 1, MarksOf(d), <<>>)
    <3>1. At(Op2("CHOICE", 3, 0, 2), 19, d + 1, MarksOf(d), <<>>)
      BY <2>8, <2>d, Program2 DEF At
    <3>2. 19 + 2 + 3 \in U64 /\ 3 \in Int /\ 2 \in Nat
      BY <1>u
    <3>3. Now(19 + 2, d + 1, MarksOf(d), Append(<<>>, Choice(19 + 2 + 3, d + 1, MarksOf(d))))'
      BY <3>1, <3>2, DoesChoice, Zenon
    <3>4. Append(<<>>, Choice(19 + 2 + 3, d + 1, MarksOf(d))) = <<Finish(d)>>
      BY AppendOne DEF Finish
    <3>5. Now(21, d + 1, MarksOf(d), <<Finish(d)>>)'
      BY <3>3, <3>4 DEF Now
    <3> QED
      BY <2>1, <2>8, <3>5, Zenon DEF Paths2, Round
  <2>9. CASE ~ Bans(w, d + 2) /\ an /\ Now(21, d + 1, MarksOf(d), <<Finish(d)>>)
    <3>1. At(Op2("ANYB", 1, 0, 1), 21, d + 1, MarksOf(d), <<Finish(d)>>)
      BY <2>9, <2>d, Program2 DEF At
    <3>2. CASE d + 1 < Len(w)
      <4>1. Now(21 + 1, d + 1 + 1, MarksOf(d), <<Finish(d)>>)'
        BY <3>1, <3>2, DoesAny
      <4>2. Now(22, d + 2, MarksOf(d), <<Finish(d)>>)' /\ d + 2 <= Len(w)
        BY <1>0, <2>d, <3>2, <4>1 DEF Now
      <4> QED
        BY <2>1, <2>9, <4>2, Zenon DEF Paths2, Round
    <3>3. CASE d + 1 >= Len(w)
      <4>1. fail(<<Finish(d)>>)
        BY <3>1, <3>3, DoesAny
      <4>2. R = "Running"
        BY <2>9 DEF Now
      <4>3. Now(24, d + 1, MarksOf(d), <<>>)'
        BY <4>1, <4>2, Fails, Zenon DEF Finish
      <4>4. d + 1 = Len(w) /\ IsBanana(w)
        BY <1>0, <2>9, <2>d, <2>n, <3>3
      <4>5. Now(24, Len(w), MarksOf(d), <<>>)'
        BY <4>3, <4>4 DEF Now
      <4> QED
        BY <2>1, <2>9, <4>4, <4>5, Zenon DEF Paths2, Round
    <3> QED
      BY <1>0, <2>d, <3>2, <3>3
  <2>10. CASE ~ Bans(w, d + 2) /\ Now(22, d + 2, MarksOf(d), <<Finish(d)>>) /\ d + 2 <= Len(w)
    <3>1. At(Op2("FAIL2X", 0, 0, 2), 22, d + 2, MarksOf(d), <<Finish(d)>>)
      BY <2>10, <2>d, Program2 DEF At
    <3>2. R = "Running" /\ Finish(d).IsChoice
      BY <2>10 DEF Now, Finish, Choice
    <3>3. fail(<<>>)
      BY <3>1, <3>2, DoesFailTwice
    <3>4. ~ IsBanana(w)
      BY <2>10, <2>n
    <3> QED
      BY <3>2, <3>3, <3>4, Fails, Zenon DEF Halted2
  <2>11. CASE ~ Bans(w, d + 2) /\ Now(24, Len(w), MarksOf(d), <<>>) /\ IsBanana(w) /\ d + 1 = Len(w)
    <3>1. At(Op2("ECAP", 0, 0, 3), 24, Len(w), MarksOf(d), <<>>)
      BY <1>0, <2>11, Program2 DEF At
    <3>2. 0 < P.Captures
      BY Program2
    <3>3. Now(24 + 3, Len(w), Append(MarksOf(d), MarkOf(0, TRUE, Len(w))), <<>>)'
      BY <3>1, <3>2, DoesCapture, Zenon
    <3>4. d = Len(w) - 1
      BY <2>11, <2>d
    <3>5. Append(MarksOf(d), MarkOf(0, TRUE, Len(w))) = AllMarks(w)
      BY <3>4 DEF AllMarks
    <3>6. Now(27, Len(w), AllMarks(w), <<>>)'
      BY <3>3, <3>5, SameNow, 24 + 3 = 27, Zenon
    <3> QED
      BY <2>1, <2>11, <3>6, Zenon DEF Paths2, Round
  <2>12. CASE Now(27, Len(w), AllMarks(w), <<>>) /\ IsBanana(w)
    <3>1. At(Op2("END", 0, 0, 2), 27, Len(w), AllMarks(w), <<>>)
      BY <1>0, <2>12, Program2 DEF At
    <3>2. R' = "Success" /\ ret' = "nil" /\ KS' = AllMarks(w)
      BY <3>1, DoesEnd
    <3> QED
      BY <2>12, <3>2, Zenon DEF Halted2
  <2> QED
    BY <2>1, <2>2, <2>3, <2>4, <2>5, <2>6, <2>7, <2>8, <2>9, <2>10, <2>11, <2>12, Zenon
       DEF Round
<1> QED
  BY <1>1, <1>2, <1>3, Zenon

-----------------------------------------------------------------------------
(* The captures of the samples. *)

\* Every nonempty set of naturals has a least element.
LEMMA LeastNatural ==
    ASSUME NEW T, T \subseteq Nat, T # {}
    PROVE  \E n \in T : \A m \in T : n <= m
<1> DEFINE less == {e \in Nat \X Nat : e[1] < e[2]}
<1>1. IsWellFoundedOn(less, Nat)
  BY NatLessThanWellFounded DEF OpToRel
<1> HIDE DEF less
<1>2. PICK n \in T : \A m \in T : ~ (<<m, n>> \in less)
  BY <1>1, WFMin, Zenon
<1>3. \A m \in T : m \in Nat /\ n \in Nat /\ ~ m < n
  BY <1>2, Zenon DEF less
<1> QED
  BY <1>3

\* What Match's loop has collected: the captures, and where they have started.
Loop(cs, ps) == [captures |-> cs, pending |-> ps]

\* The same for the samples: captures 0 and 1, and where capture 1 has started.
\* Capture 0 of the samples starts at 0.
Either(zero, one) == [c \in Indices |-> IF c = 0 THEN zero ELSE one]
Held(first, second, start) == Loop(Either(first, second), Either(0, start))

\* A capture that ends with pair, and a function with a new value.
Ending(pair, multi) == [Exists |-> TRUE, Solo |-> pair, Multi |-> Append(multi, pair)]
Put(f, x, v) == [f EXCEPT ![x] = v]

\* The two marks of a capture.
StartOf(x, dp) == MarkOf(x, FALSE, dp)
EndOf(x, dp) == MarkOf(x, TRUE, dp)

\* A mark takes the loop from acc to next.
Takes(acc, mark, next) == apply(acc, mark) = next

\* What a mark does.
LEMMA ApplyIs ==
    ASSUME NEW cs, NEW ps, NEW x, NEW dp
    PROVE  /\ Takes(Loop(cs, ps), StartOf(x, dp), Loop(cs, Put(ps, x, dp)))
           /\ Takes(Loop(cs, ps), EndOf(x, dp),
                    Loop(Put(cs, x, Ending([S |-> ps[x], E |-> dp], cs[x].Multi)), Put(ps, x, 0)))
<1> DEFINE acc == Loop(cs, ps)
           a == StartOf(x, dp)
           b == EndOf(x, dp)
<1>1. acc.captures = cs /\ acc.pending = ps
  BY DEF Loop
<1>2. a.Index = x /\ ~ a.IsEnd /\ a.DP = dp /\ b.Index = x /\ b.IsEnd /\ b.DP = dp
  BY DEF MarkOf, StartOf, EndOf
<1>3. [acc EXCEPT !.pending[x] = dp] = Loop(cs, Put(ps, x, dp))
  BY DEF Loop, Put
<1> HIDE DEF acc, a, b
<1>4. apply(acc, a) = [acc EXCEPT !.pending[a.Index] = a.DP]
  BY <1>2 DEF apply
<1>5. apply(acc, b) =
         Loop(Put(acc.captures, b.Index,
                  Ending([S |-> acc.pending[b.Index], E |-> b.DP], acc.captures[b.Index].Multi)),
              Put(acc.pending, b.Index, 0))
  BY <1>2 DEF apply, Loop, Put, Ending
<1>6. apply(acc, a) = Loop(cs, Put(ps, x, dp))
  BY <1>2, <1>3, <1>4
<1>7. apply(acc, b) =
         Loop(Put(cs, x, Ending([S |-> ps[x], E |-> dp], cs[x].Multi)), Put(ps, x, 0))
  BY <1>1, <1>2, <1>5, Zenon
<1> QED
  BY <1>6, <1>7, Zenon DEF acc, a, b, Takes

\* What the marks of the samples do.
LEMMA Applies ==
    ASSUME \A c \in Indices : c \in {0, 1}, 0 \in Indices, NEW first, NEW second, NEW start, NEW dp
    PROVE  LET acc == Held(first, second, start)
               whole == [S |-> 0, E |-> dp]
               part == [S |-> start, E |-> dp]
           IN  /\ Takes(acc, StartOf(0, 0), acc)
               /\ Takes(acc, EndOf(0, dp), Held(Ending(whole, first.Multi), second, start))
               /\ 1 \in Indices =>
                     /\ Takes(acc, StartOf(1, dp), Held(first, second, dp))
                     /\ Takes(acc, EndOf(1, dp), Held(first, Ending(part, second.Multi), 0))
<1>1. ASSUME NEW zero, NEW one, NEW v
      PROVE  Either(zero, one)[0] = zero /\ Put(Either(zero, one), 0, v) = Either(v, one)
  <2>1. Either(zero, one)[0] = zero
    BY DEF Either
  <2>2. Put(Either(zero, one), 0, v) = Either(v, one)
    BY Zenon DEF Either, Put
  <2> QED
    BY <2>1, <2>2
<1>2. ASSUME NEW zero, NEW one, NEW v, 1 \in Indices
      PROVE  Either(zero, one)[1] = one /\ Put(Either(zero, one), 1, v) = Either(zero, v)
  <2>1. Either(zero, one)[1] = one
    BY <1>2 DEF Either
  <2>2. Put(Either(zero, one), 1, v) =
           [c \in Indices |-> IF c = 1 THEN v ELSE Either(zero, one)[c]]
    BY Zenon DEF Either, Put
  <2>3. \A c \in Indices :
           (IF c = 1 THEN v ELSE Either(zero, one)[c]) = IF c = 0 THEN zero ELSE v
    BY DEF Either
  <2>4. Put(Either(zero, one), 1, v) = Either(zero, v)
    BY <2>2, <2>3 DEF Either
  <2> QED
    BY <2>1, <2>4
<1> DEFINE cs == Either(first, second)
           ps == Either(0, start)
           whole == [S |-> 0, E |-> dp]
           part == [S |-> start, E |-> dp]
<1>3. /\ cs[0] = first /\ [S |-> ps[0], E |-> dp] = whole
      /\ 1 \in Indices => cs[1] = second /\ [S |-> ps[1], E |-> dp] = part
  BY <1>1, <1>2
<1>4. /\ \A v : Put(cs, 0, v) = Either(v, second)
      /\ Put(ps, 0, 0) = ps
      /\ 1 \in Indices => \A v : Put(cs, 1, v) = Either(first, v) /\ Put(ps, 1, v) = Either(0, v)
  BY <1>1, <1>2
<1>5. Held(first, second, start) = Loop(cs, ps)
  BY DEF Held
<1> HIDE DEF cs, ps, whole, part
<1>6. Takes(Loop(cs, ps), StartOf(0, 0), Loop(cs, ps))
  <2>1. Takes(Loop(cs, ps), StartOf(0, 0), Loop(cs, Put(ps, 0, 0)))
    BY ApplyIs, Zenon
  <2> QED
    BY <1>4, <2>1
<1>7. Takes(Loop(cs, ps), EndOf(0, dp), Loop(Either(Ending(whole, first.Multi), second), ps))
  <2>1. Takes(Loop(cs, ps), EndOf(0, dp),
              Loop(Put(cs, 0, Ending([S |-> ps[0], E |-> dp], cs[0].Multi)), Put(ps, 0, 0)))
    BY ApplyIs, Zenon
  <2> QED
    BY <1>3, <1>4, <2>1
<1>8. ASSUME 1 \in Indices
      PROVE  /\ Takes(Loop(cs, ps), StartOf(1, dp), Loop(cs, Either(0, dp)))
             /\ Takes(Loop(cs, ps), EndOf(1, dp),
                      Loop(Either(first, Ending(part, second.Multi)), Either(0, 0)))
  <2>1. Takes(Loop(cs, ps), StartOf(1, dp), Loop(cs, Put(ps, 1, dp)))
    BY ApplyIs, Zenon
  <2>2. Takes(Loop(cs, ps), EndOf(1, dp),
              Loop(Put(cs, 1, Ending([S |-> ps[1], E |-> dp], cs[1].Multi)), Put(ps, 1, 0)))
    BY ApplyIs, Zenon
  <2> QED
    BY <1>3, <1>4, <1>8, <2>1, <2>2
<1> QED
  BY <1>5, <1>6, <1>7, <1>8, Zenon DEF Held, cs, ps, whole, part

\* Match's loop collects what a sequence g of such collections ends with, when
\* every one comes from the one before it.
LEMMA LoopIs ==
    ASSUME Len(KS) \in Nat, NEW g, g = [k \in 0 .. Len(KS) |-> g[k]],
           g[0] = Held(NoCapture, NoCapture, 0),
           \A k \in 1 .. Len(KS) : g[k] = apply(g[k - 1], KS[k])
    PROVE  captures = g[Len(KS)].captures
<1> DEFINE Empty == Loop([c \in Indices |-> NoCapture], [c \in Indices |-> 0])
           rhs(f) == [k \in 0 .. Len(KS) |-> IF k = 0 THEN Empty ELSE apply(f[k - 1], KS[k])]
           after == CHOOSE f : f = rhs(f)
<1>1. captures = after[Len(KS)].captures
  BY DEF captures, Loop
<1>2. g[0] = Empty
  BY DEF Held, Either
<1> HIDE DEF Empty
<1>3. \A k \in 0 .. Len(KS) : g[k] = IF k = 0 THEN Empty ELSE apply(g[k - 1], KS[k])
  BY <1>2
<1>4. g = rhs(g)
  BY <1>3, Zenon
<1>5. after = rhs(after)
  BY <1>4, Zenon
<1> HIDE DEF after
<1>6. \A k \in 0 .. Len(KS) : after[k] = IF k = 0 THEN Empty ELSE apply(after[k - 1], KS[k])
  BY <1>5
<1>7. \A k \in 0 .. Len(KS) : after[k] = g[k]
  <2> DEFINE T == {k \in 0 .. Len(KS) : after[k] # g[k]}
  <2>1. SUFFICES ASSUME T # {} PROVE FALSE
    OBVIOUS
  <2>2. PICK k \in T : \A u \in T : k <= u
    <3>1. T \subseteq Nat
      OBVIOUS
    <3> HIDE DEF T
    <3> QED
      BY <2>1, <3>1, LeastNatural, Zenon
  <2>3. k # 0
    BY <1>3, <1>6
  <2>4. k - 1 \in 0 .. Len(KS) /\ ~ k <= k - 1
    BY <2>3
  <2>5. after[k - 1] = g[k - 1]
    BY <2>2, <2>4
  <2> QED
    BY <1>3, <1>6, <2>3, <2>5
<1>8. after[Len(KS)] = g[Len(KS)]
  BY <1>7
<1> QED
  BY <1>1, <1>8

\* The captures that the loop has collected.
LEMMA HeldCaptures ==
    ASSUME NEW first, NEW second, NEW start
    PROVE  /\ 0 \in Indices => Held(first, second, start).captures[0] = first
           /\ 1 \in Indices => Held(first, second, start).captures[1] = second
  BY DEF Held, Loop, Either

\* The captures of a word of .*ana$.
LEMMA Captures1 ==
    ASSUME P = Sample1, NEW w, KS = Ended(w)
    PROVE  captures[0].Multi = <<[S |-> 0, E |-> Len(w)]>>
<1> DEFINE pair == [S |-> 0, E |-> Len(w)]
           last == Held(Ending(pair, NoCapture.Multi), NoCapture, 0)
           g == [k \in 0..2 |-> IF k = 2 THEN last ELSE Held(NoCapture, NoCapture, 0)]
<1>1. Len(KS) = 2 /\ KS[1] = StartOf(0, 0) /\ KS[2] = EndOf(0, Len(w))
  BY DEF Ended, StartOf, EndOf
<1>2. 0 \in Indices /\ \A c \in Indices : c \in {0, 1}
  BY Program1 DEF Indices
<1>3. Takes(Held(NoCapture, NoCapture, 0), StartOf(0, 0), Held(NoCapture, NoCapture, 0))
  BY <1>2, Applies, Zenon
<1>4. Takes(Held(NoCapture, NoCapture, 0), EndOf(0, Len(w)), last)
  BY <1>2, Applies, Zenon
<1> HIDE DEF last
<1>5. \A k \in 1..2 : g[k] = apply(g[k - 1], KS[k])
  BY <1>1, <1>3, <1>4 DEF Takes
<1>6. g[0] = Held(NoCapture, NoCapture, 0) /\ g[2] = last /\ g = [k \in 0..2 |-> g[k]]
  OBVIOUS
<1> HIDE DEF g
<1>7. captures = last.captures
  BY <1>1, <1>5, <1>6, LoopIs
<1>8. captures[0] = Ending(pair, NoCapture.Multi)
  BY <1>2, <1>7, HeldCaptures, Zenon DEF last
<1>9. Append(NoCapture.Multi, pair) = <<pair>>
  BY AppendOne DEF NoCapture
<1> QED
  BY <1>8, <1>9 DEF Ending

\* The captures of the first n (an)s.
AnPair(i) == [S |-> 2 * i - 1, E |-> 2 * i + 1]
Pairs(n) == [i \in 1..n |-> AnPair(i)]

\* One more pair.
LEMMA PairsNext ==
    ASSUME NEW n \in Nat
    PROVE  Append(Pairs(n), AnPair(n + 1)) = Pairs(n + 1)
<1> DEFINE S == {AnPair(i) : i \in Nat}
           s == Pairs(n)
           x == AnPair(n + 1)
           t == Append(s, x)
<1>1. x \in S /\ \A i \in Nat : AnPair(i) \in S
  <2>1. n + 1 \in Nat
    OBVIOUS
  <2> QED
    BY <2>1, Zenon
<1> HIDE DEF S
<1>2. s \in Seq(S) /\ Len(s) = n /\ \A i \in 1..n : s[i] = AnPair(i)
  BY <1>1 DEF Pairs
<1> HIDE DEF s, x
<1>3. t \in Seq(S) /\ Len(t) = Len(s) + 1 /\ \A i \in 1 .. Len(s) + 1 : t[i] =
        IF i <= Len(s) THEN s[i] ELSE x
  BY <1>1, <1>2, AppendProps
<1> HIDE DEF t
<1>4. t = [i \in 1 .. n + 1 |-> t[i]]
  BY <1>2, <1>3
<1>5. \A i \in 1 .. n + 1 : t[i] = AnPair(i)
  BY <1>2, <1>3 DEF x
<1>6. t = Pairs(n + 1)
  BY <1>4, <1>5 DEF Pairs
<1> QED
  BY <1>6 DEF t, s, x

\* The marks of a word of b(an)*a.
LEMMA AllMarksAre ==
    ASSUME NEW w \in Seq(Byte), IsBanana(w)
    PROVE  LET m == (Len(w) - 2) \div 2
           IN  /\ m \in Nat /\ Len(w) = 2 * m + 2 /\ Len(AllMarks(w)) = 2 * m + 2
               /\ AllMarks(w)[1] = MarkOf(0, FALSE, 0)
               /\ AllMarks(w)[2 * m + 2] = MarkOf(0, TRUE, Len(w))
               /\ \A n \in Nat : n < m => /\ AllMarks(w)[2 * n + 2] = MarkOf(1, FALSE, 2 * n + 1)
                                          /\ AllMarks(w)[2 * n + 3] = MarkOf(1, TRUE, 2 * n + 3)
<1> DEFINE N == Len(w)
           m == (N - 2) \div 2
           S == {MarkAt(k) : k \in Nat} \cup {MarkOf(0, TRUE, N)}
           s == MarksOf(N - 1)
           x == MarkOf(0, TRUE, N)
           t == Append(s, x)
<1>1. N \in Nat /\ N >= 2 /\ N % 2 = 0
  BY DEF IsBanana
<1> HIDE DEF N
<1>2. m \in Nat /\ N = 2 * m + 2
  BY <1>1
<1> HIDE DEF m
<1>3. x \in S /\ \A k \in Nat : MarkAt(k) \in S
  BY Zenon
<1> HIDE DEF S
<1>4. s \in Seq(S) /\ Len(s) = N - 1 /\ \A k \in 1 .. N - 1 : s[k] = MarkAt(k)
  BY <1>1, <1>3 DEF MarksOf
<1> HIDE DEF s, x
<1>5. t \in Seq(S) /\ Len(t) = Len(s) + 1 /\ \A k \in 1 .. Len(s) + 1 : t[k] =
        IF k <= Len(s) THEN s[k] ELSE x
  BY <1>3, <1>4, AppendProps
<1> HIDE DEF t
<1>6. Len(t) = N /\ t[N] = x /\ \A k \in 1 .. N - 1 : t[k] = MarkAt(k)
  BY <1>1, <1>4, <1>5
<1>7. t[1] = MarkOf(0, FALSE, 0)
  <2>1. 1 \in 1 .. N - 1
    BY <1>1
  <2>2. MarkAt(1) = MarkOf(0, FALSE, 0)
    BY DEF MarkAt
  <2> QED
    BY <1>6, <2>1, <2>2, Zenon
<1>8. ASSUME NEW n \in Nat, n < m
      PROVE  t[2 * n + 2] = MarkOf(1, FALSE, 2 * n + 1) /\ t[2 * n + 3] = MarkOf(1, TRUE, 2 * n + 3)
  <2>1. /\ 2 * n + 2 \in 1 .. N - 1 /\ 2 * n + 3 \in 1 .. N - 1 /\ 2 * n + 2 # 1 /\ 2 * n + 3 # 1
        /\ (2 * n + 2) % 2 = 0 /\ (2 * n + 3) % 2 # 0 /\ (2 * n + 2) - 1 = 2 * n + 1
    BY <1>2, <1>8
  <2> QED
    BY <1>6, <2>1, Zenon DEF MarkAt
<1>9. AllMarks(w) = t
  BY DEF AllMarks, t, s, x, N
<1> QED
  BY <1>2, <1>6, <1>7, <1>8, <1>9, Zenon DEF m, x, N

\* Capture 1 after n rounds of (an), and what the loop has collected after the
\* first k marks of a word w of b(an)*a.
Rounds(n) == IF n = 0 THEN NoCapture ELSE Ending(AnPair(n), Pairs(n - 1))
HeldAt(w, k) ==
    IF k = Len(w) THEN Held(Ending(Whole(w), <<>>), Rounds((Len(w) - 2) \div 2), 0)
    ELSE IF k = 0 \/ k % 2 = 1 THEN Held(NoCapture, Rounds(k \div 2), 0)
    ELSE Held(NoCapture, Rounds(k \div 2 - 1), k - 1)

\* The repetitions that n rounds collect.
LEMMA RoundsAre ==
    ASSUME NEW n \in Nat
    PROVE  Rounds(n).Multi = Pairs(n) /\ Rounds(n + 1) = Ending(AnPair(n + 1), Rounds(n).Multi)
<1>1. Rounds(n).Multi = Pairs(n)
  <2>1. CASE n = 0
    BY <2>1 DEF Rounds, NoCapture, Pairs
  <2>2. CASE n # 0
    <3>1. n - 1 \in Nat /\ (n - 1) + 1 = n
      BY <2>2
    <3>2. Append(Pairs(n - 1), AnPair(n)) = Pairs(n)
      BY <3>1, PairsNext, Zenon
    <3> QED
      BY <2>2, <3>2 DEF Rounds, Ending
  <2> QED
    BY <2>1, <2>2
<1>2. Rounds(n + 1) = Ending(AnPair(n + 1), Pairs(n))
  BY DEF Rounds
<1> QED
  BY <1>1, <1>2

\* The captures of a word of b(an)*a.
LEMMA Captures2 ==
    ASSUME P = Sample2, NEW w \in Seq(Byte), IsBanana(w), KS = AllMarks(w)
    PROVE  /\ captures[0].Multi = <<Whole(w)>>
           /\ captures[1].Multi = Pairs((Len(w) - 2) \div 2)
<1> DEFINE m == (Len(w) - 2) \div 2
           g == [k \in 0 .. Len(w) |-> HeldAt(w, k)]
<1>1. m \in Nat /\ Len(w) = 2 * m + 2 /\ Len(KS) = Len(w)
  BY AllMarksAre, Zenon
<1>2. /\ KS[1] = StartOf(0, 0) /\ KS[2 * m + 2] = EndOf(0, Len(w))
      /\ \A n \in Nat : n < m => /\ KS[2 * n + 2] = StartOf(1, 2 * n + 1)
                                 /\ KS[2 * n + 3] = EndOf(1, 2 * n + 3)
  BY AllMarksAre, Zenon DEF StartOf, EndOf
<1>3. 0 \in Indices /\ 1 \in Indices /\ \A c \in Indices : c \in {0, 1}
  BY Program2 DEF Indices
<1>4. HeldAt(w, 0) = Held(NoCapture, NoCapture, 0)
  BY <1>1 DEF HeldAt, Rounds
<1>5. \A n \in Nat : n <= m => HeldAt(w, 2 * n + 1) = Held(NoCapture, Rounds(n), 0)
  BY <1>1 DEF HeldAt
<1>6. \A n \in Nat : n < m => HeldAt(w, 2 * n + 2) = Held(NoCapture, Rounds(n), 2 * n + 1)
  BY <1>1 DEF HeldAt
<1>7. HeldAt(w, 2 * m + 2) = Held(Ending(Whole(w), <<>>), Rounds(m), 0)
  BY <1>1 DEF HeldAt
<1> HIDE DEF m
<1>8. HeldAt(w, 1) = apply(HeldAt(w, 0), KS[1])
  <2>1. Takes(Held(NoCapture, NoCapture, 0), StartOf(0, 0), Held(NoCapture, NoCapture, 0))
    BY <1>3, Applies, Zenon
  <2>2. HeldAt(w, 1) = Held(NoCapture, NoCapture, 0)
    BY <1>1, <1>5 DEF Rounds
  <2> QED
    BY <1>2, <1>4, <2>1, <2>2, Zenon DEF Takes
<1>9. ASSUME NEW n \in Nat, n < m
      PROVE  HeldAt(w, 2 * n + 2) = apply(HeldAt(w, 2 * n + 1), KS[2 * n + 2])
  <2>1. Takes(Held(NoCapture, Rounds(n), 0), StartOf(1, 2 * n + 1),
              Held(NoCapture, Rounds(n), 2 * n + 1))
    BY <1>3, Applies, Zenon
  <2>2. HeldAt(w, 2 * n + 1) = Held(NoCapture, Rounds(n), 0)
    BY <1>1, <1>5, <1>9
  <2> QED
    BY <1>2, <1>6, <1>9, <2>1, <2>2, Zenon DEF Takes
<1>10. ASSUME NEW n \in Nat, n < m
       PROVE  HeldAt(w, 2 * n + 3) = apply(HeldAt(w, 2 * n + 2), KS[2 * n + 3])
  <2>1. Takes(Held(NoCapture, Rounds(n), 2 * n + 1), EndOf(1, 2 * n + 3),
              Held(NoCapture, Ending([S |-> 2 * n + 1, E |-> 2 * n + 3], Rounds(n).Multi), 0))
    BY <1>3, Applies, Zenon
  <2>2. [S |-> 2 * n + 1, E |-> 2 * n + 3] = AnPair(n + 1)
    BY DEF AnPair
  <2>3. HeldAt(w, 2 * n + 3) = Held(NoCapture, Rounds(n + 1), 0)
    <3>1. n + 1 \in Nat /\ n + 1 <= m /\ 2 * (n + 1) + 1 = 2 * n + 3
      BY <1>1, <1>10
    <3> QED
      BY <1>5, <3>1
  <2>4. Rounds(n + 1) = Ending(AnPair(n + 1), Rounds(n).Multi)
    BY RoundsAre, Zenon
  <2> QED
    BY <1>2, <1>6, <1>10, <2>1, <2>2, <2>3, <2>4, Zenon DEF Takes
<1>11. HeldAt(w, 2 * m + 2) = apply(HeldAt(w, 2 * m + 1), KS[2 * m + 2])
  <2>1. Takes(Held(NoCapture, Rounds(m), 0), EndOf(0, Len(w)),
              Held(Ending([S |-> 0, E |-> Len(w)], NoCapture.Multi), Rounds(m), 0))
    BY <1>3, Applies, Zenon
  <2>2. NoCapture.Multi = <<>>
    BY DEF NoCapture
  <2>3. HeldAt(w, 2 * m + 1) = Held(NoCapture, Rounds(m), 0)
    BY <1>1, <1>5
  <2> QED
    BY <1>2, <1>7, <2>1, <2>2, <2>3, Zenon DEF Whole, Takes
<1>12. ASSUME NEW k \in 1 .. Len(KS)
       PROVE  HeldAt(w, k) = apply(HeldAt(w, k - 1), KS[k])
  <2>1. CASE k = 1
    BY <1>8, <2>1
  <2>2. CASE k = 2 * m + 2
    <3>1. k - 1 = 2 * m + 1
      BY <1>1, <2>2
    <3> QED
      BY <1>11, <2>2, <3>1
  <2>3. CASE k # 1 /\ k # 2 * m + 2
    <3>1. PICK n \in Nat : n < m /\ (k = 2 * n + 2 \/ k = 2 * n + 3)
      <4>1. (k - 2) \div 2 \in Nat /\ (k = 2 * ((k - 2) \div 2) + 2 \/ k = 2 * ((k - 2) \div 2) + 3)
        BY <1>1, <2>3
      <4>2. (k - 2) \div 2 < m
        BY <1>1, <2>3, <4>1
      <4> QED
        BY <4>1, <4>2
    <3>2. CASE k = 2 * n + 2
      <4>1. k - 1 = 2 * n + 1
        BY <3>2
      <4> QED
        BY <1>9, <3>1, <3>2, <4>1
    <3>3. CASE k = 2 * n + 3
      <4>1. k - 1 = 2 * n + 2
        BY <3>3
      <4> QED
        BY <1>10, <3>1, <3>3, <4>1
    <3> QED
      BY <3>1, <3>2, <3>3
  <2> QED
    BY <2>1, <2>2, <2>3
<1>13. /\ g = [k \in 0 .. Len(KS) |-> g[k]]
       /\ g[0] = Held(NoCapture, NoCapture, 0)
       /\ \A k \in 1 .. Len(KS) : g[k] = apply(g[k - 1], KS[k])
       /\ g[Len(KS)] = Held(Ending(Whole(w), <<>>), Rounds(m), 0)
  <2>1. \A k \in 0 .. Len(KS) : g[k] = HeldAt(w, k)
    BY <1>1
  <2>2. \A k \in 1 .. Len(KS) : k \in 0 .. Len(KS) /\ k - 1 \in 0 .. Len(KS)
    BY <1>1
  <2>3. g = [k \in 0 .. Len(KS) |-> g[k]]
    BY <1>1
  <2>4. 0 \in 0 .. Len(KS) /\ Len(KS) \in 0 .. Len(KS) /\ Len(KS) = 2 * m + 2
    BY <1>1
  <2> HIDE DEF g
  <2> QED
    BY <1>4, <1>7, <1>12, <2>1, <2>2, <2>3, <2>4
<1> HIDE DEF g
<1>14. captures = Held(Ending(Whole(w), <<>>), Rounds(m), 0).captures
  <2>1. Len(KS) \in Nat
    BY <1>1
  <2>2. captures = g[Len(KS)].captures
    BY <1>13, <2>1, LoopIs, Zenon
  <2> QED
    BY <1>13, <2>2, Zenon
<1>15. captures[0] = Ending(Whole(w), <<>>) /\ captures[1] = Rounds(m)
  BY <1>3, <1>14, HeldCaptures
<1>16. Append(<<>>, Whole(w)) = <<Whole(w)>>
  BY AppendOne
<1>17. Ending(Whole(w), <<>>).Multi = <<Whole(w)>>
  BY <1>16 DEF Ending
<1> QED
  BY <1>1, <1>15, <1>17, RoundsAre, Zenon DEF m

-----------------------------------------------------------------------------

\* The program and the input that the machine was loaded with.
Loaded == IsProgram(P) /\ I \in Seq(Byte) /\ Len(I) <= MaxU64

\* What Match has returned.
Returned ==
    phase = "returned" => /\ R # "Running"
                          /\ result = [Success |-> R = "Success", Captures |-> captures]

\* The inductive invariant.
Sampled ==
    /\ Loaded /\ Returned
    /\ P = Sample1 => \E w : w = I /\ (Paths1(w) \/ Halted1(w))
    /\ P = Sample2 => \E w : w = I /\ (Paths2(w) \/ Halted2(w))

\* On their ways, the samples stay within the input.
LEMMA WithinInput ==
    ASSUME Loaded, NEW w, w = I, Paths1(w) \/ Paths2(w)
    PROVE  Sane
<1>1. Len(w) \in Nat
  BY DEF Loaded
<1>2. Paths1(w) => DP <= Len(w)
  BY <1>1 DEF Paths1, Now, Ana
<1>3. Paths2(w) => DP <= Len(w)
  BY <1>1 DEF Paths2, Round, Now, Bans
<1> QED
  BY <1>2, <1>3 DEF Sane, Loaded

\* Match returns what its loop has collected.
LEMMA ReturnedKept == Returned /\ [MatchNext]_matchVars => Returned'
<1> SUFFICES ASSUME Returned, [MatchNext]_matchVars PROVE Returned'
  OBVIOUS
<1>1. CASE Run
  BY <1>1 DEF Run, Returned
<1>2. CASE Panic
  BY <1>2 DEF Panic, Returned
<1>3. CASE Return
  <2>1. UNCHANGED vars
    BY <1>3 DEF Return
  <2>2. captures' = captures
    BY <2>1 DEF vars, captures, Indices
  <2> QED
    BY <1>3, <2>1, <2>2 DEF Return, Returned, vars
<1>4. CASE UNCHANGED matchVars
  <2>1. captures' = captures
    BY <1>4 DEF matchVars, vars, captures, Indices
  <2> QED
    BY <1>4, <2>1 DEF Returned, matchVars, vars
<1> QED
  BY <1>1, <1>2, <1>3, <1>4 DEF MatchNext

\* The samples never leave their ways.
LEMMA SampledInvariant == MatchSpec => []Sampled
<1>1. MatchInit => Sampled
  <2> SUFFICES ASSUME MatchInit PROVE Sampled
    OBVIOUS
  <2>1. Now(0, 0, <<>>, <<>>)
    BY DEF MatchInit, Init, Now
  <2>2. Paths2(I)
    BY <2>1, Zenon DEF Paths2
  <2>3. Loaded /\ Returned
    BY ProgramsAssumption, InputsAssumption DEF MatchInit, Init, Loaded, Returned
  <2>4. 0 \in 0 .. Len(I)
    BY <2>3 DEF Loaded
  <2>5. Paths1(I)
    BY <2>1, <2>4, Zenon DEF Paths1
  <2> QED
    BY <2>2, <2>3, <2>5, Zenon DEF Sampled
<1>2. Sampled /\ [MatchNext]_matchVars => Sampled'
  <2> SUFFICES ASSUME Sampled, [MatchNext]_matchVars PROVE Sampled'
    OBVIOUS
  <2>0. Returned'
    BY ReturnedKept DEF Sampled
  <2>1. CASE Run
    <3>1. Step /\ R = "Running"
      BY <2>1 DEF Run
    <3>2. P' = P /\ I' = I
      BY <3>1, StepKeeps
    <3>3. ASSUME NEW w, w = I, P = Sample1, Paths1(w) \/ Halted1(w) PROVE Paths1(w)' \/ Halted1(w)'
      <4>1. ~ Halted1(w)
        BY <3>1 DEF Halted1
      <4> QED
        BY <3>1, <3>3, <4>1, WithinInput, Step1, Zenon DEF Sampled
    <3>4. ASSUME NEW w, w = I, P = Sample2, Paths2(w) \/ Halted2(w) PROVE Paths2(w)' \/ Halted2(w)'
      <4>1. ~ Halted2(w)
        BY <3>1 DEF Halted2
      <4> QED
        BY <3>1, <3>4, <4>1, WithinInput, Step2, Zenon DEF Sampled
    <3>5. P = Sample1 => \E w : w = I' /\ (Paths1(w)' \/ Halted1(w)')
      BY <3>2, <3>3, Zenon DEF Sampled
    <3>6. P = Sample2 => \E w : w = I' /\ (Paths2(w)' \/ Halted2(w)')
      BY <3>2, <3>4, Zenon DEF Sampled
    <3>7. Loaded'
      BY <3>2 DEF Sampled, Loaded
    <3> QED
      BY <2>0, <3>2, <3>5, <3>6, <3>7, Zenon DEF Sampled
  <2>2. CASE UNCHANGED vars
    <3>1. P' = P /\ I' = I /\ XP' = XP /\ DP' = DP /\ KS' = KS /\ CS' = CS /\ R' = R /\ ret' = ret
      BY <2>2 DEF vars
    <3>3. ASSUME NEW w PROVE (Paths1(w) => Paths1(w)') /\ (Paths2(w) => Paths2(w)')
      <4>1. Paths1(w) => Paths1(w)'
        BY <3>1, SMT DEF Paths1, Now
      <4>2. Paths2(w) => Paths2(w)'
        BY <3>1, SMT DEF Paths2, Round, Now
      <4> QED
        BY <4>1, <4>2, Zenon
    <3>4. ASSUME NEW w PROVE (Halted1(w) => Halted1(w)') /\ (Halted2(w) => Halted2(w)')
      BY <3>1 DEF Halted1, Halted2
    <3>5. P = Sample1 => \E w : w = I' /\ (Paths1(w)' \/ Halted1(w)')
      BY <3>1, <3>3, <3>4, Zenon DEF Sampled
    <3>6. P = Sample2 => \E w : w = I' /\ (Paths2(w)' \/ Halted2(w)')
      BY <3>1, <3>3, <3>4, Zenon DEF Sampled
    <3>7. Loaded'
      BY <3>1 DEF Sampled, Loaded
    <3> QED
      BY <2>0, <3>1, <3>5, <3>6, <3>7, Zenon DEF Sampled
  <2> QED
    BY <2>1, <2>2 DEF MatchNext, Panic, Return, matchVars
<1> QED
  BY <1>1, <1>2, PTL DEF MatchSpec

\* For every input, the sample programs of the tests accept exactly the words of
\* their regular expressions, and report the whole word as capture 0 and every
\* repetition of (an), in order, as capture 1.
THEOREM SamplesTheorem == MatchSpec => []SamplesMeanTheirRegex
<1>1. Sampled => SamplesMeanTheirRegex
  <2> SUFFICES ASSUME Sampled, phase = "returned"
               PROVE  /\ P = Sample1 => result.Success = EndsInAna(I)
                      /\ P = Sample2 =>
                            /\ result.Success = IsBanana(I)
                            /\ result.Success => result.Captures[1].Multi = AnPairs(I)
                      /\ P \in SamplePrograms /\ result.Success
                           => result.Captures[0].Multi = <<Whole(I)>>
    BY Zenon DEF SamplesMeanTheirRegex
  <2>1. result.Success = (R = "Success") /\ result.Captures = captures /\ R # "Running"
    BY DEF Sampled, Returned
  <2>2. I \in Seq(Byte)
    BY DEF Sampled, Loaded
  <2>3. CASE P = Sample1
    <3>1. PICK w : w = I /\ (Paths1(w) \/ Halted1(w))
      BY <2>3, Zenon DEF Sampled
    <3>2. ~ Paths1(w)
      BY <2>1, Zenon DEF Paths1, Now
    <3>3. R = "Success" <=> EndsInAna(w)
      BY <3>1, <3>2 DEF Halted1
    <3>4. R = "Success" => KS = Ended(w)
      BY <3>1, <3>2 DEF Halted1
    <3>5. R = "Success" => captures[0].Multi = <<Whole(I)>>
      BY <2>3, <3>1, <3>4, Captures1, Zenon DEF Whole
    <3>6. P # Sample2
      BY <2>3, Program1, Program2
    <3>7. EndsInAna(I) \in BOOLEAN
      BY DEF EndsInAna
    <3> QED
      BY <2>1, <3>1, <3>3, <3>5, <3>6, <3>7
  <2>4. CASE P = Sample2
    <3>1. PICK w : w = I /\ (Paths2(w) \/ Halted2(w))
      BY <2>4, Zenon DEF Sampled
    <3>2. ~ Paths2(w)
      BY <2>1, Zenon DEF Paths2, Round, Now
    <3>3. R = "Success" <=> IsBanana(w)
      BY <3>1, <3>2 DEF Halted2
    <3>4. R = "Success" => KS = AllMarks(w)
      BY <3>1, <3>2 DEF Halted2
    <3>5. R = "Success" => captures[0].Multi = <<Whole(I)>>
            /\ captures[1].Multi = Pairs((Len(I) - 2) \div 2)
      BY <2>2, <2>4, <3>1, <3>3, <3>4, Captures2, Zenon DEF Whole
    <3>6. Pairs((Len(I) - 2) \div 2) = AnPairs(I)
      BY DEF Pairs, AnPair, AnPairs
    <3>7. P # Sample1
      BY <2>4, Program1, Program2
    <3>8. IsBanana(I) \in BOOLEAN
      BY DEF IsBanana
    <3> QED
      BY <2>1, <3>1, <3>3, <3>5, <3>6, <3>7, <3>8
  <2> QED
    BY <2>3, <2>4 DEF SamplePrograms
<1> QED
  BY <1>1, SampledInvariant, PTL
=============================================================================
