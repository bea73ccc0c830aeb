--------------------------- MODULE Bytecode_proofs ---------------------------
(***************************************************************************)
(* Op.Decode reads back what OpMeta.Encode has written, for every opcode   *)
(* of the table, all immediates and wherever in the bytecode.              *)
(***************************************************************************)
EXTENDS Bytecode, TLAPS

IsImm(m) == m.PackedDefault \in Byte

-----------------------------------------------------------------------------
(* Sequences. *)

LEMMA SeqLength ==
    ASSUME NEW S, NEW s \in Seq(S)
    PROVE  /\ Len(s) \in Nat
           /\ DOMAIN s = 1 .. Len(s)
           /\ s \in [1 .. Len(s) -> S]
OBVIOUS

LEMMA FunctionIsSeq ==
    ASSUME NEW S, NEW n \in Nat, NEW s \in [1..n -> S]
    PROVE  s \in Seq(S)
OBVIOUS

LEMMA SeqEquality ==
    ASSUME NEW S, NEW s \in Seq(S), NEW t \in Seq(S),
           Len(s) = Len(t), \A i \in 1 .. Len(s) : s[i] = t[i]
    PROVE  s = t
OBVIOUS

LEMMA Concatenation ==
    ASSUME NEW S, NEW s \in Seq(S), NEW t \in Seq(S)
    PROVE  /\ s \o t \in Seq(S)
           /\ Len(s \o t) = Len(s) + Len(t)
           /\ \A i \in 1 .. Len(s) + Len(t) :
                  (s \o t)[i] = IF i <= Len(s) THEN s[i] ELSE t[i - Len(s)]
OBVIOUS

LEMMA SubSequence ==
    ASSUME NEW S, NEW s, NEW m \in Int, NEW n \in Int,
           \A i \in m..n : s[i] \in S
    PROVE  /\ SubSeq(s, m, n) \in Seq(S)
           /\ Len(SubSeq(s, m, n)) = IF m <= n THEN n - m + 1 ELSE 0
           /\ \A i \in 1 .. n - m + 1 : SubSeq(s, m, n)[i] = s[m + i - 1]
OBVIOUS

-----------------------------------------------------------------------------
(* One immediate. *)

\* What extends an immediate to eight bytes.
High(m, b) == IF Signed(m.Type) /\ b >= 128 THEN 255 ELSE 0

\* An encoded immediate is a piece of the value, and the rest of the value is
\* what its last byte is extended to.
LEMMA ImmEncoded ==
    ASSUME NEW m, IsImm(m), NEW raw \in Uint64
    PROVE  LET e == ImmEncode(m, raw)
           IN  /\ e \in Seq(Byte)
               /\ Len(e) \in {0, 1, 2, 4, 8}
               /\ Len(e) = 0 <=> ~ IsPresent(m, raw)
               /\ \A i \in 1 .. Len(e) : e[i] = raw[i]
               /\ Len(e) # 0 => \A i \in Len(e) + 1 .. 8 : raw[i] = High(m, e[Len(e)])
<1>1. \A i \in 1..8 : raw[i] \in Byte
  BY DEF Uint64
<1>2. \A n \in 1..8 : /\ SubSeq(raw, 1, n) \in Seq(Byte) /\ Len(SubSeq(raw, 1, n)) = n
                      /\ \A i \in 1..n : SubSeq(raw, 1, n)[i] = raw[i]
  <2> TAKE n \in 1..8
  <2>1. \A i \in 1..n : raw[i] \in Byte
    BY <1>1
  <2> QED
    BY <2>1, SubSequence
<1>3. CASE ~ IsPresent(m, raw)
  BY <1>3 DEF ImmEncode
<1>4. CASE IsPresent(m, raw)
  <2> DEFINE x == IF Signed(m.Type) /\ raw[8] >= 128 THEN 255 ELSE 0
             f(b) == Signed(m.Type) => (b >= 128) = (x = 255)
             fits4 == raw[8] = x /\ raw[7] = x /\ raw[6] = x /\ raw[5] = x /\ f(raw[4])
             fits2 == fits4 /\ raw[4] = x /\ raw[3] = x /\ f(raw[2])
             fits1 == fits2 /\ raw[2] = x /\ f(raw[1])
             n == IF fits1 THEN 1 ELSE IF fits2 THEN 2 ELSE IF fits4 THEN 4 ELSE 8
  <2>1. ImmEncode(m, raw) = SubSeq(raw, 1, n)
    BY <1>4 DEF ImmEncode
  <2>2. n \in {1, 2, 4, 8}
    BY SMTT(40)
  <2>3. \A i \in n + 1 .. 8 : raw[i] = High(m, raw[n])
    <3>1. CASE fits1
      BY <1>1, <3>1 DEF High, Byte
    <3>2. CASE ~ fits1 /\ fits2
      BY <1>1, <3>2, SMTT(40) DEF High, Byte
    <3>3. CASE ~ fits1 /\ ~ fits2 /\ fits4
      BY <1>1, <3>3, SMTT(40) DEF High, Byte
    <3>4. CASE ~ fits1 /\ ~ fits2 /\ ~ fits4
      BY <3>4
    <3> QED
      BY <3>1, <3>2, <3>3, <3>4, ZenonT(40)
  <2> HIDE DEF n
  <2> QED
    BY <1>2, <1>4, <2>1, <2>2, <2>3
<1> QED
  BY <1>3, <1>4

\* The value that comes back: the default with the bytes or-ed into it.
Decoded(m, raw) ==
    IF IsPresent(m, raw) THEN [i \in 1..8 |-> Or8(Default(m)[i], raw[i])] ELSE Default(m)

LEMMA ImmDecoded ==
    ASSUME NEW m, IsImm(m), NEW raw \in Uint64
    PROVE  ImmDecode(m, ImmEncode(m, raw)) = [value |-> Decoded(m, raw), err |-> "nil"]
<1> DEFINE e == ImmEncode(m, raw)
           n == Len(e)
<1>1. /\ n \in {0, 1, 2, 4, 8}
      /\ n = 0 <=> ~ IsPresent(m, raw)
      /\ \A i \in 1..n : e[i] = raw[i]
      /\ n # 0 => \A i \in n + 1 .. 8 : raw[i] = High(m, e[n])
  BY ImmEncoded
<1> HIDE DEF e
<1> SUFFICES ImmDecode(m, e) = [value |-> Decoded(m, raw), err |-> "nil"]
  BY DEF e
<1>2. CASE n = 0
  BY <1>1, <1>2 DEF ImmDecode, Decoded, IsPresent
<1>3. CASE n # 0
  <2>1. m.Type # "None"
    BY <1>1, <1>3 DEF IsPresent
  <2>2. \A i \in 1..8 : raw[i] = IF i <= n THEN e[i] ELSE High(m, e[n])
    BY <1>1, <1>3
  <2>3. [i \in 1..8 |-> Or8(Default(m)[i], IF i <= n THEN e[i] ELSE High(m, e[n]))]
          = [i \in 1..8 |-> Or8(Default(m)[i], raw[i])]
    BY <2>2, Zenon
  <2> QED
    BY <1>1, <1>3, <2>1, <2>3 DEF ImmDecode, Decoded, High
<1> QED
  BY <1>2, <1>3

-----------------------------------------------------------------------------
(* Headers. *)

Length == {0, 1, 2, 4, 8}

\* The numbers of opcodes, and the length codes of a header.
Codes == 0..63
Sizes == 0..4

\* Lengths are coded in three bits.
LEMMA LengthCoded ==
    ASSUME NEW n \in Length
    PROVE  /\ ImmLengthEncode(n) \in Sizes
           /\ ImmLengthDecode[ImmLengthEncode(n) + 1] = n
           /\ n = 0 <=> ImmLengthEncode(n) = 0
<1>1. \E b \in 0..4 : ImmLengthDecode[b + 1] = n
  <2>1. /\ ImmLengthDecode[0 + 1] = 0 /\ ImmLengthDecode[1 + 1] = 1
        /\ ImmLengthDecode[2 + 1] = 2 /\ ImmLengthDecode[3 + 1] = 4
        /\ ImmLengthDecode[4 + 1] = 8
    BY DEF ImmLengthDecode
  <2> QED
    BY <2>1 DEF Length
<1>2. ImmLengthEncode(n) \in Sizes /\ ImmLengthDecode[ImmLengthEncode(n) + 1] = n
  BY <1>1, Zenon DEF ImmLengthEncode, Sizes
<1>3. \A b \in 0..4 : ImmLengthDecode[b + 1] = 0 <=> b = 0
  BY DEF ImmLengthDecode
<1> QED
  BY <1>2, <1>3 DEF Sizes

LEMMA HeaderLength ==
    ASSUME NEW a \in Codes, NEW b \in Sizes, NEW c \in Sizes, NEW d \in Sizes
    PROVE  Header(a, b, c, d) \in Seq(Byte) /\ Len(Header(a, b, c, d)) \in {1, 2}
<1>1. /\ 128 + 2 * a + b \div 4 \in Byte
      /\ 64 * (b % 4) + 8 * c + d \in Byte
  BY DEF Byte, Codes, Sizes
<1>2. ~ (a > 7 \/ b > 3 \/ c > 3 \/ d > 0) => 16 * a + 4 * b + c \in Byte
  BY DEF Byte, Codes, Sizes
<1> QED
  BY <1>1, <1>2 DEF Header

Four(a, b, c, d) == <<a, b, c, d>>

\* A header tells by its first byte how long it is, and holds its four fields.
LEMMA HeaderRead ==
    ASSUME NEW a \in Codes, NEW b \in Sizes, NEW c \in Sizes, NEW d \in Sizes
    PROVE  \/ \E x, z : /\ Header(a, b, c, d) = <<x, z>>
                        /\ Wide(x) /\ Fields(x, z) = Four(a, b, c, d)
           \/ \E x : /\ Header(a, b, c, d) = <<x>>
                     /\ ~ Wide(x) /\ \A y : Fields(x, y) = Four(a, b, c, d)
<1>1. CASE a > 7 \/ b > 3 \/ c > 3 \/ d > 0
  <2> DEFINE x == 128 + 2 * a + b \div 4
             z == 64 * (b % 4) + 8 * c + d
  <2>1. /\ x \in 128..255 /\ (x % 128) \div 2 = a
        /\ z \in Byte /\ 4 * (x % 2) + z \div 64 = b
    BY DEF Byte, Codes, Sizes
  <2>2. (z \div 8) % 8 = c /\ z % 8 = d
    BY DEF Sizes
  <2>3. Header(a, b, c, d) = <<x, z>>
    BY <1>1 DEF Header
  <2> HIDE DEF x, z
  <2>4. Wide(x) /\ Fields(x, z) = Four(a, b, c, d)
    BY <2>1, <2>2 DEF Fields, Wide, Four
  <2> QED
    BY <2>3, <2>4, Zenon
<1>2. CASE ~ (a > 7 \/ b > 3 \/ c > 3 \/ d > 0)
  <2> DEFINE x == 16 * a + 4 * b + c
  <2>1. x \in 0..127 /\ x \div 16 = a /\ (x \div 4) % 4 = b /\ x % 4 = c /\ d = 0
    BY <1>2 DEF Codes, Sizes
  <2>2. Header(a, b, c, d) = <<x>>
    BY <1>2 DEF Header
  <2> HIDE DEF x
  <2>3. ~ Wide(x) /\ \A y : Fields(x, y) = Four(a, b, c, d)
    BY <2>1 DEF Fields, Wide, Four
  <2> QED
    BY <2>2, <2>3, Zenon
<1> QED
  BY <1>1, <1>2

\* The entries of the opcode table.
LEMMA Table ==
    ASSUME NEW m \in opMeta
    PROVE  /\ m.Code \in Codes /\ ~ m.Illegal
           /\ IsImm(m.Imm0) /\ IsImm(m.Imm1) /\ IsImm(m.Imm2)
           /\ MetaOf(m.Code) = m
<1>1. m.Code \in Codes /\ ~ m.Illegal
  BY DEF opMeta, Meta, Codes
<1>2. IsImm(m.Imm0) /\ IsImm(m.Imm1) /\ IsImm(m.Imm2)
  <2>1. /\ IsImm(none) /\ IsImm(offset) /\ IsImm(count)
        /\ IsImm(required("Byte")) /\ IsImm(required("LiteralIdx"))
        /\ IsImm(required("MatcherIdx")) /\ IsImm(required("CaptureIdx"))
        /\ IsImm(required("Count"))
    BY DEF none, offset, count, required, optional, IsImm, Byte
  <2> QED
    BY <2>1 DEF opMeta, Meta
<1>3. \A n \in opMeta : n.Code = m.Code => n = m
  <2>1. \A code, name, imm0, imm1, imm2 : Meta(code, name, imm0, imm1, imm2).Code = code
    BY DEF Meta
  <2> QED
    BY <2>1 DEF opMeta
<1> QED
  BY <1>1, <1>2, <1>3 DEF MetaOf

-----------------------------------------------------------------------------
(* Instructions. *)

LEMMA Glued ==
    ASSUME NEW s \in Seq(Byte), NEW t \in Seq(Byte)
    PROVE  /\ s \o t \in Seq(Byte) /\ Len(s \o t) = Len(s) + Len(t)
           /\ Len(s) \in Nat /\ Len(t) \in Nat
           /\ \A i \in 1 .. Len(s) : (s \o t)[i] = s[i]
           /\ \A i \in 1 .. Len(t) : (s \o t)[Len(s) + i] = t[i]
<1> DEFINE u == s \o t
<1>1. Len(s) \in Nat /\ Len(t) \in Nat
  OBVIOUS
<1>2. /\ u \in Seq(Byte) /\ Len(u) = Len(s) + Len(t)
      /\ \A i \in 1 .. Len(s) + Len(t) : u[i] = IF i <= Len(s) THEN s[i] ELSE t[i - Len(s)]
  BY Concatenation
<1> HIDE DEF u
<1>3. \A i \in 1 .. Len(s) : u[i] = s[i]
  BY <1>1, <1>2
<1>4. \A i \in 1 .. Len(t) : u[Len(s) + i] = t[i]
  <2> TAKE i \in 1 .. Len(t)
  <2>1. Len(s) + i \in 1 .. Len(s) + Len(t) /\ ~ Len(s) + i <= Len(s) /\ Len(s) + i - Len(s) = i
    BY <1>1, SMTT(40)
  <2> QED
    BY <1>2, <2>1
<1> QED
  BY <1>1, <1>2, <1>3, <1>4 DEF u

\* How an encoded instruction is put together.
LEMMA Layout ==
    ASSUME NEW meta \in opMeta,
           NEW imm0 \in Uint64, NEW imm1 \in Uint64, NEW imm2 \in Uint64
    PROVE  LET e == Encode(meta, imm0, imm1, imm2)
               raw0 == ImmEncode(meta.Imm0, imm0)
               raw1 == ImmEncode(meta.Imm1, imm1)
               raw2 == ImmEncode(meta.Imm2, imm2)
               h == Header(meta.Code, ImmLengthEncode(Len(raw0)), ImmLengthEncode(Len(raw1)),
                           ImmLengthEncode(Len(raw2)))
           IN  /\ e \in Seq(Byte) /\ h \in Seq(Byte) /\ Len(h) \in {1, 2}
               /\ Len(e) = Len(h) + Len(raw0) + Len(raw1) + Len(raw2)
               /\ \A i \in 1 .. Len(h) : e[i] = h[i]
               /\ \A i \in 1 .. Len(raw0) : e[Len(h) + i] = raw0[i]
               /\ \A i \in 1 .. Len(raw1) : e[Len(h) + Len(raw0) + i] = raw1[i]
               /\ \A i \in 1 .. Len(raw2) : e[Len(h) + Len(raw0) + Len(raw1) + i] = raw2[i]
<1> DEFINE raw0 == ImmEncode(meta.Imm0, imm0)
           raw1 == ImmEncode(meta.Imm1, imm1)
           raw2 == ImmEncode(meta.Imm2, imm2)
           h == Header(meta.Code, ImmLengthEncode(Len(raw0)), ImmLengthEncode(Len(raw1)),
                       ImmLengthEncode(Len(raw2)))
           e == Encode(meta, imm0, imm1, imm2)
<1>1. /\ raw0 \in Seq(Byte) /\ Len(raw0) \in Length
      /\ raw1 \in Seq(Byte) /\ Len(raw1) \in Length
      /\ raw2 \in Seq(Byte) /\ Len(raw2) \in Length
  BY Table, ImmEncoded DEF Length
<1>2. e = ((h \o raw0) \o raw1) \o raw2
  BY DEF Encode
<1>3. h \in Seq(Byte) /\ Len(h) \in {1, 2}
  <2>1. /\ ImmLengthEncode(Len(raw0)) \in Sizes
        /\ ImmLengthEncode(Len(raw1)) \in Sizes
        /\ ImmLengthEncode(Len(raw2)) \in Sizes
    BY <1>1, LengthCoded
  <2>2. meta.Code \in Codes
    BY Table
  <2> HIDE DEF raw0, raw1, raw2
  <2> QED
    BY <2>1, <2>2, HeaderLength, Zenon
<1> HIDE DEF raw0, raw1, raw2, h, e
<1> DEFINE p == h \o raw0
           q == p \o raw1
<1>4. /\ p \in Seq(Byte) /\ Len(p) = Len(h) + Len(raw0)
      /\ \A i \in 1 .. Len(h) : p[i] = h[i]
      /\ \A i \in 1 .. Len(raw0) : p[Len(h) + i] = raw0[i]
  BY <1>1, <1>3, Glued
<1> HIDE DEF p
<1>5. /\ q \in Seq(Byte) /\ Len(q) = Len(p) + Len(raw1)
      /\ \A i \in 1 .. Len(p) : q[i] = p[i]
      /\ \A i \in 1 .. Len(raw1) : q[Len(p) + i] = raw1[i]
  BY <1>1, <1>4, Glued, Zenon
<1> HIDE DEF q
<1>6. e = q \o raw2
  BY <1>2 DEF p, q
<1>7. /\ e \in Seq(Byte) /\ Len(e) = Len(q) + Len(raw2)
      /\ \A i \in 1 .. Len(q) : e[i] = q[i]
      /\ \A i \in 1 .. Len(raw2) : e[Len(q) + i] = raw2[i]
  BY <1>1, <1>5, <1>6, Glued, ZenonT(40)
<1>8. Len(raw0) \in Nat /\ Len(raw1) \in Nat /\ Len(raw2) \in Nat /\ Len(h) \in Nat
  BY <1>1, <1>3 DEF Length
<1>9. \A i \in 1 .. Len(h) : e[i] = h[i]
  BY <1>4, <1>5, <1>7, <1>8
<1>10. ASSUME NEW i \in 1 .. Len(raw0) PROVE e[Len(h) + i] = raw0[i]
  <2>1. Len(h) + i \in 1 .. Len(p) /\ Len(h) + i \in 1 .. Len(q)
    BY <1>4, <1>5, <1>8
  <2> QED
    BY <1>4, <1>5, <1>7, <2>1
<1>11. ASSUME NEW i \in 1 .. Len(raw1) PROVE e[Len(h) + Len(raw0) + i] = raw1[i]
  <2>1. Len(h) + Len(raw0) + i = Len(p) + i /\ Len(p) + i \in 1 .. Len(q)
    BY <1>4, <1>5, <1>8
  <2> QED
    BY <1>5, <1>7, <2>1
<1>12. \A i \in 1 .. Len(raw2) : e[Len(h) + Len(raw0) + Len(raw1) + i] = raw2[i]
  BY <1>4, <1>5, <1>7, <1>8
<1> QED
  BY <1>3, <1>4, <1>5, <1>7, <1>8, <1>9, <1>10, <1>11, <1>12 DEF raw0, raw1, raw2, h, e

\* What stands in the stream is what SubSeq takes out of it.
LEMMA Piece ==
    ASSUME NEW stream \in Seq(Byte), NEW r \in Seq(Byte), NEW x \in Nat,
           x + Len(r) <= Len(stream), \A i \in 1 .. Len(r) : stream[x + i] = r[i]
    PROVE  SubSeq(stream, x + 1, x + Len(r)) = r
<1> DEFINE n == Len(r)
           s == SubSeq(stream, x + 1, x + n)
<1>1. n \in Nat
  OBVIOUS
<1>2. \A i \in x + 1 .. x + n : stream[i] \in Byte
  OBVIOUS
<1>3. /\ s \in Seq(Byte) /\ Len(s) = n
      /\ \A i \in 1..n : s[i] = stream[x + i]
  <2>1. /\ s \in Seq(Byte)
        /\ Len(s) = IF x + 1 <= x + n THEN x + n - (x + 1) + 1 ELSE 0
        /\ \A i \in 1 .. x + n - (x + 1) + 1 : s[i] = stream[x + 1 + i - 1]
    BY <1>1, <1>2, SubSequence
  <2>2. \A i \in 1..n : stream[x + 1 + i - 1] = stream[x + i]
    <3> TAKE i \in 1..n
    <3>1. x + 1 + i - 1 = x + i
      BY <1>1
    <3> QED
      BY <3>1
  <2> HIDE DEF s
  <2> QED
    BY <1>1, <2>1, <2>2
<1> HIDE DEF s
<1>4. s = r
  BY <1>1, <1>3, SeqEquality, SMTT(40)
<1> QED
  BY <1>4 DEF s

\* The bytes at xp are those of h, as far as the stream goes.
HeaderAt(stream, xp, h) ==
    \A i \in 1 .. Len(h) : xp + i <= Len(stream) => stream[xp + i] = h[i]

\* Op.Decode gets over a header that the encoder wrote.
LEMMA HeaderDecoded ==
    ASSUME NEW stream \in Seq(Byte), NEW xp \in Nat, xp < Len(stream),
           NEW a \in Codes, NEW b \in Sizes, NEW c \in Sizes, NEW d \in Sizes,
           NEW h, h = Header(a, b, c, d), HeaderAt(stream, xp, h)
    PROVE  Decode(stream, xp) =
               IF xp + Len(h) <= Len(stream)
               THEN DecodeImms(stream, xp, xp + Len(h), <<a, b, c, d>>)
               ELSE Failed("ErrUnexpectedEOF")
<1> DEFINE byte0 == stream[xp + 1]
           byte1 == stream[xp + 2]
           f == Fields(byte0, byte1)
           n == Len(h)
           N == Len(stream)
<1>1. N \in Nat /\ xp + 1 <= N
  BY SeqLength
<1>2. \A i \in 1..n : xp + i <= N => stream[xp + i] = h[i]
  BY Zenon DEF HeaderAt
<1>3. /\ n = (IF Wide(byte0) THEN 2 ELSE 1)
      /\ xp + n <= N => f = Four(a, b, c, d)
  <2>1. ASSUME NEW x, NEW z, h = <<x, z>>, Wide(x), Fields(x, z) = Four(a, b, c, d)
        PROVE  /\ n = (IF Wide(byte0) THEN 2 ELSE 1)
               /\ xp + n <= N => f = Four(a, b, c, d)
    <3>1. n = 2 /\ h[1] = x /\ h[2] = z
      BY <2>1
    <3> HIDE DEF n, N
    <3>2. byte0 = x /\ (xp + n <= N => byte1 = z)
      BY <1>1, <1>2, <3>1
    <3> QED
      BY <2>1, <3>1, <3>2, Zenon
  <2>2. ASSUME NEW x, h = <<x>>, ~ Wide(x), \A y : Fields(x, y) = Four(a, b, c, d)
        PROVE  /\ n = (IF Wide(byte0) THEN 2 ELSE 1)
               /\ xp + n <= N => f = Four(a, b, c, d)
    <3>1. n = 1 /\ h[1] = x
      BY <2>2
    <3> HIDE DEF n, N
    <3>2. byte0 = x
      BY <1>1, <1>2, <3>1
    <3> QED
      BY <2>2, <3>1, <3>2, Zenon
  <2>3. \/ \E x, z : h = <<x, z>> /\ Wide(x) /\ Fields(x, z) = Four(a, b, c, d)
        \/ \E x : h = <<x>> /\ ~ Wide(x) /\ \A y : Fields(x, y) = Four(a, b, c, d)
    BY HeaderRead
  <2> HIDE DEF n, N, f, byte0
  <2> QED
    BY <2>1, <2>2, <2>3, Zenon
<1> HIDE DEF n, N
<1>4. CASE Wide(byte0) /\ xp + 1 >= N
  <2>1. ~ xp + n <= N
    BY <1>1, <1>3, <1>4
  <2> QED
    BY <1>4, <2>1 DEF Decode, n, N
<1>5. CASE ~ (Wide(byte0) /\ xp + 1 >= N)
  <2>1. xp + n <= N
    BY <1>1, <1>3, <1>5
  <2>2. f = <<a, b, c, d>>
    BY <1>3, <2>1, Zenon DEF Four
  <2>3. ~ (f[2] > 4 \/ f[3] > 4 \/ f[4] > 4)
    BY <2>2 DEF Sizes
  <2> HIDE DEF f
  <2>4. Decode(stream, xp) = DecodeImms(stream, xp, xp + n, f)
    BY <1>3, <1>5, <2>3 DEF Decode, f, N
  <2> QED
    BY <2>1, <2>2, <2>4 DEF n, N
<1> QED
  BY <1>4, <1>5

\* What Op.Decode makes of an encoded instruction.
OpOf(meta, imm0, imm1, imm2) ==
    [err |-> "nil", Meta |-> meta, Imm0 |-> Decoded(meta.Imm0, imm0),
     Imm1 |-> Decoded(meta.Imm1, imm1), Imm2 |-> Decoded(meta.Imm2, imm2),
     Len |-> Len(Encode(meta, imm0, imm1, imm2))]

\* Op.Decode (op.go) reads back what OpMeta.Encode (opcode.go) wrote: for every
\* opcode of the table, any immediates and any place in any bytecode it gives
\* the instruction and its length; of an instruction that the end of the
\* bytecode cuts off, an unexpected EOF.
THEOREM DecodeEncoded ==
    ASSUME NEW stream \in Seq(Byte), NEW xp \in Nat, xp < Len(stream),
           NEW meta \in opMeta,
           NEW imm0 \in Uint64, NEW imm1 \in Uint64, NEW imm2 \in Uint64,
           Holds(stream, xp, Encode(meta, imm0, imm1, imm2))
    PROVE  Decode(stream, xp) =
               IF xp + Len(Encode(meta, imm0, imm1, imm2)) <= Len(stream)
               THEN OpOf(meta, imm0, imm1, imm2)
               ELSE Failed("ErrUnexpectedEOF")
<1> DEFINE raw0 == ImmEncode(meta.Imm0, imm0)
           raw1 == ImmEncode(meta.Imm1, imm1)
           raw2 == ImmEncode(meta.Imm2, imm2)
           a == meta.Code
           b == ImmLengthEncode(Len(raw0))
           c == ImmLengthEncode(Len(raw1))
           d == ImmLengthEncode(Len(raw2))
           h == Header(a, b, c, d)
           e == Encode(meta, imm0, imm1, imm2)
<1>1. /\ raw0 \in Seq(Byte) /\ Len(raw0) \in Length
      /\ raw1 \in Seq(Byte) /\ Len(raw1) \in Length
      /\ raw2 \in Seq(Byte) /\ Len(raw2) \in Length
  BY Table, ImmEncoded DEF Length
<1>2. /\ b \in Sizes /\ ImmLengthDecode[b + 1] = Len(raw0)
      /\ c \in Sizes /\ ImmLengthDecode[c + 1] = Len(raw1)
      /\ d \in Sizes /\ ImmLengthDecode[d + 1] = Len(raw2)
  BY <1>1, LengthCoded, SMTT(40)
<1>3. /\ e \in Seq(Byte) /\ h \in Seq(Byte) /\ Len(h) \in {1, 2}
      /\ Len(e) = Len(h) + Len(raw0) + Len(raw1) + Len(raw2)
      /\ \A i \in 1 .. Len(h) : e[i] = h[i]
      /\ \A i \in 1 .. Len(raw0) : e[Len(h) + i] = raw0[i]
      /\ \A i \in 1 .. Len(raw1) : e[Len(h) + Len(raw0) + i] = raw1[i]
      /\ \A i \in 1 .. Len(raw2) : e[Len(h) + Len(raw0) + Len(raw1) + i] = raw2[i]
  BY Layout, ZenonT(40)
<1>4. a \in Codes /\ ~ meta.Illegal /\ MetaOf(a) = meta
  BY Table
<1>5. /\ ImmDecode(meta.Imm0, raw0) = [value |-> Decoded(meta.Imm0, imm0), err |-> "nil"]
      /\ ImmDecode(meta.Imm1, raw1) = [value |-> Decoded(meta.Imm1, imm1), err |-> "nil"]
      /\ ImmDecode(meta.Imm2, raw2) = [value |-> Decoded(meta.Imm2, imm2), err |-> "nil"]
  BY Table, ImmDecoded
<1>6. \A i \in 1 .. Len(e) : xp + i <= Len(stream) => stream[xp + i] = e[i]
  <2>1. DOMAIN e = 1 .. Len(e)
    BY <1>3, SeqLength
  <2> QED
    BY <2>1, Zenon DEF Holds
<1> SUFFICES Decode(stream, xp) = IF xp + Len(e) <= Len(stream)
                                  THEN OpOf(meta, imm0, imm1, imm2)
                                  ELSE Failed("ErrUnexpectedEOF")
  OBVIOUS
<1>7. OpOf(meta, imm0, imm1, imm2) =
        [err |-> "nil", Meta |-> meta, Imm0 |-> Decoded(meta.Imm0, imm0),
         Imm1 |-> Decoded(meta.Imm1, imm1), Imm2 |-> Decoded(meta.Imm2, imm2), Len |-> Len(e)]
  BY DEF OpOf
<1> HIDE DEF raw0, raw1, raw2, a, b, c, d, e
<1>8. Decode(stream, xp) = IF xp + Len(h) <= Len(stream)
                           THEN DecodeImms(stream, xp, xp + Len(h), <<a, b, c, d>>)
                           ELSE Failed("ErrUnexpectedEOF")
  <2>1. HeaderAt(stream, xp, h)
    <3>1. \A i \in 1 .. Len(h) : i \in 1 .. Len(e)
      BY <1>1, <1>3 DEF Length
    <3> QED
      BY <1>3, <1>6, <3>1 DEF HeaderAt
  <2> QED
    BY <1>2, <1>4, <2>1, HeaderDecoded
<1> HIDE DEF h
<1> DEFINE i == xp + Len(h)
           j == i + Len(raw0)
           k == j + Len(raw1)
           l == k + Len(raw2)
<1>9. /\ i \in Nat /\ j \in Nat /\ k \in Nat /\ l = xp + Len(e)
      /\ Len(raw0) \in Nat /\ Len(raw1) \in Nat /\ Len(raw2) \in Nat /\ Len(h) \in Nat
  <2>1. Len(raw0) \in Nat /\ Len(raw1) \in Nat /\ Len(raw2) \in Nat /\ Len(h) \in Nat
    BY <1>1, <1>3 DEF Length
  <2> QED
    BY <1>3, <2>1
<1>10. CASE l > Len(stream)
  <2>1. DecodeImms(stream, xp, i, <<a, b, c, d>>) = Failed("ErrUnexpectedEOF")
    BY <1>2, <1>10, SMTT(40) DEF DecodeImms
  <2> QED
    BY <1>8, <1>9, <1>10, <2>1, SMTT(40)
<1>11. CASE ~ l > Len(stream)
  <2>1. SubSeq(stream, i + 1, j) = raw0
    <3>1. \A x \in 1 .. Len(raw0) : stream[i + x] = raw0[x]
      <4> TAKE x \in 1 .. Len(raw0)
      <4>1. /\ Len(h) + x \in 1 .. Len(e) /\ xp + (Len(h) + x) <= Len(stream)
            /\ xp + (Len(h) + x) = i + x
        BY <1>3, <1>9, <1>11
      <4> QED
        BY <1>3, <1>6, <4>1
    <3>2. i \in Nat /\ j = i + Len(raw0) /\ j <= Len(stream)
      BY <1>9, <1>11
    <3> HIDE DEF i, j
    <3> QED
      BY <1>1, <3>1, <3>2, Piece
  <2>2. SubSeq(stream, j + 1, k) = raw1
    <3>1. \A x \in 1 .. Len(raw1) : stream[j + x] = raw1[x]
      <4> TAKE x \in 1 .. Len(raw1)
      <4>1. /\ Len(h) + Len(raw0) + x \in 1 .. Len(e)
            /\ xp + (Len(h) + Len(raw0) + x) <= Len(stream)
            /\ xp + (Len(h) + Len(raw0) + x) = j + x
        BY <1>3, <1>9, <1>11
      <4> QED
        BY <1>3, <1>6, <4>1
    <3>2. j \in Nat /\ k = j + Len(raw1) /\ k <= Len(stream)
      BY <1>9, <1>11
    <3> HIDE DEF j, k
    <3> QED
      BY <1>1, <3>1, <3>2, Piece
  <2>3. SubSeq(stream, k + 1, l) = raw2
    <3>1. \A x \in 1 .. Len(raw2) : stream[k + x] = raw2[x]
      <4> TAKE x \in 1 .. Len(raw2)
      <4>1. /\ Len(h) + Len(raw0) + Len(raw1) + x \in 1 .. Len(e)
            /\ xp + (Len(h) + Len(raw0) + Len(raw1) + x) <= Len(stream)
            /\ xp + (Len(h) + Len(raw0) + Len(raw1) + x) = k + x
        BY <1>3, <1>9, <1>11
      <4> QED
        BY <1>3, <1>6, <4>1
    <3>2. k \in Nat /\ l = k + Len(raw2) /\ l <= Len(stream)
      BY <1>9, <1>11
    <3> HIDE DEF k, l
    <3> QED
      BY <1>1, <3>1, <3>2, Piece
  <2>4. l - xp = Len(e) /\ i <= Len(stream) /\ xp + Len(e) <= Len(stream)
    BY <1>3, <1>9, <1>11
  <2> DEFINE f == <<a, b, c, d>>
  <2>5. f[1] = a /\ f[2] = b /\ f[3] = c /\ f[4] = d
    OBVIOUS
  <2> HIDE DEF f, i, j, k, l
  <2>6. /\ j = i + ImmLengthDecode[f[2] + 1] /\ k = j + ImmLengthDecode[f[3] + 1]
        /\ l = k + ImmLengthDecode[f[4] + 1] /\ MetaOf(f[1]) = meta
    BY <1>2, <1>4, <2>5 DEF j, k, l
  <2> DEFINE v0 == ImmDecode(meta.Imm0, SubSeq(stream, i + 1, j))
             v1 == ImmDecode(meta.Imm1, SubSeq(stream, j + 1, k))
             v2 == ImmDecode(meta.Imm2, SubSeq(stream, k + 1, l))
  <2>7. /\ v0.err = "nil" /\ v0.value = Decoded(meta.Imm0, imm0)
        /\ v1.err = "nil" /\ v1.value = Decoded(meta.Imm1, imm1)
        /\ v2.err = "nil" /\ v2.value = Decoded(meta.Imm2, imm2)
    <3>1. /\ v0 = [value |-> Decoded(meta.Imm0, imm0), err |-> "nil"]
          /\ v1 = [value |-> Decoded(meta.Imm1, imm1), err |-> "nil"]
          /\ v2 = [value |-> Decoded(meta.Imm2, imm2), err |-> "nil"]
      BY <1>5, <2>1, <2>2, <2>3, Zenon
    <3> HIDE DEF v0, v1, v2
    <3> QED
      BY <3>1
  <2>8. DecodeImms(stream, xp, i, f) =
          [err |-> "nil", Meta |-> meta, Imm0 |-> Decoded(meta.Imm0, imm0),
           Imm1 |-> Decoded(meta.Imm1, imm1), Imm2 |-> Decoded(meta.Imm2, imm2), Len |-> Len(e)]
    BY <1>4, <1>11, <2>4, <2>6, <2>7, Zenon DEF DecodeImms
  <2> QED
    BY <1>7, <1>8, <2>4, <2>8, SMTT(40) DEF i, f
<1> QED
  BY <1>10, <1>11

\* A value that survives comes back as it was.
LEMMA SurvivorDecoded ==
    ASSUME NEW m, NEW raw \in Uint64, Survives(m, raw)
    PROVE  Decoded(m, raw) = raw
<1>1. CASE IsPresent(m, raw)
  <2>1. \A i \in 1..8 : Or8(Default(m)[i], raw[i]) = raw[i]
    BY <1>1 DEF Survives
  <2>2. [i \in 1..8 |-> Or8(Default(m)[i], raw[i])] = [i \in 1..8 |-> raw[i]]
    BY <2>1, Zenon
  <2>3. [i \in 1..8 |-> raw[i]] = raw
    BY DEF Uint64
  <2> QED
    BY <1>1, <2>2, <2>3 DEF Decoded
<1>2. CASE ~ IsPresent(m, raw)
  BY <1>2 DEF Survives, Decoded
<1> QED
  BY <1>1, <1>2

-----------------------------------------------------------------------------
(* Op.Decode of arbitrary bytes. *)

LEMMA OrIsByte ==
    \A x, y : Or8(x, y) \in Byte
<1> TAKE x, y
<1> DEFINE bit(w) == IF (x \div w) % 2 = 1 \/ (y \div w) % 2 = 1 THEN w ELSE 0
           b1 == bit(1)
           b2 == bit(2)
           b3 == bit(4)
           b4 == bit(8)
           b5 == bit(16)
           b6 == bit(32)
           b7 == bit(64)
           b8 == bit(128)
<1>1. /\ b1 \in 0..1 /\ b2 \in 0..2 /\ b3 \in 0..4 /\ b4 \in 0..8
      /\ b5 \in 0..16 /\ b6 \in 0..32 /\ b7 \in 0..64 /\ b8 \in 0..128
  OBVIOUS
<1>2. Or8(x, y) = b1 + b2 + b3 + b4 + b5 + b6 + b7 + b8
  BY DEF Or8
<1> HIDE DEF b1, b2, b3, b4, b5, b6, b7, b8
<1> QED
  BY <1>1, <1>2 DEF Byte

LEMMA DefaultType ==
    ASSUME NEW m, IsImm(m)
    PROVE  Default(m) \in Uint64
  BY DEF Default, IsImm, Uint64, Byte

ImmErrors == {"nil", "ErrMissingImmediate", "ErrUnexpectedImmediate"}

LEMMA ImmDecodeType ==
    ASSUME NEW m, IsImm(m), NEW data
    PROVE  ImmDecode(m, data).value \in Uint64 /\ ImmDecode(m, data).err \in ImmErrors
<1> DEFINE n == Len(data)
           high == IF Signed(m.Type) /\ data[n] >= 128 THEN 255 ELSE 0
           or == [i \in 1..8 |-> Or8(Default(m)[i], IF i <= n THEN data[i] ELSE high)]
<1>1. or \in Uint64
  BY OrIsByte, Zenon DEF Uint64
<1>2. Default(m) \in Uint64
  BY DefaultType
<1> HIDE DEF or
<1>3. CASE n = 0
  BY <1>2, <1>3 DEF ImmDecode, ImmErrors
<1>4. CASE n # 0 /\ m.Type = "None"
  BY <1>2, <1>4 DEF ImmDecode, ImmErrors
<1>5. CASE n # 0 /\ m.Type # "None"
  <2>1. ImmDecode(m, data) = [value |-> or, err |-> "nil"]
    BY <1>5, Zenon DEF ImmDecode, or
  <2> QED
    BY <1>1, <2>1 DEF ImmErrors
<1> QED
  BY <1>3, <1>4, <1>5

LEMMA FieldsType ==
    ASSUME NEW x \in Byte, NEW y, Wide(x) => y \in Byte
    PROVE  LET f == Fields(x, y)
           IN  f[1] \in 0..63 /\ f[2] \in Nat /\ f[3] \in Nat /\ f[4] \in Nat
<1>1. CASE Wide(x)
  BY <1>1 DEF Fields, Byte, Wide
<1>2. CASE ~ Wide(x)
  BY <1>2 DEF Fields, Byte, Wide
<1> QED
  BY <1>1, <1>2

Errors == ImmErrors \cup {"EOF", "ErrUnexpectedEOF", "ErrBadImmediateLen", "ErrUnknownOpcode"}

IsInstruction(op) ==
    /\ op.Meta \in opMeta
    /\ op.Imm0 \in Uint64 /\ op.Imm1 \in Uint64 /\ op.Imm2 \in Uint64

\* Whatever the bytes, what Op.Decode accepts lies within them and is an
\* instruction of the table; EOF is the answer at their end and nowhere else.
THEOREM DecodeType ==
    ASSUME NEW stream \in Seq(Byte), NEW xp \in Nat
    PROVE  LET op == Decode(stream, xp)
           IN  /\ op.err \in Errors
               /\ op.err = "EOF" <=> xp >= Len(stream)
               /\ op.err = "nil" => /\ IsInstruction(op)
                                    /\ op.Len \in Nat \ {0}
                                    /\ xp + op.Len <= Len(stream)
<1> DEFINE op == Decode(stream, xp)
           byte0 == stream[xp + 1]
           byte1 == stream[xp + 2]
           wide == Wide(byte0)
           f == Fields(byte0, byte1)
<1>1. CASE xp >= Len(stream)
  <2>1. op = Failed("EOF")
    BY <1>1 DEF Decode
  <2> QED
    BY <1>1, <2>1 DEF Failed, Errors
<1>2. CASE xp < Len(stream) /\ wide /\ xp + 1 >= Len(stream)
  <2>1. op = Failed("ErrUnexpectedEOF")
    BY <1>2 DEF Decode
  <2> QED
    BY <1>2, <2>1 DEF Failed, Errors
<1>3. CASE xp < Len(stream) /\ ~ (wide /\ xp + 1 >= Len(stream))
  <2>1. byte0 \in Byte /\ (wide => byte1 \in Byte)
    BY <1>3
  <2>2. f[1] \in 0..63 /\ f[2] \in Nat /\ f[3] \in Nat /\ f[4] \in Nat
    <3> HIDE DEF byte0, byte1
    <3> QED
      BY <2>1, FieldsType
  <2> DEFINE i == xp + IF wide THEN 2 ELSE 1
  <2> HIDE DEF f
  <2>3. CASE f[2] > 4 \/ f[3] > 4 \/ f[4] > 4
    <3>1. op = Failed("ErrBadImmediateLen")
      BY <1>3, <2>3 DEF Decode, f
    <3> QED
      BY <1>3, <3>1 DEF Failed, Errors
  <2>4. CASE ~ (f[2] > 4 \/ f[3] > 4 \/ f[4] > 4)
    <3> DEFINE j == i + ImmLengthDecode[f[2] + 1]
               k == j + ImmLengthDecode[f[3] + 1]
               l == k + ImmLengthDecode[f[4] + 1]
               meta == MetaOf(f[1])
               imm0 == ImmDecode(meta.Imm0, SubSeq(stream, i + 1, j))
               imm1 == ImmDecode(meta.Imm1, SubSeq(stream, j + 1, k))
               imm2 == ImmDecode(meta.Imm2, SubSeq(stream, k + 1, l))
    <3>1. op = DecodeImms(stream, xp, i, f)
      BY <1>3, <2>4 DEF Decode, f
    <3>2. l \in Nat /\ xp + 1 <= l
      <4>1. \A b \in 0..4 : ImmLengthDecode[b + 1] \in Nat
        BY DEF ImmLengthDecode
      <4> DEFINE n0 == ImmLengthDecode[f[2] + 1]
                 n1 == ImmLengthDecode[f[3] + 1]
                 n2 == ImmLengthDecode[f[4] + 1]
      <4>2. n0 \in Nat /\ n1 \in Nat /\ n2 \in Nat
        <5>1. f[2] \in 0..4 /\ f[3] \in 0..4 /\ f[4] \in 0..4
          BY <2>2, <2>4
        <5> QED
          BY <4>1, <5>1, Zenon
      <4>3. i \in Nat /\ xp + 1 <= i
        OBVIOUS
      <4> HIDE DEF n0, n1, n2, i
      <4>4. i + n0 + n1 + n2 \in Nat /\ xp + 1 <= i + n0 + n1 + n2
        BY <4>2, <4>3
      <4> QED
        BY <4>4 DEF n0, n1, n2
    <3>3. ~ meta.Illegal => meta \in opMeta
      BY DEF MetaOf, Meta
    <3>4. meta \in opMeta => /\ imm0.value \in Uint64 /\ imm0.err \in ImmErrors
                             /\ imm1.value \in Uint64 /\ imm1.err \in ImmErrors
                             /\ imm2.value \in Uint64 /\ imm2.err \in ImmErrors
      <4> HIDE DEF meta, i, j, k, l
      <4> QED
        BY Table, ImmDecodeType
    <3>5. op = IF l > Len(stream)       THEN Failed("ErrUnexpectedEOF")
               ELSE IF meta.Illegal     THEN Failed("ErrUnknownOpcode")
               ELSE IF imm0.err # "nil" THEN Failed(imm0.err)
               ELSE IF imm1.err # "nil" THEN Failed(imm1.err)
               ELSE IF imm2.err # "nil" THEN Failed(imm2.err)
               ELSE [err |-> "nil", Meta |-> meta, Imm0 |-> imm0.value, Imm1 |-> imm1.value,
                     Imm2 |-> imm2.value, Len |-> l - xp]
      BY <3>1, Zenon DEF DecodeImms
    <3> HIDE DEF l, meta, imm0, imm1, imm2, op
    <3>6. CASE l > Len(stream) \/ meta.Illegal \/ imm0.err # "nil" \/ imm1.err # "nil"
               \/ imm2.err # "nil"
      <4>1. \E e \in (Errors \ {"nil", "EOF"}) : op = Failed(e)
        BY <3>3, <3>4, <3>5, <3>6 DEF Errors, ImmErrors
      <4> QED
        BY <1>3, <4>1 DEF Failed, op
    <3>7. CASE ~ (l > Len(stream) \/ meta.Illegal \/ imm0.err # "nil" \/ imm1.err # "nil"
                  \/ imm2.err # "nil")
      <4>1. op = [err |-> "nil", Meta |-> meta, Imm0 |-> imm0.value, Imm1 |-> imm1.value,
                  Imm2 |-> imm2.value, Len |-> l - xp]
        BY <3>5, <3>7
      <4>2. op.err = "nil" /\ IsInstruction(op) /\ op.Len = l - xp
        BY <3>3, <3>4, <3>7, <4>1 DEF IsInstruction
      <4> QED
        BY <1>3, <3>2, <3>7, <4>2 DEF op, Errors, ImmErrors
    <3> QED
      BY <3>6, <3>7
  <2> QED
    BY <2>3, <2>4
<1> QED
  BY <1>1, <1>2, <1>3

LEMMA AsIntType ==
    ASSUME NEW v \in Uint64
    PROVE  AsInt(v) \in Int
<1>1. \A i \in 1..8 : v[i] \in Int
  BY DEF Uint64, Byte
<1>2. \A b \in Int, h \in Int : b + 256 * h \in Int
  OBVIOUS
<1> QED
  BY <1>1, <1>2 DEF AsInt, Horner
-----------------------------------------------------------------------------
(* The lengths of encoded offsets. *)

\* How many bytes a signed immediate needs.
Within(s, k) == - k <= s /\ s < k

SignedLength(s) ==
    IF Within(s, 128) THEN 1
    ELSE IF Within(s, 32768) THEN 2
    ELSE IF Within(s, 2147483648) THEN 4 ELSE 8

\* s is between 0 and t.
Nearer(s, t) == (0 <= s /\ s <= t) \/ (t <= s /\ s <= 0)

LEMMA SignedLengthGrows ==
    ASSUME NEW s \in Int, NEW t \in Int
    PROVE  /\ SignedLength(s) \in {1, 2, 4, 8}
           /\ Nearer(s, t) => SignedLength(s) <= SignedLength(t)
  BY DEF SignedLength, Within, Nearer

LEMMA ByteOf ==
    ASSUME NEW v \in Int
    PROVE  /\ v \div 256 \in Int /\ v % 256 \in Byte
           /\ v = 256 * (v \div 256) + (v % 256)
  BY DEF Byte

LEMMA RawType ==
    ASSUME NEW s \in Int
    PROVE  Raw(s) \in Uint64
<1> DEFINE v2 == s \div 256
           v3 == v2 \div 256
           v4 == v3 \div 256
           v5 == v4 \div 256
           v6 == v5 \div 256
           v7 == v6 \div 256
           v8 == v7 \div 256
<1>1. Raw(s) = <<s % 256, v2 % 256, v3 % 256, v4 % 256, v5 % 256, v6 % 256, v7 % 256, v8 % 256>>
  BY DEF Raw
<1>2. v2 \in Int /\ s % 256 \in Byte
  BY ByteOf
<1> HIDE DEF v2
<1>3. v3 \in Int /\ v2 % 256 \in Byte
  BY <1>2, ByteOf
<1> HIDE DEF v3
<1>4. v4 \in Int /\ v3 % 256 \in Byte
  BY <1>3, ByteOf
<1> HIDE DEF v4
<1>5. v5 \in Int /\ v4 % 256 \in Byte
  BY <1>4, ByteOf
<1> HIDE DEF v5
<1>6. v6 \in Int /\ v5 % 256 \in Byte
  BY <1>5, ByteOf
<1> HIDE DEF v6
<1>7. v7 \in Int /\ v6 % 256 \in Byte
  BY <1>6, ByteOf
<1> HIDE DEF v7
<1>8. v8 \in Int /\ v7 % 256 \in Byte
  BY <1>7, ByteOf
<1> HIDE DEF v8
<1>9. v8 % 256 \in Byte
  BY <1>8, ByteOf
<1> QED
  BY <1>1, <1>2, <1>3, <1>4, <1>5, <1>6, <1>7, <1>8, <1>9 DEF Uint64

\* ImmMeta.Encode gives a signed value as few bytes as hold it.
LEMMA SignedLengthIs ==
    ASSUME NEW m, IsImm(m), Signed(m.Type), m.Required, m.Type # "None",
           NEW s \in Int, AsInt(Raw(s)) = s
    PROVE  Len(ImmEncode(m, Raw(s))) = SignedLength(s)
<1> DEFINE v2 == s \div 256
           v3 == v2 \div 256
           v4 == v3 \div 256
           v5 == v4 \div 256
           v6 == v5 \div 256
           v7 == v6 \div 256
           v8 == v7 \div 256
           b1 == s % 256
           b2 == v2 % 256
           b3 == v3 % 256
           b4 == v4 % 256
           b5 == v5 % 256
           b6 == v6 % 256
           b7 == v7 % 256
           b8 == v8 % 256
           raw == Raw(s)
<1>1. /\ raw[1] = b1 /\ raw[2] = b2 /\ raw[3] = b3 /\ raw[4] = b4
      /\ raw[5] = b5 /\ raw[6] = b6 /\ raw[7] = b7 /\ raw[8] = b8
  BY DEF Raw
<1>2. /\ v2 \in Int /\ b1 \in Byte /\ s = 256 * v2 + b1
      /\ v3 \in Int /\ b2 \in Byte /\ v2 = 256 * v3 + b2
      /\ v4 \in Int /\ b3 \in Byte /\ v3 = 256 * v4 + b3
      /\ v5 \in Int /\ b4 \in Byte /\ v4 = 256 * v5 + b4
      /\ v6 \in Int /\ b5 \in Byte /\ v5 = 256 * v6 + b5
      /\ v7 \in Int /\ b6 \in Byte /\ v6 = 256 * v7 + b6
      /\ v8 \in Int /\ b7 \in Byte /\ v7 = 256 * v8 + b7
  BY ByteOf
<1>3. raw \in Uint64
  BY RawType
<1>4. b8 \in Byte /\ v8 = 256 * (v8 \div 256) + b8 /\ v8 \div 256 \in Int
  <2> HIDE DEF v8
  <2> QED
    BY <1>2, ByteOf
<1> DEFINE x == IF raw[8] >= 128 THEN 255 ELSE 0
           f(b) == (b >= 128) = (x = 255)
           fits4 == raw[8] = x /\ raw[7] = x /\ raw[6] = x /\ raw[5] = x /\ f(raw[4])
           fits2 == fits4 /\ raw[4] = x /\ raw[3] = x /\ f(raw[2])
           fits1 == fits2 /\ raw[2] = x /\ f(raw[1])
           n == IF fits1 THEN 1 ELSE IF fits2 THEN 2 ELSE IF fits4 THEN 4 ELSE 8
<1>5. ImmEncode(m, raw) = SubSeq(raw, 1, n)
  BY DEF ImmEncode, IsPresent
<1>6. Len(ImmEncode(m, raw)) = n
  <2>1. n \in {1, 2, 4, 8}
    OBVIOUS
  <2> HIDE DEF n, raw
  <2>2. \A i \in 1..n : raw[i] \in Byte
    BY <1>3, <2>1 DEF Uint64
  <2> QED
    BY <1>5, <2>1, <2>2, SubSequence
<1> HIDE DEF b1, b2, b3, b4, b5, b6, b7, b8, v2, v3, v4, v5, v6, v7, v8, raw
<1>7. v8 = IF b8 >= 128 THEN b8 - 256 ELSE b8
  <2> DEFINE h == IF b8 >= 128 THEN -1 ELSE 0
  <2>1. s = b1 + 256 * (b2 + 256 * (b3 + 256 * (b4 + 256 *
              (b5 + 256 * (b6 + 256 * (b7 + 256 * (b8 + 256 * h)))))))
    BY <1>1 DEF AsInt, Horner, raw
  <2>2. h \in {-1, 0}
    OBVIOUS
  <2> HIDE DEF h
  <2>3. v8 = b8 + 256 * h
    BY <1>2, <1>4, <2>1, <2>2 DEF Byte, Within
  <2> QED
    BY <1>4, <2>3 DEF h, Byte
<1>8. Within(v8, 128)
  BY <1>4, <1>7 DEF Byte, Within
<1>9. /\ v8 < 0 <=> b8 >= 128
      /\ v8 = IF v8 < 0 THEN b8 - 256 ELSE b8
  BY <1>4, <1>8 DEF Byte, Within
<1> DEFINE g == IF v8 < 0 THEN -1 ELSE 0
<1>10. x = IF g = -1 THEN 255 ELSE 0
  BY <1>1, <1>9
<1>11. /\ g = -1 <=> v8 < 0
       /\ v8 < 0 <=> v7 < 0
       /\ v7 < 0 <=> v6 < 0
       /\ v6 < 0 <=> v5 < 0
  BY <1>2 DEF Byte, Within
<1> HIDE DEF g
<1>12. g \in {-1, 0}
  BY DEF g
<1>13. v5 = g <=> raw[8] = x /\ raw[7] = x /\ raw[6] = x /\ raw[5] = x
  <2>1. v7 = g <=> v8 = g /\ b7 = x
    BY <1>2, <1>10, <1>11, <1>12 DEF Byte, Within
  <2>2. v6 = g <=> v7 = g /\ b6 = x
    BY <1>2, <1>10, <1>11, <1>12 DEF Byte, Within
  <2>3. v5 = g <=> v6 = g /\ b5 = x
    BY <1>2, <1>10, <1>11, <1>12 DEF Byte, Within
  <2>4. v8 = g <=> raw[8] = x
    BY <1>1, <1>9, <1>10, <1>12, <1>4 DEF Byte, g
  <2> HIDE DEF x
  <2> QED
    BY <1>1, <2>1, <2>2, <2>3, <2>4
<1>14. fits4 <=> Within(v4, 128)
  <2>1. Within(v4, 128) <=> v5 = g /\ (b4 >= 128 <=> g = -1)
    BY <1>2, <1>11, <1>12 DEF Byte, Within
  <2>2. f(raw[4]) <=> (b4 >= 128 <=> g = -1)
    BY <1>1, <1>10, <1>12
  <2> HIDE DEF f, x
  <2> QED
    BY <1>13, <2>1, <2>2
<1>15. fits4 => v5 = g
  BY <1>13
<1>16. fits2 <=> Within(v2, 128)
  <2>1. ASSUME v5 = g PROVE v3 = g <=> b4 = x /\ b3 = x
    <3>1. v4 = g <=> b4 = x
      BY <1>2, <1>10, <1>12, <2>1 DEF Byte, Within
    <3>2. v3 = g <=> v4 = g /\ b3 = x
      BY <1>2, <1>10, <1>12, <2>1 DEF Byte, Within
    <3> QED
      BY <3>1, <3>2
  <2>2. Within(v2, 128) => v5 = g /\ v3 = g /\ (b2 >= 128 <=> g = -1)
    BY <1>2, <1>11, <1>12 DEF Byte, Within
  <2>3. v3 = g /\ (b2 >= 128 <=> g = -1) => Within(v2, 128)
    BY <1>2, <1>12 DEF Byte, Within
  <2>4. f(raw[2]) <=> (b2 >= 128 <=> g = -1)
    BY <1>1, <1>10, <1>12
  <2>5. Within(v2, 128) => fits4
    <3>1. Within(v2, 128) => Within(v4, 128)
      BY <1>2 DEF Byte, Within
    <3> QED
      BY <1>14, <3>1
  <2> HIDE DEF f, x, fits4
  <2> QED
    BY <1>1, <1>15, <2>1, <2>2, <2>3, <2>4, <2>5
<1>17. fits1 <=> Within(s, 128)
  <2>1. fits2 => v3 = g
    BY <1>2, <1>10, <1>12, <1>1, <1>15 DEF Byte, Within
  <2>2. ASSUME v3 = g PROVE v2 = g <=> b2 = x
    BY <1>2, <1>10, <1>12, <2>2 DEF Byte, Within
  <2>3. Within(s, 128) => v3 = g /\ v2 = g /\ (b1 >= 128 <=> g = -1)
    BY <1>2, <1>11, <1>12 DEF Byte, Within
  <2>4. v2 = g /\ (b1 >= 128 <=> g = -1) => Within(s, 128)
    BY <1>2, <1>12 DEF Byte, Within
  <2>5. f(raw[1]) <=> (b1 >= 128 <=> g = -1)
    BY <1>1, <1>10, <1>12
  <2>6. Within(s, 128) => fits2
    <3>1. Within(s, 128) => Within(v2, 128)
      BY <1>2 DEF Byte, Within
    <3> QED
      BY <1>16, <3>1
  <2> HIDE DEF f, x, fits2
  <2> QED
    BY <1>1, <2>1, <2>2, <2>3, <2>4, <2>5, <2>6
<1>18. Within(v2, 128) <=> Within(s, 32768)
  BY <1>2 DEF Byte, Within
<1>19. Within(v4, 128) <=> Within(s, 2147483648)
  BY <1>2 DEF Byte, Within
<1> HIDE DEF fits1, fits2, fits4
<1> QED
  BY <1>6, <1>14, <1>16, <1>17, <1>18, <1>19 DEF SignedLength, raw

LEMMA LengthOrder ==
    ASSUME NEW n \in Length, NEW k \in Length, n <= k
    PROVE  ImmLengthEncode(n) <= ImmLengthEncode(k)
<1>1. /\ ImmLengthEncode(n) \in Sizes /\ ImmLengthDecode[ImmLengthEncode(n) + 1] = n
      /\ ImmLengthEncode(k) \in Sizes /\ ImmLengthDecode[ImmLengthEncode(k) + 1] = k
  BY LengthCoded
<1>2. \A b, c \in 0..4 : ImmLengthDecode[b + 1] <= ImmLengthDecode[c + 1] => b <= c
  BY DEF ImmLengthDecode
<1> QED
  BY <1>1, <1>2 DEF Sizes

\* OpMeta.Encode needs at most 26 bytes, and no fewer when an immediate gets
\* longer.
LEMMA EncodeGrows ==
    ASSUME NEW meta \in opMeta,
           NEW imm0 \in Uint64, NEW imm1 \in Uint64, NEW imm2 \in Uint64,
           NEW jmm0 \in Uint64, NEW jmm1 \in Uint64, NEW jmm2 \in Uint64,
           Len(ImmEncode(meta.Imm0, imm0)) <= Len(ImmEncode(meta.Imm0, jmm0)),
           Len(ImmEncode(meta.Imm1, imm1)) <= Len(ImmEncode(meta.Imm1, jmm1)),
           Len(ImmEncode(meta.Imm2, imm2)) <= Len(ImmEncode(meta.Imm2, jmm2))
    PROVE  /\ Encode(meta, imm0, imm1, imm2) \in Seq(Byte)
           /\ Len(Encode(meta, imm0, imm1, imm2)) \in 1..26
           /\ Len(Encode(meta, imm0, imm1, imm2)) <= Len(Encode(meta, jmm0, jmm1, jmm2))
<1> DEFINE n0 == Len(ImmEncode(meta.Imm0, imm0))
           n1 == Len(ImmEncode(meta.Imm1, imm1))
           n2 == Len(ImmEncode(meta.Imm2, imm2))
           k0 == Len(ImmEncode(meta.Imm0, jmm0))
           k1 == Len(ImmEncode(meta.Imm1, jmm1))
           k2 == Len(ImmEncode(meta.Imm2, jmm2))
           h == Header(meta.Code, ImmLengthEncode(n0), ImmLengthEncode(n1), ImmLengthEncode(n2))
           g == Header(meta.Code, ImmLengthEncode(k0), ImmLengthEncode(k1), ImmLengthEncode(k2))
<1>1. /\ Encode(meta, imm0, imm1, imm2) \in Seq(Byte) /\ Len(h) \in {1, 2}
      /\ Len(Encode(meta, imm0, imm1, imm2)) = Len(h) + n0 + n1 + n2
  BY Layout, SMTT(40)
<1>2. Len(Encode(meta, jmm0, jmm1, jmm2)) = Len(g) + k0 + k1 + k2
  BY Layout
<1>3. /\ n0 \in Length /\ n1 \in Length /\ n2 \in Length
      /\ k0 \in Length /\ k1 \in Length /\ k2 \in Length
  BY Table, ImmEncoded DEF Length
<1>4. n0 <= k0 /\ n1 <= k1 /\ n2 <= k2
  OBVIOUS
<1>5. Len(h) <= Len(g) /\ Len(g) \in {1, 2}
  <2> DEFINE a == meta.Code
             b == ImmLengthEncode(n0)
             c == ImmLengthEncode(n1)
             d == ImmLengthEncode(n2)
             b2 == ImmLengthEncode(k0)
             c2 == ImmLengthEncode(k1)
             d2 == ImmLengthEncode(k2)
  <2> HIDE DEF n0, n1, n2, k0, k1, k2
  <2>1. b <= b2 /\ c <= c2 /\ d <= d2
    BY <1>3, <1>4, LengthOrder
  <2>2. b \in Sizes /\ c \in Sizes /\ d \in Sizes /\ b2 \in Sizes /\ c2 \in Sizes /\ d2 \in Sizes
    BY <1>3, LengthCoded
  <2>3. a \in Codes
    BY Table
  <2> HIDE DEF a, b, c, d, b2, c2, d2
  <2>4. Len(Header(a, b, c, d)) = IF a > 7 \/ b > 3 \/ c > 3 \/ d > 0 THEN 2 ELSE 1
    BY DEF Header
  <2>5. Len(Header(a, b2, c2, d2)) = IF a > 7 \/ b2 > 3 \/ c2 > 3 \/ d2 > 0 THEN 2 ELSE 1
    BY DEF Header
  <2>6. Len(Header(a, b, c, d)) <= Len(Header(a, b2, c2, d2)) /\ Len(Header(a, b2, c2, d2)) \in {1, 2}
    BY <2>1, <2>2, <2>3, <2>4, <2>5 DEF Codes, Sizes
  <2> QED
    BY <2>6 DEF a, b, c, d, b2, c2, d2
<1> DEFINE x == Len(h)
           y == Len(g)
<1> HIDE DEF n0, n1, n2, k0, k1, k2, x, y
<1>6. x \in {1, 2} /\ y \in {1, 2} /\ x <= y
  BY <1>1, <1>5 DEF x, y
<1>7. x + n0 + n1 + n2 \in 1..26 /\ x + n0 + n1 + n2 <= y + k0 + k1 + k2
  BY <1>3, <1>4, <1>6 DEF Length
<1> QED
  BY <1>1, <1>2, <1>7, Zenon DEF x, y
=============================================================================
