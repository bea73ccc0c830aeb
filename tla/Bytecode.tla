------------------------------ MODULE Bytecode ------------------------------
(***************************************************************************)
(* The instruction encoding of go-peggy: the opcode table (data.go),       *)
(* ImmMeta and OpMeta with their Encode methods (opcode.go), the immediate *)
(* lengths (util.go) and Op.Decode (op.go), at full width: a byte is       *)
(* 0..255 and a uint64 is the tuple of its eight bytes, lowest first.      *)
(***************************************************************************)
EXTENDS Integers, Sequences

Byte == 0..255
Uint64 == [1..8 -> Byte]

\* A uint64 and its conversions.  Raw is byte(v), byte(v >> 8), ... of the two's
\* complement of v (s2u); AsUint and AsInt (u2s) read it back.
Raw(v) ==
    LET v2 == v \div 256
        v3 == v2 \div 256
        v4 == v3 \div 256
        v5 == v4 \div 256
        v6 == v5 \div 256
        v7 == v6 \div 256
        v8 == v7 \div 256
    IN  <<v % 256, v2 % 256, v3 % 256, v4 % 256, v5 % 256, v6 % 256, v7 % 256, v8 % 256>>

Horner(b, high) ==
    b[1] + 256 * (b[2] + 256 * (b[3] + 256 * (b[4] + 256 *
        (b[5] + 256 * (b[6] + 256 * (b[7] + 256 * (b[8] + 256 * high)))))))

AsUint(b) == Horner(b, 0)
AsInt(b)  == Horner(b, IF b[8] >= 128 THEN -1 ELSE 0)

\* Bitwise or of two bytes.
Or8(x, y) ==
    LET bit(w) == IF (x \div w) % 2 = 1 \/ (y \div w) % 2 = 1 THEN w ELSE 0
    IN  bit(1) + bit(2) + bit(4) + bit(8) + bit(16) + bit(32) + bit(64) + bit(128)

-----------------------------------------------------------------------------
(* The opcode table. *)

Signed(type) == type \in {"Sint", "CodeOffset"}

none == [Type |-> "None", Required |-> FALSE, PackedDefault |-> 0]
required(type) == [Type |-> type, Required |-> TRUE, PackedDefault |-> 0]
optional(type, b) == [Type |-> type, Required |-> FALSE, PackedDefault |-> b]

Meta(code, name, imm0, imm1, imm2) ==
    [Code |-> code, Name |-> name, Illegal |-> FALSE,
     Imm0 |-> imm0, Imm1 |-> imm1, Imm2 |-> imm2]

offset == required("CodeOffset")
count  == optional("Count", 1)

opMeta ==
    {Meta(0,  "NOP",     none, none, none),
     Meta(1,  "CHOICE",  offset, none, none),
     Meta(2,  "COMMIT",  offset, none, none),
     Meta(3,  "FAIL",    none, none, none),
     Meta(4,  "ANYB",    count, none, none),
     Meta(5,  "SAMEB",   required("Byte"), count, none),
     Meta(6,  "LITB",    required("LiteralIdx"), none, none),
     Meta(7,  "MATCHB",  required("MatcherIdx"), count, none),
     Meta(8,  "JMP",     offset, none, none),
     Meta(10, "CALL",    offset, none, none),
     Meta(11, "RET",     none, none, none),
     Meta(12, "TANYB",   offset, count, none),
     Meta(13, "TSAMEB",  offset, required("Byte"), count),
     Meta(14, "TLITB",   offset, required("LiteralIdx"), none),
     Meta(15, "TMATCHB", offset, required("MatcherIdx"), count),
     Meta(16, "PCOMMIT", offset, none, none),
     Meta(17, "BCOMMIT", offset, none, none),
     Meta(18, "SPANB",   required("MatcherIdx"), none, none),
     Meta(19, "FAIL2X",  none, none, none),
     Meta(20, "RWNDB",   required("Count"), none, none),
     Meta(21, "FCAP",    required("CaptureIdx"), required("Count"), none),
     Meta(22, "BCAP",    required("CaptureIdx"), none, none),
     Meta(23, "ECAP",    required("CaptureIdx"), none, none),
     Meta(62, "GIVEUP",  none, none, none),
     Meta(63, "END",     none, none, none)}

\* OpCode.Meta: the entry of the table, or a synthetic one for illegal codes.
MetaOf(code) ==
    IF \E m \in opMeta : m.Code = code
    THEN CHOOSE m \in opMeta : m.Code = code
    ELSE [Meta(code, "ILLEGAL", optional("Uint", 0), optional("Uint", 0), optional("Uint", 0))
            EXCEPT !.Illegal = TRUE]

-----------------------------------------------------------------------------
(* Immediates. *)

Default(m) ==
    LET high == IF Signed(m.Type) /\ m.PackedDefault >= 128 THEN 255 ELSE 0
    IN  [i \in 1..8 |-> IF i = 1 THEN m.PackedDefault ELSE high]

IsPresent(m, raw) == m.Type # "None" /\ (m.Required \/ Default(m) # raw)

\* Faulty variant: the sign bit of the shortened value is not looked at.
ImmEncode_NoSign(m, raw) ==
    LET x == IF Signed(m.Type) /\ raw[8] >= 128 THEN 255 ELSE 0
        n == CHOOSE n \in {1, 2, 4, 8} :
                /\ \A i \in n + 1 .. 8 : raw[i] = x
                /\ \A k \in {1, 2, 4, 8} : (\A i \in k + 1 .. 8 : raw[i] = x) => n <= k
    IN  IF IsPresent(m, raw) THEN SubSeq(raw, 1, n) ELSE <<>>

\* ImmMeta.Encode: as few of the bytes 1, 2, 4, 8 as carry the value, and its
\* sign.
ImmEncode(m, raw) ==
    LET x == IF Signed(m.Type) /\ raw[8] >= 128 THEN 255 ELSE 0
        f(b) == Signed(m.Type) => (b >= 128) = (x = 255)
        fits4 == raw[8] = x /\ raw[7] = x /\ raw[6] = x /\ raw[5] = x /\ f(raw[4])
        fits2 == fits4 /\ raw[4] = x /\ raw[3] = x /\ f(raw[2])
        fits1 == fits2 /\ raw[2] = x /\ f(raw[1])
        n == IF fits1 THEN 1 ELSE IF fits2 THEN 2 ELSE IF fits4 THEN 4 ELSE 8
    IN  IF IsPresent(m, raw) THEN SubSeq(raw, 1, n) ELSE <<>>

\* ImmMeta.Decode.  The value starts out as the default and the bytes of the
\* immediate, with their sign extension, are or-ed into it.
ImmDecode(m, data) ==
    LET n == Len(data)
        high == IF Signed(m.Type) /\ data[n] >= 128 THEN 255 ELSE 0
    IN  IF n = 0
        THEN [value |-> Default(m),
              err |-> IF m.Type # "None" /\ m.Required THEN "ErrMissingImmediate" ELSE "nil"]
        ELSE IF m.Type = "None"
        THEN [value |-> Default(m), err |-> "ErrUnexpectedImmediate"]
        ELSE [value |-> [i \in 1..8 |-> Or8(Default(m)[i], IF i <= n THEN data[i] ELSE high)],
              err |-> "nil"]

\* ImmLengthDecode, ImmLengthEncode.
ImmLengthDecode == <<0, 1, 2, 4, 8>>
ImmLengthEncode(n) == CHOOSE b \in 0..4 : ImmLengthDecode[b + 1] = n

-----------------------------------------------------------------------------
(* Instructions. *)

\* A one-byte header 0aaabbcc or a two-byte header 1aaaaaab bbcccddd.
Header(a, b, c, d) ==
    IF a > 7 \/ b > 3 \/ c > 3 \/ d > 0
    THEN <<128 + 2 * a + b \div 4, 64 * (b % 4) + 8 * c + d>>
    ELSE <<16 * a + 4 * b + c>>

Wide(byte0) == byte0 >= 128

Fields(byte0, byte1) ==
    IF Wide(byte0)
    THEN <<(byte0 % 128) \div 2, 4 * (byte0 % 2) + byte1 \div 64, (byte1 \div 8) % 8, byte1 % 8>>
    ELSE <<byte0 \div 16, (byte0 \div 4) % 4, byte0 % 4, 0>>

\* OpMeta.Encode: the header, then the immediates.
Encode(meta, imm0, imm1, imm2) ==
    LET raw0 == ImmEncode(meta.Imm0, imm0)
        raw1 == ImmEncode(meta.Imm1, imm1)
        raw2 == ImmEncode(meta.Imm2, imm2)
    IN  Header(meta.Code, ImmLengthEncode(Len(raw0)), ImmLengthEncode(Len(raw1)),
               ImmLengthEncode(Len(raw2)))
        \o raw0 \o raw1 \o raw2

Failed(e) == [err |-> e]

\* Op.Decode of the instruction at xp once its header f is read, which ends at i.
DecodeImms(stream, xp, i, f) ==
    LET j == i + ImmLengthDecode[f[2] + 1]
        k == j + ImmLengthDecode[f[3] + 1]
        l == k + ImmLengthDecode[f[4] + 1]
        meta == MetaOf(f[1])
        imm0 == ImmDecode(meta.Imm0, SubSeq(stream, i + 1, j))
        imm1 == ImmDecode(meta.Imm1, SubSeq(stream, j + 1, k))
        imm2 == ImmDecode(meta.Imm2, SubSeq(stream, k + 1, l))
    IN  IF l > Len(stream)       THEN Failed("ErrUnexpectedEOF")
        ELSE IF meta.Illegal     THEN Failed("ErrUnknownOpcode")
        ELSE IF imm0.err # "nil" THEN Failed(imm0.err)
        ELSE IF imm1.err # "nil" THEN Failed(imm1.err)
        ELSE IF imm2.err # "nil" THEN Failed(imm2.err)
        ELSE [err |-> "nil", Meta |-> meta, Imm0 |-> imm0.value, Imm1 |-> imm1.value,
              Imm2 |-> imm2.value, Len |-> l - xp]

\* Op.Decode at the code address xp of the stream (whose first byte is
\* stream[1]).  The checks come in the order of the code.
Decode(stream, xp) ==
    LET wide == Wide(stream[xp + 1])
        f == Fields(stream[xp + 1], stream[xp + 2])
    IN  IF xp >= Len(stream)                  THEN Failed("EOF")
        ELSE IF wide /\ xp + 1 >= Len(stream) THEN Failed("ErrUnexpectedEOF")
        ELSE IF f[2] > 4 \/ f[3] > 4 \/ f[4] > 4 THEN Failed("ErrBadImmediateLen")
        ELSE DecodeImms(stream, xp, xp + IF wide THEN 2 ELSE 1, f)

-----------------------------------------------------------------------------
(* What the properties say about encoded instructions. *)

\* As far as the stream goes, e stands in it at xp.
Holds(stream, xp, e) ==
    \A i \in DOMAIN e : xp + i <= Len(stream) => stream[xp + i] = e[i]

\* Does the value survive ImmMeta.Encode and Decode?  Or-ing it into the default
\* loses nothing; a value that is left out is the default.
Survives(m, raw) ==
    IF IsPresent(m, raw)
    THEN \A i \in 1..8 : Or8(Default(m)[i], raw[i]) = raw[i]
    ELSE raw = Default(m)

=============================================================================
