------------------------- MODULE Disassembler_proofs -------------------------
(***************************************************************************)
(* Proofs about Disassembler, for every program: any bytecode, however     *)
(* long, cut short anywhere, or written by no encoder at all.              *)
(***************************************************************************)
EXTENDS Disassembler, Bytecode_proofs, FiniteSetTheorems, WellFoundedInduction

-----------------------------------------------------------------------------
(* Sequences of lines. *)

IsSeq(s) == \E S : s \in Seq(S)

LEMMA Appended ==
    ASSUME NEW s, IsSeq(s), NEW x
    PROVE  /\ IsSeq(Append(s, x)) /\ Len(s) \in Nat /\ Len(Append(s, x)) = Len(s) + 1
           /\ DOMAIN s = 1 .. Len(s) /\ DOMAIN Append(s, x) = 1 .. Len(s) + 1
           /\ \A i \in DOMAIN s : Append(s, x)[i] = s[i]
           /\ Append(s, x)[Len(s) + 1] = x
<1>1. PICK S : s \in Seq(S)
  BY DEF IsSeq
<1> DEFINE T == S \cup {x}
<1>2. s \in Seq(T) /\ x \in T
  BY <1>1
<1> HIDE DEF T
<1>3. DOMAIN s = 1 .. Len(s) /\ Len(s) \in Nat
  BY <1>2, SeqLength
<1>4. /\ Append(s, x) \in Seq(T) /\ Len(Append(s, x)) = Len(s) + 1
      /\ \A i \in 1 .. Len(s) : Append(s, x)[i] = s[i]
      /\ Append(s, x)[Len(s) + 1] = x
  BY <1>2
<1>5. DOMAIN Append(s, x) = 1 .. Len(s) + 1
  BY <1>4, SeqLength
<1> QED
  BY <1>3, <1>4, <1>5 DEF IsSeq

TableKinds == {"literal", "matcher", "captures", "namedcapture", "blank"}

\* There are tables to write, and nothing in them is part of the listing.
LEMMA TablesType ==
    ASSUME IsProgram(P)
    PROVE  /\ Len(Tables) \in Nat \ {0}
           /\ \A i \in 1 .. Len(Tables) : Tables[i].kind \in TableKinds
<1> DEFINE n == Cardinality(Named)
           A == Int \cup {NthNamed(k) - 1 : k \in 1..n}
           L == [kind : TableKinds, arg : A]
           t1 == [i \in 1 .. P.Literals |-> TableLine("literal", i - 1)]
           t2 == [i \in 1 .. P.ByteSets |-> TableLine("matcher", i - 1)]
           t3 == <<TableLine("captures", Len(P.Captures))>>
           t4 == [k \in 1..n |-> TableLine("namedcapture", NthNamed(k) - 1)]
           t5 == <<TableLine("blank", 0)>>
<1>1. n \in Nat
  <2>1. Len(P.Captures) \in Nat /\ DOMAIN P.Captures = 1 .. Len(P.Captures)
    BY SeqLength DEF IsProgram
  <2>2. IsFiniteSet(1 .. Len(P.Captures))
    BY <2>1, FS_Interval
  <2>3. Named \subseteq 1 .. Len(P.Captures)
    BY <2>1 DEF Named
  <2> QED
    BY <2>2, <2>3, FS_Subset, FS_CardinalityType, Zenon
<1>2. t1 \in Seq(L) /\ t2 \in Seq(L)
  <2>1. P.Literals \in Nat /\ P.ByteSets \in Nat
    BY DEF IsProgram
  <2>2. \A i \in Int : TableLine("literal", i - 1) \in L /\ TableLine("matcher", i - 1) \in L
    BY DEF TableLine, TableKinds
  <2> HIDE DEF L
  <2>3. t1 \in [1 .. P.Literals -> L] /\ t2 \in [1 .. P.ByteSets -> L]
    BY <2>1, <2>2
  <2> HIDE DEF t1, t2
  <2> QED
    BY <2>1, <2>3, FunctionIsSeq
<1>3. t3 \in Seq(L) /\ Len(t3) = 1 /\ t5 \in Seq(L) /\ Len(t5) = 1
  <2>1. Len(P.Captures) \in Int
    BY SeqLength DEF IsProgram
  <2>2. TableLine("captures", Len(P.Captures)) \in L /\ TableLine("blank", 0) \in L
    BY <2>1 DEF TableLine, TableKinds
  <2> HIDE DEF L
  <2> QED
    BY <2>2
<1>4. t4 \in Seq(L)
  <2> HIDE DEF n
  <2>1. \A k \in 1..n : TableLine("namedcapture", NthNamed(k) - 1) \in L
    BY DEF TableLine, TableKinds
  <2>2. t4 \in [1..n -> L]
    BY <2>1
  <2> HIDE DEF L, t4
  <2> QED
    BY <1>1, <2>2, FunctionIsSeq
<1>5. Tables = t1 \o t2 \o t3 \o t4 \o t5
  BY DEF Tables
<1>6. \A i \in L : i.kind \in TableKinds
  OBVIOUS
<1> HIDE DEF L, t1, t2, t3, t4, t5
<1>7. Tables \in Seq(L) /\ Len(Tables) # 0
  <2>1. t1 \o t2 \in Seq(L)
    BY <1>2, Concatenation
  <2>2. t1 \o t2 \o t3 \in Seq(L)
    BY <1>3, <2>1, Concatenation
  <2>3. t1 \o t2 \o t3 \o t4 \in Seq(L)
    BY <1>4, <2>2, Concatenation
  <2> DEFINE u == t1 \o t2 \o t3 \o t4
  <2>4. u \in Seq(L)
    BY <2>3
  <2> HIDE DEF u
  <2>5. u \o t5 \in Seq(L) /\ Len(u \o t5) = Len(u) + 1 /\ Len(u) \in Nat
    <3>1. Len(u) \in Nat
      BY <2>4, SeqLength
    <3>2. u \o t5 \in Seq(L) /\ Len(u \o t5) = Len(u) + Len(t5)
      BY <1>3, <2>4, Concatenation, Zenon
    <3> QED
      BY <1>3, <3>1, <3>2
  <2>6. Tables = u \o t5
    BY <1>5 DEF u
  <2> QED
    BY <2>5, <2>6
<1>8. Len(Tables) \in Nat /\ \A i \in 1 .. Len(Tables) : Tables[i] \in L
  BY <1>7, SeqLength
<1> QED
  BY <1>6, <1>7, <1>8

-----------------------------------------------------------------------------
(* Types. *)

LEMMA Basics ==
    ASSUME TypeOK
    PROVE  /\ IsProgram(P) /\ IsEncoding(P) /\ P.Bytes \in Seq(Byte) /\ Len(P.Bytes) \in Nat
           /\ xp \in Nat /\ xp \in 0 .. Len(P.Bytes)
           /\ labelNeeded \in SUBSET Nat /\ labelled \in BOOLEAN
<1>1. IsProgram(P) /\ IsEncoding(P)
  BY ProgramsAssumption, Zenon DEF TypeOK
<1>2. P.Bytes \in Seq(Byte)
  BY <1>1 DEF IsProgram
<1>3. Len(P.Bytes) \in Nat
  BY <1>2, SeqLength
<1>4. xp \in 0 .. Len(P.Bytes) /\ labelNeeded \in SUBSET Nat /\ labelled \in BOOLEAN
  BY Zenon DEF TypeOK
<1>5. xp \in Nat
  BY <1>3, <1>4
<1> QED
  BY <1>1, <1>2, <1>3, <1>4, <1>5

\* What a pass finds at an address of the bytecode.
LEMMA OpType ==
    ASSUME TypeOK, NEW x \in Nat
    PROVE  LET op == Decode(P.Bytes, x)
           IN  /\ op.err \in Errors
               /\ op.err = "EOF" <=> x >= Len(P.Bytes)
               /\ op.err = "nil" =>
                     /\ IsInstruction(op) /\ op.Len \in Nat \ {0} /\ x + op.Len <= Len(P.Bytes)
                     /\ \A v \in Offsets(op) : v \in Uint64 /\ Target(x + op.Len, v) \in Int
<1> DEFINE op == Decode(P.Bytes, x)
<1>1. P.Bytes \in Seq(Byte)
  BY Basics
<1>2. /\ op.err \in Errors
      /\ op.err = "EOF" <=> x >= Len(P.Bytes)
      /\ op.err = "nil" => IsInstruction(op) /\ op.Len \in Nat \ {0} /\ x + op.Len <= Len(P.Bytes)
  BY <1>1, DecodeType
<1> HIDE DEF op
<1>3. ASSUME op.err = "nil", NEW v \in Offsets(op)
      PROVE  v \in Uint64 /\ Target(x + op.Len, v) \in Int
  <2>1. v \in Uint64
    BY <1>2, <1>3 DEF Offsets, Slots, IsInstruction
  <2>2. AsInt(v) \in Int
    BY <2>1, AsIntType
  <2> QED
    BY <1>2, <1>3, <2>1, <2>2 DEF Target
<1> QED
  BY <1>2, <1>3 DEF op

\* The listing is a sequence and starts with the tables.
Control ==
    /\ TypeOK
    /\ IsSeq(out)
    /\ pc = "tables" => Len(out) < Len(Tables) /\ xp = 0 /\ labelNeeded = {}
    /\ pc \in {"tables", "one"} => ~ labelled /\ Listed({"label", "op"}) = {}

LEMMA ControlInit ==
    Init => Control
<1> SUFFICES ASSUME Init PROVE Control
  OBVIOUS
<1>1. IsProgram(P)
  BY ProgramsAssumption DEF Init
<1>2. IsSeq(<<>>) /\ DOMAIN <<>> = {} /\ Len(<<>>) = 0
  BY DEF IsSeq
<1>3. TypeOK
  <2>1. Len(P.Bytes) \in Nat
    BY <1>1, SeqLength DEF IsProgram
  <2> QED
    <3>1. DOMAIN out = {}
      BY <1>2 DEF Init
    <3>2. /\ pc \in {"tables", "one", "two", "done"} /\ xp \in 0 .. Len(P.Bytes)
          /\ P \in Programs /\ labelNeeded \in SUBSET Nat
      BY <2>1 DEF Init
    <3>3. labelled \in BOOLEAN
      BY Zenon DEF Init
    <3> QED
      BY <3>1, <3>2, <3>3 DEF TypeOK, Init
<1>4. Len(Tables) \in Nat \ {0}
  BY <1>1, TablesType
<1> QED
  BY <1>2, <1>3, <1>4 DEF Init, Control, Listed

Returned == {"nil", "panic", "write error", "ErrUnexpectedEOF", "ErrBadImmediateLen",
             "ErrUnknownOpcode", "ErrMissingImmediate", "ErrUnexpectedImmediate"}

Kinds == {"literal", "matcher", "captures", "namedcapture", "blank", "label", "op"}
AreLines(s) == IsSeq(s) /\ \A k \in DOMAIN s : s[k].kind \in Kinds

LEMMA LinesAppended ==
    ASSUME NEW s, AreLines(s), NEW x, x.kind \in Kinds
    PROVE  AreLines(Append(s, x))
<1>1. /\ IsSeq(Append(s, x)) /\ Len(s) \in Nat
      /\ DOMAIN s = 1 .. Len(s) /\ DOMAIN Append(s, x) = 1 .. Len(s) + 1
      /\ \A i \in DOMAIN s : Append(s, x)[i] = s[i]
      /\ Append(s, x)[Len(s) + 1] = x
  BY Appended DEF AreLines
<1>2. \A k \in DOMAIN Append(s, x) : k \in DOMAIN s \/ k = Len(s) + 1
  BY <1>1
<1> QED
  BY <1>1, <1>2 DEF AreLines

\* What a new line does to the listing.
LEMMA Listing ==
    ASSUME IsSeq(out), NEW x, out' = Append(out, x)
    PROVE  \A kinds : Listed(kinds)' = IF x.kind \in kinds
                                       THEN Listed(kinds) \cup {Len(out) + 1} ELSE Listed(kinds)
<1>1. /\ Len(out) \in Nat /\ DOMAIN out = 1 .. Len(out) /\ DOMAIN out' = 1 .. Len(out) + 1
      /\ \A i \in DOMAIN out : out'[i] = out[i]
      /\ out'[Len(out) + 1] = x
  BY Appended
<1>2. DOMAIN out' = DOMAIN out \cup {Len(out) + 1}
  BY <1>1
<1> TAKE kinds
<1> QED
  BY <1>1, <1>2 DEF Listed

\* Disassemble returns.
LEMMA ControlReturn ==
    ASSUME Control, UNCHANGED <<P, labelled, out>>, pc' = "done", err' \in Returned,
           xp' \in 0 .. Len(P.Bytes), labelNeeded' \in SUBSET Nat
    PROVE  Control'
<1>1. TypeOK'
  BY Zenon DEF Control, TypeOK, Returned
<1> QED
  BY <1>1 DEF Control

\* A pass goes on.
LEMMA ControlPass ==
    ASSUME Control, UNCHANGED <<P, err>>, pc # "tables", pc' \in {"one", "two"},
           xp' \in 0 .. Len(P.Bytes), labelNeeded' \in SUBSET Nat,
           pc' = "one" => pc = "one" /\ UNCHANGED <<labelled, out>>,
           labelled' \in BOOLEAN,
           \/ UNCHANGED out
           \/ \E x : out' = Append(out, x) /\ x.kind \in {"label", "op"}
    PROVE  Control'
<1>1. AreLines(out')
  <2>1. AreLines(out)
    BY Zenon DEF Control, TypeOK, AreLines, Kinds
  <2> QED
    <3>1. CASE UNCHANGED out
      BY <2>1, <3>1
    <3>2. CASE \E x : out' = Append(out, x) /\ x.kind \in {"label", "op"}
      <4>1. PICK x : out' = Append(out, x) /\ x.kind \in {"label", "op"}
        BY <3>2
      <4>2. x.kind \in Kinds
        BY <4>1 DEF Kinds
      <4> QED
        BY <2>1, <4>1, <4>2, LinesAppended
    <3> QED
      BY <3>1, <3>2
<1>2. TypeOK'
  BY <1>1, Zenon DEF Control, TypeOK, AreLines, Kinds
<1>3. pc' = "one" => ~ labelled' /\ Listed({"label", "op"})' = {}
  BY DEF Control, Listed
<1> QED
  BY <1>1, <1>2, <1>3 DEF Control, AreLines

LEMMA ControlTables ==
    ASSUME Control, WriteTables
    PROVE  Control'
<1>0. IsProgram(P) /\ pc = "tables" /\ TypeOK /\ IsSeq(out) /\ AreLines(out)
  BY ProgramsAssumption, Zenon DEF Control, TypeOK, WriteTables, AreLines, Kinds
<1>1. CASE WriteFails
  BY <1>1, ControlReturn, Zenon DEF Control, TypeOK, WriteFails, Return, Returned
<1>2. CASE /\ out' = Append(out, Tables[Len(out) + 1])
           /\ pc' = IF Len(out') = Len(Tables) THEN "one" ELSE "tables"
           /\ UNCHANGED <<P, xp, labelNeeded, labelled, err>>
  <2> DEFINE x == Tables[Len(out) + 1]
  <2>1. Len(Tables) \in Nat \ {0} /\ \A i \in 1 .. Len(Tables) : Tables[i].kind \in TableKinds
    BY <1>0, TablesType
  <2>2. Len(out) \in Nat /\ Len(out') = Len(out) + 1
    BY <1>0, <1>2, Appended
  <2>3. Len(out) < Len(Tables) /\ xp = 0 /\ labelNeeded = {} /\ ~ labelled
        /\ Listed({"label", "op"}) = {}
    BY <1>0 DEF Control
  <2>4. x.kind \in TableKinds
    BY <2>1, <2>2, <2>3
  <2> HIDE DEF x
  <2>5. AreLines(out')
    BY <1>0, <1>2, <2>4, LinesAppended DEF TableKinds, Kinds, x
  <2>6. Listed({"label", "op"})' = {}
    <3>1. x.kind \notin {"label", "op"}
      BY <2>4 DEF TableKinds
    <3> QED
      BY <1>0, <1>2, <2>3, <3>1, Listing DEF x
  <2>7. TypeOK'
    BY <1>0, <1>2, <2>5, Zenon DEF TypeOK, AreLines, Kinds
  <2>8. Tables' = Tables
    BY <1>2 DEF Tables, Named, NthNamed
  <2>9. pc' = "tables" => Len(out') < Len(Tables)'
    BY <1>2, <2>1, <2>2, <2>3, <2>8
  <2> QED
    BY <1>2, <2>3, <2>5, <2>6, <2>7, <2>9 DEF Control, AreLines
<1> QED
  BY <1>1, <1>2 DEF WriteTables

LEMMA ControlPassOne ==
    ASSUME Control, PassOne
    PROVE  Control'
<1> DEFINE op == Decode(P.Bytes, xp)
<1>0. pc = "one" /\ TypeOK /\ xp \in Nat /\ Len(P.Bytes) \in Nat /\ UNCHANGED <<P, labelled, out>>
  BY Basics DEF Control, PassOne
<1>1. /\ op.err \in Errors
      /\ op.err = "EOF" <=> xp >= Len(P.Bytes)
      /\ op.err = "nil" =>
            /\ op.Len \in Nat \ {0} /\ xp + op.Len <= Len(P.Bytes)
            /\ \A v \in Offsets(op) : v \in Uint64 /\ Target(xp + op.Len, v) \in Int
  BY <1>0, OpType
<1> HIDE DEF op
<1>2. CASE EndsPass(op) /\ pc' = "two" /\ xp' = 0 /\ UNCHANGED <<labelNeeded, err>>
  <2>1. xp' \in 0 .. Len(P.Bytes) /\ labelNeeded' \in SUBSET Nat
    BY <1>0, <1>2, Basics
  <2>2. labelled' \in BOOLEAN
    BY <1>0, Zenon DEF TypeOK
  <2> QED
    BY <1>0, <1>2, <2>1, <2>2, ControlPass
<1>3. CASE op.err # "nil" /\ ~ EndsPass(op) /\ Return(op.err) /\ UNCHANGED <<xp, labelNeeded>>
  BY <1>0, <1>1, <1>3, ControlReturn, Zenon
  DEF Control, TypeOK, Return, Errors, ImmErrors, Returned, EndsPass
<1>4. ASSUME op.err = "nil", xp' = NextXP(op)
      PROVE  xp' \in 0 .. Len(P.Bytes)
  BY <1>0, <1>1, <1>4 DEF NextXP
<1>5. CASE op.err = "nil" /\ xp' = NextXP(op) /\ Panics(op) /\ Return("panic") /\ UNCHANGED labelNeeded
  BY <1>0, <1>4, <1>5, ControlReturn, Zenon DEF Control, TypeOK, Return, Returned
<1>6. CASE /\ op.err = "nil" /\ xp' = NextXP(op) /\ ~ Panics(op)
           /\ labelNeeded' = labelNeeded \cup {Target(NextXP(op), v) : v \in Offsets(op)}
           /\ UNCHANGED <<pc, err>>
  <2>1. \A v \in Offsets(op) : Target(NextXP(op), v) \in Nat
    BY <1>1, <1>6 DEF Panics, NextXP
  <2>2. labelNeeded' \in SUBSET Nat
    BY <1>0, <1>6, <2>1, Zenon DEF TypeOK
  <2>3. labelled' \in BOOLEAN
    BY <1>0, Zenon DEF TypeOK
  <2> QED
    BY <1>0, <1>4, <1>6, <2>2, <2>3, ControlPass
<1> QED
  BY <1>2, <1>3, <1>5, <1>6 DEF PassOne, op

LEMMA ControlPassTwo ==
    ASSUME Control, WriteLabel \/ PassTwo
    PROVE  Control'
<1> DEFINE op == Decode(P.Bytes, xp)
<1>0. pc = "two" /\ TypeOK /\ xp \in Nat /\ Len(P.Bytes) \in Nat
  BY Basics DEF Control, WriteLabel, PassTwo
<1>1. /\ op.err \in Errors
      /\ op.err = "nil" => op.Len \in Nat \ {0} /\ xp + op.Len <= Len(P.Bytes)
  BY <1>0, OpType
<1> HIDE DEF op
<1>2. CASE WriteFails
  BY <1>2, ControlReturn, Zenon DEF Control, TypeOK, WriteFails, Return, Returned
<1>3. CASE out' = Append(out, LabelLine(xp)) /\ labelled' = TRUE
           /\ UNCHANGED <<P, pc, xp, labelNeeded, err>>
  <2>1. LabelLine(xp).kind \in {"label", "op"}
    BY DEF LabelLine
  <2>2. xp' \in 0 .. Len(P.Bytes) /\ labelNeeded' \in SUBSET Nat
    BY <1>3, Zenon DEF Control, TypeOK
  <2>3. labelled' \in BOOLEAN
    BY <1>3, Zenon
  <2> QED
    BY <1>0, <1>3, <2>1, <2>2, <2>3, ControlPass
<1>4. CASE /\ Return(CASE op.err = "EOF" -> "nil" [] op.err = "nil" -> "panic" [] OTHER -> op.err)
           /\ UNCHANGED <<P, xp, labelNeeded, labelled, out>>
  <2>1. err' \in Returned /\ pc' = "done"
    BY <1>1, <1>4, Zenon DEF Return, Errors, ImmErrors, Returned
  <2> QED
    BY <1>4, <2>1, ControlReturn, Zenon DEF Control, TypeOK
<1>5. CASE /\ ~ Stops(op)
           /\ out' = Append(out, OpLine(op, NextXP(op)))
           /\ xp' = NextXP(op)
           /\ labelled' = FALSE
           /\ UNCHANGED <<P, pc, labelNeeded, err>>
  <2>1. OpLine(op, NextXP(op)).kind \in {"label", "op"}
    BY DEF OpLine
  <2>2. xp' \in 0 .. Len(P.Bytes) /\ labelNeeded' \in SUBSET Nat
    <3>1. op.err = "nil"
      BY <1>5 DEF Stops
    <3>2. xp' = xp + op.Len
      BY <1>5 DEF NextXP
    <3> QED
      BY <1>0, <1>1, <1>5, <3>1, <3>2, Basics
  <2>3. labelled' \in BOOLEAN
    BY <1>5, Zenon
  <2> QED
    BY <1>0, <1>5, <2>1, <2>2, <2>3, ControlPass
<1> QED
  BY <1>2, <1>3, <1>4, <1>5, Zenon DEF WriteLabel, PassTwo, op

LEMMA ControlNext ==
    Control /\ [Next]_vars => Control'
<1> SUFFICES ASSUME Control, [Next]_vars PROVE Control'
  OBVIOUS
<1>1. CASE UNCHANGED vars
  <2>1. Tables' = Tables
    BY <1>1 DEF vars, Tables, Named, NthNamed
  <2> QED
    BY <1>1, <2>1, Zenon DEF vars, Control, TypeOK, Listed
<1> QED
  BY <1>1, ControlTables, ControlPassOne, ControlPassTwo DEF Next

\* The type of Disassemble's state is kept: addresses stay within the bytecode,
\* targets are addresses, and an error is one the code knows.
THEOREM DisassemblerTypeTheorem == Spec => []TypeOK
<1>1. Control => TypeOK
  BY DEF Control
<1> QED
  BY <1>1, ControlInit, ControlNext, PTL DEF Spec

-----------------------------------------------------------------------------
(* The first pass vets what the second pass decodes. *)

\* The instruction at x is in order, and the next one is in S.
Clean(bytes, S, x) ==
    LET op == Decode(bytes, x)
    IN  /\ op.err = "nil"
        /\ \A v \in Offsets(op) : ~ Target(x + op.Len, v) < 0
        /\ x + op.Len \in S

\* S holds the addresses that the first pass has come by on its way to xp, or
\* all addresses up to the end.
Swept(bytes, at, S) ==
    0 \in S /\ at \in S /\ \A x \in S : x = at \/ Clean(bytes, S, x)
SweptAll(bytes, at, S) ==
    0 \in S /\ at \in S /\ \A x \in S : Decode(bytes, x).err = "EOF" \/ Clean(bytes, S, x)

Vetted ==
    /\ pc \in {"tables", "one"} => \E S : Swept(P.Bytes, xp, S)
    /\ pc = "two" => \E S : SweptAll(P.Bytes, xp, S)
    /\ AllOrNothingListing

LEMMA VettedInit ==
    Init => Vetted
<1> SUFFICES ASSUME Init PROVE Vetted
  OBVIOUS
<1>1. Swept(P.Bytes, xp, {0})
  BY DEF Init, Swept
<1> QED
  BY <1>1 DEF Init, Vetted, AllOrNothingListing

LEMMA VettedPassOne ==
    ASSUME Control, Vetted, PassOne
    PROVE  Vetted'
<1> DEFINE op == Decode(P.Bytes, xp)
<1>0. /\ pc = "one" /\ UNCHANGED <<P, labelled, out>> /\ Listed({"label", "op"})' = {}
  BY DEF Control, PassOne, Listed
<1>1. PICK S : Swept(P.Bytes, xp, S)
  BY <1>0 DEF Vetted
<1> HIDE DEF op
<1>2. CASE EndsPass(op) /\ pc' = "two" /\ xp' = 0
  <2>1. SweptAll(P.Bytes, 0, S)
    BY <1>1, <1>2 DEF Swept, SweptAll, EndsPass, op
  <2> QED
    BY <1>0, <1>2, <2>1 DEF Vetted, AllOrNothingListing
<1>3. CASE pc' = "done"
  BY <1>0, <1>3, Zenon DEF Vetted, AllOrNothingListing
<1>4. CASE op.err = "nil" /\ xp' = NextXP(op) /\ ~ Panics(op) /\ UNCHANGED <<pc, err>>
  <2> DEFINE T == S \cup {xp'}
  <2>1. \A x : Clean(P.Bytes, S, x) => Clean(P.Bytes, T, x)
    BY DEF Clean
  <2>2. Clean(P.Bytes, T, xp)
    BY <1>4 DEF Clean, Panics, NextXP, op
  <2>3. Swept(P.Bytes, xp', T)
    BY <1>1, <2>1, <2>2 DEF Swept
  <2> QED
    BY <1>0, <1>4, <2>3 DEF Vetted, AllOrNothingListing
<1> QED
  BY <1>2, <1>3, <1>4 DEF PassOne, Return, op

LEMMA VettedPassTwo ==
    ASSUME Control, Vetted, WriteLabel \/ PassTwo
    PROVE  Vetted'
<1> DEFINE op == Decode(P.Bytes, xp)
<1>0. pc = "two" /\ UNCHANGED P
  BY Zenon DEF WriteLabel, PassTwo, WriteFails
<1>1. PICK S : SweptAll(P.Bytes, xp, S)
  BY <1>0 DEF Vetted
<1> HIDE DEF op
<1>2. CASE WriteFails
  BY <1>2, Zenon DEF WriteFails, Return, Vetted, AllOrNothingListing
<1>3. CASE UNCHANGED <<pc, xp>>
  BY <1>0, <1>1, <1>3 DEF Vetted, AllOrNothingListing
<1>4. CASE /\ Stops(op)
           /\ Return(CASE op.err = "EOF" -> "nil" [] op.err = "nil" -> "panic" [] OTHER -> op.err)
  <2>1. op.err = "EOF"
    <3>1. op.err = "EOF" \/ Clean(P.Bytes, S, xp)
      BY <1>1 DEF SweptAll, op
    <3>2. ~ Clean(P.Bytes, S, xp)
      BY <1>4 DEF Clean, Stops, Panics, NextXP, op
    <3> QED
      BY <3>1, <3>2
  <2> QED
    BY <1>4, <2>1, Zenon DEF Return, Vetted, AllOrNothingListing
<1>5. CASE ~ Stops(op) /\ xp' = NextXP(op) /\ UNCHANGED pc
  <2>1. op.err = "nil"
    BY <1>5 DEF Stops
  <2>2. Clean(P.Bytes, S, xp)
    BY <1>1, <2>1 DEF SweptAll, op
  <2>3. xp' \in S
    BY <1>5, <2>2 DEF Clean, NextXP, op
  <2>4. SweptAll(P.Bytes, xp', S)
    BY <1>1, <2>3 DEF SweptAll
  <2> QED
    BY <1>0, <1>5, <2>4 DEF Vetted, AllOrNothingListing
<1> QED
  BY <1>2, <1>3, <1>4, <1>5 DEF WriteLabel, PassTwo, op

LEMMA VettedNext ==
    Control /\ Vetted /\ [Next]_vars => Vetted'
<1> SUFFICES ASSUME Control, Vetted, [Next]_vars PROVE Vetted'
  OBVIOUS
<1>1. CASE UNCHANGED vars
  BY <1>1, Zenon DEF vars, Vetted, AllOrNothingListing, Listed
<1>2. CASE WriteTables
  <2>1. UNCHANGED <<P, xp>> /\ pc = "tables" /\ (pc' \in {"tables", "one"} \/ WriteFails)
    BY <1>2, Zenon DEF WriteTables, WriteFails
  <2>2. CASE WriteFails
    BY <2>2, Zenon DEF WriteFails, Return, Vetted, AllOrNothingListing
  <2>3. CASE pc' \in {"tables", "one"}
    BY <2>1, <2>3, Zenon DEF Vetted, AllOrNothingListing
  <2> QED
    BY <2>1, <2>2, <2>3
<1> QED
  BY <1>1, <1>2, VettedPassOne, VettedPassTwo DEF Next

\* Nobody is given half of a listing: whatever the bytecode, when Disassemble
\* returns an error of Op.Decode, or panics in addOffset, it has not written a
\* line of the listing, since the first pass has met everything that the second
\* pass meets.
THEOREM AllOrNothingTheorem == Spec => []AllOrNothingListing
<1>1. Vetted => AllOrNothingListing
  BY DEF Vetted
<1> QED
  BY <1>1, ControlInit, ControlNext, VettedInit, VettedNext, PTL DEF Spec

-----------------------------------------------------------------------------
(* The passes stay in step with the encoder. *)

N == Len(P.Instrs)

\* The k-th instruction and where it stands.
LEMMA InstrType ==
    ASSUME TypeOK
    PROVE  /\ N \in Nat /\ DOMAIN P.Instrs = 1..N
           /\ \A k \in 1..N : P.Instrs[k] \in Instr
           /\ \A k \in 1 .. N + 1 : P.Starts[k] \in Nat
           /\ P.Starts[1] = 0
           /\ P.Instrs # <<>> => N # 0 /\ Len(P.Bytes) <= P.Starts[N + 1]
<1>1. P.Instrs \in Seq(Instr)
  BY Basics DEF IsProgram
<1>2. N \in Nat /\ DOMAIN P.Instrs = 1..N /\ \A k \in 1..N : P.Instrs[k] \in Instr
  BY <1>1, SeqLength DEF N
<1>3. P.Instrs # <<>> => N # 0
  BY <1>1 DEF N
<1>4. P.Starts \in [1 .. N + 1 -> Nat] /\ P.Starts[1] = 0
      /\ (P.Instrs # <<>> => Len(P.Bytes) <= P.Starts[N + 1])
  BY Basics DEF IsEncoding, N
<1> QED
  BY <1>2, <1>3, <1>4

LEMMA EncodedLength ==
    ASSUME NEW meta \in opMeta,
           NEW imm0 \in Uint64, NEW imm1 \in Uint64, NEW imm2 \in Uint64
    PROVE  Len(Encode(meta, imm0, imm1, imm2)) \in Nat \ {0}
<1> DEFINE raw0 == ImmEncode(meta.Imm0, imm0)
           raw1 == ImmEncode(meta.Imm1, imm1)
           raw2 == ImmEncode(meta.Imm2, imm2)
           h == Header(meta.Code, ImmLengthEncode(Len(raw0)), ImmLengthEncode(Len(raw1)),
                       ImmLengthEncode(Len(raw2)))
           e == Encode(meta, imm0, imm1, imm2)
<1>1. Len(h) \in {1, 2} /\ Len(e) = Len(h) + Len(raw0) + Len(raw1) + Len(raw2)
  BY Layout
<1>2. Len(raw0) \in Nat /\ Len(raw1) \in Nat /\ Len(raw2) \in Nat
  BY Table, ImmEncoded
<1> HIDE DEF h, raw0, raw1, raw2, e
<1>3. Len(e) \in Nat \ {0}
  BY <1>1, <1>2
<1> QED
  BY <1>3 DEF e

LEMMA InstrEncoded ==
    ASSUME TypeOK, NEW k \in 1..N
    PROVE  /\ Len(Encoded(P.Instrs[k])) \in Nat \ {0}
           /\ P.Starts[k + 1] = P.Starts[k] + Len(Encoded(P.Instrs[k]))
           /\ Holds(P.Bytes, P.Starts[k], Encoded(P.Instrs[k]))
<1> DEFINE i == P.Instrs[k]
<1>1. i \in Instr /\ k \in DOMAIN P.Instrs
  BY InstrType
<1>2. /\ i.Meta \in opMeta
      /\ i.Imm0 \in Uint64 /\ i.Imm1 \in Uint64 /\ i.Imm2 \in Uint64
  BY <1>1 DEF Instr
<1>3. Len(Encoded(i)) \in Nat \ {0}
  BY <1>2, EncodedLength, Zenon DEF Encoded
<1> QED
  BY <1>1, <1>3, Basics DEF IsEncoding

\* What Op.Decode makes of it.
LEMMA InstrDecoded ==
    ASSUME TypeOK, NEW k \in 1..N, P.Starts[k] < Len(P.Bytes)
    PROVE  Decode(P.Bytes, P.Starts[k]) =
               IF P.Starts[k + 1] <= Len(P.Bytes)
               THEN OpOf(P.Instrs[k].Meta, P.Instrs[k].Imm0, P.Instrs[k].Imm1, P.Instrs[k].Imm2)
               ELSE Failed("ErrUnexpectedEOF")
<1>1. P.Starts[k] \in Nat /\ P.Instrs[k] \in Instr
  BY InstrType
<1>2. /\ P.Starts[k + 1] = P.Starts[k] + Len(Encoded(P.Instrs[k]))
      /\ Holds(P.Bytes, P.Starts[k], Encoded(P.Instrs[k]))
  BY InstrEncoded
<1> DEFINE i == P.Instrs[k]
           x == P.Starts[k]
<1>3. /\ i.Meta \in opMeta
      /\ i.Imm0 \in Uint64 /\ i.Imm1 \in Uint64 /\ i.Imm2 \in Uint64
  BY <1>1 DEF Instr
<1>4. P.Bytes \in Seq(Byte)
  BY Basics
<1>5. Encoded(i) = Encode(i.Meta, i.Imm0, i.Imm1, i.Imm2)
  BY DEF Encoded
<1>6. x \in Nat /\ x < Len(P.Bytes) /\ P.Starts[k + 1] = x + Len(Encoded(i))
      /\ Holds(P.Bytes, x, Encoded(i))
  BY <1>1, <1>2
<1> HIDE DEF i, x
<1>7. Decode(P.Bytes, x) =
        IF x + Len(Encode(i.Meta, i.Imm0, i.Imm1, i.Imm2)) <= Len(P.Bytes)
        THEN OpOf(i.Meta, i.Imm0, i.Imm1, i.Imm2)
        ELSE Failed("ErrUnexpectedEOF")
  BY <1>3, <1>4, <1>5, <1>6, DecodeEncoded
<1> QED
  BY <1>5, <1>6, <1>7 DEF i, x

\* ... and the pass of it.
LEMMA InstrStepped ==
    ASSUME TypeOK, NEW k \in 1 .. N + 1, NEW x, x = P.Starts[k], P.Instrs # <<>>,
           Decode(P.Bytes, x).err = "nil"
    PROVE  /\ k \in 1..N
           /\ x + Decode(P.Bytes, x).Len = P.Starts[k + 1]
           /\ P.Starts[k] < Len(P.Bytes)
           /\ P.Starts[k + 1] <= Len(P.Bytes)
<1>1. x \in Nat /\ N \in Nat /\ Len(P.Bytes) <= P.Starts[N + 1] /\ Len(P.Bytes) \in Nat
      /\ P.Starts[N + 1] \in Nat
  BY InstrType, Basics
<1>2. ~ x >= Len(P.Bytes)
  BY <1>1, OpType
<1>3. k \in 1..N
  BY <1>1, <1>2
<1>4. Decode(P.Bytes, x) =
        IF P.Starts[k + 1] <= Len(P.Bytes)
        THEN OpOf(P.Instrs[k].Meta, P.Instrs[k].Imm0, P.Instrs[k].Imm1, P.Instrs[k].Imm2)
        ELSE Failed("ErrUnexpectedEOF")
  BY <1>1, <1>2, <1>3, InstrDecoded
<1>5. P.Starts[k + 1] <= Len(P.Bytes)
  BY <1>4 DEF Failed
<1>6. Decode(P.Bytes, x).Len = Len(Encoded(P.Instrs[k]))
  BY <1>4, <1>5 DEF OpOf, Encoded
<1>7. P.Starts[k + 1] = x + Len(Encoded(P.Instrs[k]))
  BY <1>3, InstrEncoded
<1> QED
  BY <1>1, <1>2, <1>3, <1>5, <1>6, <1>7

InStep ==
    P.Instrs # <<>> /\ pc # "done" => \E m \in 1 .. N + 1 : xp = P.Starts[m]

LEMMA InStepInit ==
    Init => InStep
<1> SUFFICES ASSUME Init PROVE InStep
  OBVIOUS
<1>1. Control
  BY ControlInit
<1>2. N \in Nat /\ P.Starts[1] = 0
  BY <1>1, InstrType DEF Control
<1> QED
  BY <1>2 DEF Init, InStep

LEMMA InStepNext ==
    Control /\ InStep /\ [Next]_vars => InStep'
<1> SUFFICES ASSUME Control, InStep, [Next]_vars PROVE InStep'
  OBVIOUS
<1> DEFINE op == Decode(P.Bytes, xp)
<1>0. UNCHANGED P
  BY Zenon DEF Next, WriteTables, PassOne, WriteLabel, PassTwo, WriteFails, vars
<1>1. TypeOK /\ N \in Nat /\ P.Starts[1] = 0 /\ N' = N
  BY <1>0, InstrType DEF Control, N
<1>2. pc' = "done" \/ UNCHANGED <<pc, xp>> \/ (pc = "tables" /\ UNCHANGED xp)
      \/ xp' = 0 \/ (pc # "done" /\ op.err = "nil" /\ xp' = xp + op.Len)
  BY Zenon DEF Next, WriteTables, PassOne, WriteLabel, PassTwo, WriteFails, vars, Return, NextXP, Stops
<1>3. CASE pc' = "done"
  BY <1>3 DEF InStep
<1>4. CASE UNCHANGED <<pc, xp>> \/ (pc = "tables" /\ UNCHANGED xp)
  BY <1>0, <1>1, <1>4 DEF InStep
<1>5. CASE xp' = 0
  BY <1>0, <1>1, <1>5 DEF InStep
<1>6. CASE pc # "done" /\ op.err = "nil" /\ xp' = xp + op.Len
  <2> SUFFICES ASSUME P.Instrs # <<>> PROVE \E m \in 1 .. N + 1 : xp' = P.Starts[m]
    BY <1>0, <1>1 DEF InStep
  <2>1. PICK m \in 1 .. N + 1 : xp = P.Starts[m]
    BY <1>6 DEF InStep
  <2>2. m \in 1..N /\ xp' = P.Starts[m + 1]
    BY <1>1, <1>6, <2>1, InstrStepped
  <2>3. m + 1 \in 1 .. N + 1
    BY <1>1, <2>2
  <2> QED
    BY <2>2, <2>3
<1> QED
  BY <1>2, <1>3, <1>4, <1>5, <1>6

LEMMA InStepSuffices ==
    Control /\ InStep => SweepInStep
<1> SUFFICES ASSUME Control, InStep, P.Instrs # <<>>, pc \in {"one", "two"}, xp < Len(P.Bytes)
             PROVE  SweepInStep
  BY DEF SweepInStep
<1> DEFINE op == Decode(P.Bytes, xp)
<1>1. /\ TypeOK /\ N \in Nat /\ DOMAIN P.Instrs = 1..N /\ xp \in Nat /\ Len(P.Bytes) \in Nat
      /\ Len(P.Bytes) <= P.Starts[N + 1] /\ P.Starts[N + 1] \in Nat
  BY InstrType, Basics DEF Control
<1>2. PICK m \in 1 .. N + 1 : xp = P.Starts[m]
  BY DEF InStep
<1>3. m \in 1..N
  BY <1>1, <1>2
<1> DEFINE i == P.Instrs[m]
           cut == P.Starts[m + 1] > Len(P.Bytes)
<1>4. P.Starts[m + 1] \in Nat /\ i \in Instr /\ m \in DOMAIN P.Instrs
  BY <1>1, <1>3, InstrType
<1>5. op = IF P.Starts[m + 1] <= Len(P.Bytes)
           THEN OpOf(i.Meta, i.Imm0, i.Imm1, i.Imm2) ELSE Failed("ErrUnexpectedEOF")
  BY <1>1, <1>2, <1>3, InstrDecoded
<1>6. cut => op.err = "ErrUnexpectedEOF"
  BY <1>1, <1>4, <1>5 DEF Failed
<1>7. ASSUME ~ cut
      PROVE  /\ op.err = "nil"
             /\ xp + op.Len = P.Starts[m + 1]
             /\ Plain(i) => SameInstr(op, i)
  <2>1. op = OpOf(i.Meta, i.Imm0, i.Imm1, i.Imm2)
    BY <1>1, <1>4, <1>5, <1>7
  <2>2. op.err = "nil"
    BY <2>1 DEF OpOf
  <2>3. xp + op.Len = P.Starts[m + 1]
    BY <1>1, <1>2, <2>2, InstrStepped
  <2> HIDE DEF op, i
  <2>4. i.Imm0 \in Uint64 /\ i.Imm1 \in Uint64 /\ i.Imm2 \in Uint64
    BY <1>4 DEF Instr
  <2>5. ASSUME Plain(i) PROVE SameInstr(op, i)
    <3>1. /\ Decoded(i.Meta.Imm0, i.Imm0) = i.Imm0
          /\ Decoded(i.Meta.Imm1, i.Imm1) = i.Imm1
          /\ Decoded(i.Meta.Imm2, i.Imm2) = i.Imm2
      BY <2>4, <2>5, SurvivorDecoded DEF Plain
    <3> QED
      BY <2>1, <3>1 DEF OpOf, SameInstr
  <2> QED
    BY <2>2, <2>3, <2>5
<1> QED
  BY <1>2, <1>4, <1>6, <1>7 DEF SweepInStep

\* Disassembling stays in step with the encoder: both passes stand only where
\* OpMeta.Encode has put an instruction, for programs of any length, and
\* Op.Decode gives that instruction or, if the bytecode ends within it, an
\* unexpected EOF.
THEOREM SweepTheorem == Spec => []SweepInStep
  BY ControlInit, ControlNext, InStepInit, InStepNext, InStepSuffices, PTL DEF Spec

-----------------------------------------------------------------------------
(* The listing jumps where the bytecode does. *)

LEMMA LeastNat ==
    ASSUME NEW T, T \subseteq Nat, T # {}
    PROVE  \E n \in T : \A m \in T : n <= m
<1> DEFINE lt == {ss \in Nat \X Nat : ss[1] < ss[2]}
<1>1. IsWellFoundedOn(lt, Nat)
  BY NatLessThanWellFounded DEF OpToRel
<1> HIDE DEF lt
<1>2. PICK n \in T : \A m \in T : ~ (<<m, n>> \in lt)
  BY <1>1, WFMin, Zenon
<1>3. \A m \in T : m \in Nat /\ n \in Nat /\ ~ m < n
  BY <1>2, Zenon DEF lt
<1> QED
  BY <1>3

\* A later instruction starts at a higher address.
LEMMA StartsAscend ==
    ASSUME TypeOK, NEW m \in 1 .. N + 1, NEW k \in m .. N + 1
    PROVE  P.Starts[m] <= P.Starts[k]
<1> DEFINE T == {n \in Nat : m + n <= N + 1 /\ ~ P.Starts[m] <= P.Starts[m + n]}
<1>0. N \in Nat /\ \A j \in 1 .. N + 1 : P.Starts[j] \in Nat
  BY InstrType
<1>1. SUFFICES ASSUME T # {} PROVE FALSE
  <2>1. k - m \in Nat /\ m + (k - m) = k /\ k <= N + 1
    BY <1>0
  <2> QED
    BY <1>1, <2>1
<1>2. T \subseteq Nat
  OBVIOUS
<1> HIDE DEF T
<1>3. PICK n \in T : \A j \in T : n <= j
  BY <1>1, <1>2, LeastNat, Zenon
<1>4. n \in Nat /\ m + n <= N + 1 /\ ~ P.Starts[m] <= P.Starts[m + n]
  BY <1>3 DEF T
<1>5. n # 0
  <2>1. P.Starts[m] \in Nat /\ m + 0 = m
    BY <1>0
  <2> QED
    BY <1>4, <2>1
<1> DEFINE j == m + n - 1
<1>6. n - 1 \in Nat /\ n - 1 \notin T /\ j \in 1..N /\ m + (n - 1) = j /\ j + 1 = m + n
  BY <1>0, <1>2, <1>3, <1>4, <1>5
<1>7. P.Starts[m] <= P.Starts[j]
  BY <1>0, <1>6 DEF T
<1> HIDE DEF j
<1>8. P.Starts[j + 1] = P.Starts[j] + Len(Encoded(P.Instrs[j])) /\ Len(Encoded(P.Instrs[j])) \in Nat
  BY <1>6, InstrEncoded
<1>9. P.Starts[m] \in Nat /\ P.Starts[j] \in Nat
  BY <1>0, <1>6
<1> QED
  BY <1>4, <1>6, <1>7, <1>8, <1>9

\* When a pass is at the end it has left every whole instruction behind.
LEMMA WholeBehind ==
    ASSUME TypeOK, NEW m \in 1 .. N + 1, P.Starts[m] >= Len(P.Bytes), NEW k \in Whole
    PROVE  k \in 1 .. m - 1
<1>1. N \in Nat /\ DOMAIN P.Instrs = 1..N /\ \A j \in 1 .. N + 1 : P.Starts[j] \in Nat
  BY InstrType
<1>2. k \in 1..N /\ P.Starts[k] < Len(P.Bytes) /\ Len(P.Bytes) \in Nat
  BY <1>1, Basics DEF Whole
<1>3. ASSUME k >= m PROVE FALSE
  <2>1. k \in m .. N + 1
    BY <1>1, <1>2, <1>3
  <2>2. P.Starts[m] <= P.Starts[k] /\ P.Starts[m] \in Nat /\ P.Starts[k] \in Nat
    BY <1>1, <1>2, <2>1, StartsAscend
  <2> QED
    BY <1>2, <2>2
<1> QED
  BY <1>1, <1>2, <1>3

\* The code offset of an instruction is its first immediate and cannot be left out.
LEMMA OffsetIsFirst ==
    ASSUME NEW m \in opMeta
    PROVE  /\ m.Imm0.Type = "CodeOffset" => m.Imm0.Required
           /\ m.Imm1.Type # "CodeOffset" /\ m.Imm2.Type # "CodeOffset"
<1>1. \A type, b : /\ required(type).Required
                   /\ required(type).Type = type
                   /\ optional(type, b).Type = type
                   /\ none.Type = "None"
  BY DEF required, optional, none
<1>2. \A code, name, imm0, imm1, imm2 :
        LET n == Meta(code, name, imm0, imm1, imm2)
        IN  n.Imm0 = imm0 /\ n.Imm1 = imm1 /\ n.Imm2 = imm2
  BY DEF Meta
<1>3. m.Imm0.Type = "CodeOffset" => m.Imm0.Required
  BY <1>1, <1>2 DEF opMeta, offset, count
<1>4. m.Imm1.Type # "CodeOffset"
  BY <1>1, <1>2 DEF opMeta, offset, count
<1>5. m.Imm2.Type # "CodeOffset"
  BY <1>1, <1>2 DEF opMeta, offset, count
<1> QED
  BY <1>3, <1>4, <1>5

LEMMA FirstOf ==
    ASSUME NEW e, NEW S, NEW s \in Seq(S), NEW t \in Seq(S), e \in S
    PROVE  LET u == <<e>> \o s \o t IN 1 \in DOMAIN u /\ u[1] = e
<1> DEFINE u == <<e>> \o s
           w == u \o t
<1>1. <<e>> \in Seq(S) /\ Len(<<e>>) = 1 /\ <<e>>[1] = e
  OBVIOUS
<1>2. Len(s) \in Nat /\ Len(t) \in Nat
  BY SeqLength
<1>3. u \in Seq(S) /\ Len(u) = 1 + Len(s) /\ u[1] = e
  BY <1>1, <1>2, Concatenation
<1> HIDE DEF u
<1>4. w \in Seq(S) /\ Len(w) = Len(u) + Len(t) /\ w[1] = u[1]
  <2>1. /\ w \in Seq(S) /\ Len(w) = Len(u) + Len(t)
        /\ \A i \in 1 .. Len(u) + Len(t) : w[i] = IF i <= Len(u) THEN u[i] ELSE t[i - Len(u)]
    BY <1>3, Concatenation
  <2> HIDE DEF w
  <2>2. 1 \in 1 .. Len(u) + Len(t) /\ 1 <= Len(u)
    BY <1>2, <1>3
  <2> QED
    BY <2>1, <2>2
<1>5. 1 \in DOMAIN w /\ w[1] = e
  BY <1>2, <1>3, <1>4, SeqLength
<1> QED
  BY <1>5 DEF u

\* The line of an instruction says the label of its target.
LEMMA LineSays ==
    ASSUME NEW op, IsInstruction(op), NEW next, NEW v \in Offsets(op)
    PROVE  \E a \in DOMAIN OpLine(op, next).args :
              OpLine(op, next).args[a] = [label |-> FindLabel(Target(next, v)), value |-> v]
<1> DEFINE e == [label |-> FindLabel(Target(next, v)), value |-> v]
           a0 == Operand(op.Meta.Imm0, op.Imm0, next)
           a1 == Operand(op.Meta.Imm1, op.Imm1, next)
           a2 == Operand(op.Meta.Imm2, op.Imm2, next)
<1>1. op.Meta \in opMeta
  BY DEF IsInstruction
<1>2. v = op.Imm0 /\ op.Meta.Imm0.Type = "CodeOffset" /\ op.Meta.Imm0.Required
  BY <1>1, OffsetIsFirst DEF Offsets, Slots
<1>3. a0 = <<e>>
  BY <1>2 DEF Operand, IsPresent
<1>4. \A m, w : Operand(m, w, next) = <<>> \/ \E x : Operand(m, w, next) = <<x>>
  BY Zenon DEF Operand
<1>5. PICK S : e \in S /\ a1 \in Seq(S) /\ a2 \in Seq(S)
  <2> HIDE DEF e
  <2>1. PICK x1 : a1 = <<>> \/ a1 = <<x1>>
    BY <1>4
  <2>2. PICK x2 : a2 = <<>> \/ a2 = <<x2>>
    BY <1>4
  <2> HIDE DEF a1, a2
  <2> DEFINE S == {e, x1, x2}
  <2>3. e \in S /\ x1 \in S /\ x2 \in S
    OBVIOUS
  <2> HIDE DEF S
  <2>4. <<>> \in Seq(S) /\ <<x1>> \in Seq(S) /\ <<x2>> \in Seq(S)
    BY <2>3
  <2> QED
    BY <2>1, <2>2, <2>3, <2>4, Zenon
<1>6. OpLine(op, next).args = a0 \o a1 \o a2
  BY DEF OpLine
<1> HIDE DEF e, a0, a1, a2
<1>7. 1 \in DOMAIN (<<e>> \o a1 \o a2) /\ (<<e>> \o a1 \o a2)[1] = e
  BY <1>5, FirstOf
<1> QED
  BY <1>3, <1>6, <1>7 DEF e

LabelOf(p, addr) ==
    LET at == {i \in DOMAIN p.Labels : p.Labels[i].Offset = addr}
    IN  IF at # {}
        THEN p.Labels[CHOOSE i \in at : \A j \in at : i <= j].Name
        ELSE <<"anon", addr>>

\* The first pass has taken note of where instruction k jumps to.
Found(p, needed, k) ==
    \A v \in Offsets(Decode(p.Bytes, p.Starts[k])) : Target(p.Starts[k + 1], v) \in needed

\* The line says where instruction k jumps to, ...
Says(p, line, k) ==
    \A v \in Offsets(Decode(p.Bytes, p.Starts[k])) : \E a \in DOMAIN line.args :
        line.args[a] = [label |-> LabelOf(p, Target(p.Starts[k + 1], v)), value |-> v]

\* ... is below a label, if k needs one, ...
Below(p, needed, lines, l, k) ==
    p.Starts[k] \in needed =>
        /\ l - 1 \in DOMAIN lines
        /\ lines[l - 1].kind = "label"
        /\ lines[l - 1].name = LabelOf(p, p.Starts[k])

\* ... and comes after k - 1 others.
OpLines(lines) == {l \in DOMAIN lines : lines[l].kind = "op"}
IsKth(lines, l, k) == l \in OpLines(lines) /\ Cardinality({j \in OpLines(lines) : j < l}) = k - 1

Written(p, needed, lines, k) ==
    \E l \in DOMAIN lines : IsKth(lines, l, k) /\ Says(p, lines[l], k) /\ Below(p, needed, lines, l, k)

PassTwoAt(p, needed, lines, x, m) ==
    /\ x = p.Starts[m]
    /\ Cardinality(OpLines(lines)) = m - 1
    /\ \A k \in 1 .. m - 1 : Written(p, needed, lines, k)

\* The label of the instruction at x is the last line.
Headed(p, lines, x) ==
    /\ Len(lines) \in DOMAIN lines
    /\ lines[Len(lines)].kind = "label"
    /\ lines[Len(lines)].name = LabelOf(p, x)

Resolving ==
    P.Instrs # <<>> =>
        /\ pc \in {"tables", "one"} =>
              \E m \in 1 .. N + 1 :
                  xp = P.Starts[m] /\ \A k \in 1 .. m - 1 : Found(P, labelNeeded, k)
        /\ pc = "two" => /\ \A k \in Whole : Found(P, labelNeeded, k)
                         /\ \E m \in 1 .. N + 1 : PassTwoAt(P, labelNeeded, out, xp, m)
                         /\ labelled => Headed(P, out, xp)
        /\ pc = "done" /\ err = "nil" =>
              \A k \in Whole : Found(P, labelNeeded, k) /\ Written(P, labelNeeded, out, k)

LEMMA ResolvingSuffices ==
    Control /\ Resolving => LabelsResolve
<1> SUFFICES ASSUME Control, Resolving, pc = "done", err = "nil",
                    NEW k \in Whole, NEW v \in OffsetsAt(P.Starts[k]), NEW i \in Whole,
                    P.Starts[i] = Target(P.Starts[k + 1], v)
             PROVE  /\ \E l \in DOMAIN out :
                          /\ IsLineOf(l, k)
                          /\ \E a \in DOMAIN out[l].args :
                                out[l].args[a] = [label |-> FindLabel(P.Starts[i]), value |-> v]
                    /\ \E l \in DOMAIN out :
                          /\ IsLineOf(l, i)
                          /\ l - 1 \in Listed({"label"})
                          /\ out[l - 1].name = FindLabel(P.Starts[i])
  BY DEF LabelsResolve
<1>1. P.Instrs # <<>>
  <2>1. k \in DOMAIN P.Instrs /\ DOMAIN <<>> = {}
    BY DEF Whole
  <2> QED
    BY <2>1
<1>2. /\ Found(P, labelNeeded, k)
      /\ Written(P, labelNeeded, out, k) /\ Written(P, labelNeeded, out, i)
  BY <1>1 DEF Resolving
<1>3. P.Starts[i] \in labelNeeded
  BY <1>2 DEF Found, OffsetsAt
<1>4. \A addr : FindLabel(addr) = LabelOf(P, addr)
  BY DEF FindLabel, LabelOf
<1>5. Listed({"op"}) = OpLines(out)
  BY DEF Listed, OpLines
<1>6. \A l, n : IsKth(out, l, n) <=> IsLineOf(l, n)
  BY <1>5 DEF IsKth, IsLineOf
<1>7. PICK l \in DOMAIN out : IsKth(out, l, k) /\ Says(P, out[l], k)
  BY <1>2 DEF Written
<1>8. PICK j \in DOMAIN out : IsKth(out, j, i) /\ Below(P, labelNeeded, out, j, i)
  BY <1>2 DEF Written
<1>9. \E a \in DOMAIN out[l].args :
        out[l].args[a] = [label |-> FindLabel(P.Starts[i]), value |-> v]
  BY <1>4, <1>7 DEF Says, OffsetsAt
<1>10. j - 1 \in Listed({"label"}) /\ out[j - 1].name = FindLabel(P.Starts[i])
  BY <1>3, <1>4, <1>8 DEF Below, Listed
<1> QED
  BY <1>6, <1>7, <1>8, <1>9, <1>10, SMTT(40)

LEMMA ResolvingInit ==
    Init => Resolving
<1> SUFFICES ASSUME Init PROVE Resolving
  OBVIOUS
<1>1. Control
  BY ControlInit
<1>2. N \in Nat /\ P.Starts[1] = 0
  BY <1>1, InstrType DEF Control
<1>3. 1 \in 1 .. N + 1 /\ 1 .. 1 - 1 = {}
  BY <1>2
<1> QED
  BY <1>2, <1>3 DEF Init, Resolving

\* A new line leaves the lines above it alone.
LEMMA WrittenKept ==
    ASSUME NEW lines, IsSeq(lines), NEW x, NEW p, NEW needed, NEW k, Written(p, needed, lines, k)
    PROVE  Written(p, needed, Append(lines, x), k)
<1> DEFINE new == Append(lines, x)
<1>1. /\ Len(lines) \in Nat /\ DOMAIN lines = 1 .. Len(lines) /\ DOMAIN new = 1 .. Len(lines) + 1
      /\ \A i \in DOMAIN lines : new[i] = lines[i]
  BY Appended
<1> HIDE DEF new
<1>2. PICK l \in DOMAIN lines :
        IsKth(lines, l, k) /\ Says(p, lines[l], k) /\ Below(p, needed, lines, l, k)
  BY DEF Written
<1>3. IsKth(new, l, k)
  <2>1. {j \in OpLines(new) : j < l} = {j \in OpLines(lines) : j < l} /\ l \in DOMAIN new
    BY <1>1 DEF OpLines
  <2>2. l \in OpLines(new)
    BY <1>1, <1>2, <2>1 DEF IsKth, OpLines
  <2> QED
    BY <1>2, <2>1, <2>2 DEF IsKth
<1>4. l \in DOMAIN new /\ new[l] = lines[l]
  BY <1>1
<1>5. Below(p, needed, new, l, k)
  BY <1>1, <1>2 DEF Below
<1>6. Written(p, needed, new, k)
  BY <1>2, <1>3, <1>4, <1>5 DEF Written
<1> QED
  BY <1>6 DEF new

\* The line that is written next is the one of the instruction that is next.
LEMMA WrittenNext ==
    ASSUME NEW lines, IsSeq(lines), NEW x, x.kind = "op", NEW p, NEW needed, NEW m \in Nat,
           Cardinality(OpLines(lines)) = m - 1,
           Says(p, x, m), p.Starts[m] \in needed => Headed(p, lines, p.Starts[m])
    PROVE  /\ Written(p, needed, Append(lines, x), m)
           /\ Cardinality(OpLines(Append(lines, x))) = m
<1> DEFINE new == Append(lines, x)
           l == Len(lines) + 1
<1>1. /\ Len(lines) \in Nat /\ DOMAIN lines = 1 .. Len(lines) /\ DOMAIN new = 1 .. l
      /\ \A i \in DOMAIN lines : new[i] = lines[i]
      /\ new[l] = x
  BY Appended
<1> HIDE DEF new
<1>2. OpLines(new) = OpLines(lines) \cup {l}
  BY <1>1 DEF OpLines
<1>3. {j \in OpLines(new) : j < l} = OpLines(lines) /\ l \notin OpLines(lines)
  BY <1>1, <1>2 DEF OpLines
<1>4. IsFiniteSet(OpLines(lines))
  <2>1. IsFiniteSet(1 .. Len(lines)) /\ OpLines(lines) \in SUBSET (1 .. Len(lines))
    BY <1>1, FS_Interval DEF OpLines
  <2> QED
    BY <2>1, FS_Subset
<1>5. Cardinality(OpLines(new)) = m
  BY <1>2, <1>3, <1>4, FS_AddElement
<1>6. IsKth(new, l, m)
  BY <1>2, <1>3, Zenon DEF IsKth
<1>7. Below(p, needed, new, l, m)
  BY <1>1 DEF Below, Headed
<1>8. l \in DOMAIN new
  BY <1>1
<1>9. Written(p, needed, new, m)
  BY <1>1, <1>6, <1>7, <1>8 DEF Written
<1> QED
  BY <1>5, <1>9 DEF new

LEMMA ResolvingPassOne ==
    ASSUME Control, Resolving, PassOne, P.Instrs # <<>>
    PROVE  Resolving'
<1> DEFINE op == Decode(P.Bytes, xp)
<1>0. pc = "one" /\ UNCHANGED <<P, labelled, out>> /\ TypeOK /\ N' = N /\ Whole' = Whole
  BY DEF Control, PassOne, N, Whole
<1>1. PICK m \in 1 .. N + 1 : xp = P.Starts[m] /\ \A k \in 1 .. m - 1 : Found(P, labelNeeded, k)
  BY <1>0 DEF Resolving
<1>2. N \in Nat /\ P.Starts[1] = 0 /\ xp \in Nat /\ Len(P.Bytes) \in Nat
  BY <1>0, InstrType, Basics
<1>3. op.err = "EOF" <=> xp >= Len(P.Bytes)
  BY <1>0, <1>2, OpType
<1>4. CASE EndsPass(op) /\ pc' = "two" /\ xp' = 0 /\ UNCHANGED labelNeeded
  <2>1. \A k \in Whole : Found(P, labelNeeded, k)
    <3>1. P.Starts[m] >= Len(P.Bytes)
      BY <1>1, <1>3, <1>4 DEF EndsPass
    <3> QED
      BY <1>0, <1>1, <3>1, WholeBehind
  <2>2. PassTwoAt(P, labelNeeded, out, 0, 1)
    <3>1. OpLines(out) = {}
      BY <1>0 DEF Control, Listed, OpLines
    <3>2. Cardinality(OpLines(out)) = 1 - 1 /\ 1 .. 1 - 1 = {}
      BY <3>1, FS_EmptySet
    <3> QED
      BY <1>2, <3>2 DEF PassTwoAt
  <2>3. ~ labelled' /\ 1 \in 1 .. N + 1
    BY <1>0, <1>2, SMTT(40) DEF Control
  <2> QED
    BY <1>0, <1>4, <2>1, <2>2, <2>3 DEF Resolving
<1>5. CASE pc' = "done" /\ err' # "nil"
  BY <1>5, SMTT(40) DEF Resolving
<1>6. CASE /\ op.err = "nil" /\ xp' = NextXP(op)
           /\ labelNeeded' = labelNeeded \cup {Target(NextXP(op), v) : v \in Offsets(op)}
           /\ UNCHANGED <<pc, err>>
  <2>1. m \in 1..N /\ xp' = P.Starts[m + 1]
    BY <1>0, <1>1, <1>6, InstrStepped DEF NextXP
  <2>2. Found(P, labelNeeded', m)
    BY <1>1, <1>6, <2>1 DEF Found
  <2>3. \A k \in 1 .. m - 1 : Found(P, labelNeeded', k)
    BY <1>1, <1>6 DEF Found
  <2>4. m + 1 \in 1 .. N + 1 /\ \A k \in 1 .. (m + 1) - 1 : k = m \/ k \in 1 .. m - 1
    BY <1>2, <2>1
  <2> QED
    BY <1>0, <1>6, <2>1, <2>2, <2>3, <2>4, Zenon DEF Resolving
<1> QED
  BY <1>4, <1>5, <1>6 DEF PassOne, Return, op, EndsPass

LEMMA ResolvingWriteLabel ==
    ASSUME Control, Resolving, WriteLabel, P.Instrs # <<>>
    PROVE  Resolving'
<1>1. CASE WriteFails
  BY <1>1, Zenon DEF WriteFails, Return, Resolving
<1>2. CASE out' = Append(out, LabelLine(xp)) /\ UNCHANGED <<P, pc, xp, labelNeeded, err>>
  <2>0. pc = "two" /\ IsSeq(out) /\ N' = N /\ Whole' = Whole
    BY <1>2 DEF Control, WriteLabel, N, Whole
  <2>1. PICK m \in 1 .. N + 1 : PassTwoAt(P, labelNeeded, out, xp, m)
    BY <2>0 DEF Resolving
  <2>2. /\ Len(out) \in Nat /\ DOMAIN out = 1 .. Len(out) /\ DOMAIN out' = 1 .. Len(out) + 1
        /\ Len(out') = Len(out) + 1
        /\ \A i \in DOMAIN out : out'[i] = out[i]
        /\ out'[Len(out) + 1] = LabelLine(xp)
    BY <1>2, <2>0, Appended
  <2>3. LabelLine(xp).kind = "label" /\ LabelLine(xp).name = LabelOf(P, xp)
    BY DEF LabelLine, FindLabel, LabelOf
  <2>4. Headed(P, out', xp)
    BY <2>2, <2>3 DEF Headed
  <2>5. OpLines(out') = OpLines(out)
    <3>1. \A l \in DOMAIN out' : l \in DOMAIN out \/ (l = Len(out) + 1 /\ out'[l].kind # "op")
      BY <2>2, <2>3
    <3>2. DOMAIN out \subseteq DOMAIN out'
      BY <2>2
    <3>3. Len(out) + 1 \notin DOMAIN out
      BY <2>2
    <3> QED
      BY <2>2, <3>1, <3>2, <3>3 DEF OpLines
  <2>6. PassTwoAt(P, labelNeeded, out', xp, m)
    BY <1>2, <2>0, <2>1, <2>5, WrittenKept DEF PassTwoAt
  <2> QED
    BY <1>2, <2>0, <2>4, <2>6 DEF Resolving
<1> QED
  BY <1>1, <1>2 DEF WriteLabel

LEMMA ResolvingPassTwo ==
    ASSUME Control, Resolving, PassTwo, P.Instrs # <<>>
    PROVE  Resolving'
<1> DEFINE op == Decode(P.Bytes, xp)
<1>0. pc = "two" /\ UNCHANGED P /\ TypeOK /\ IsSeq(out) /\ N' = N /\ Whole' = Whole
      /\ (op.err = "nil" /\ xp \in labelNeeded => labelled)
  BY Zenon DEF Control, PassTwo, N, Whole, WriteFails
<1>1. PICK m \in 1 .. N + 1 : PassTwoAt(P, labelNeeded, out, xp, m)
  BY <1>0 DEF Resolving
<1>2. \A k \in Whole : Found(P, labelNeeded, k)
  BY <1>0 DEF Resolving
<1>3. N \in Nat /\ xp \in Nat /\ Len(P.Bytes) \in Nat /\ xp = P.Starts[m]
  BY <1>0, <1>1, InstrType, Basics DEF PassTwoAt
<1>4. /\ op.err = "EOF" <=> xp >= Len(P.Bytes)
      /\ op.err = "nil" => IsInstruction(op)
  BY <1>0, <1>3, OpType
<1>5. CASE /\ Return(CASE op.err = "EOF" -> "nil" [] op.err = "nil" -> "panic" [] OTHER -> op.err)
           /\ UNCHANGED <<P, xp, labelNeeded, labelled, out>>
  <2>1. pc' = "done" /\ (err' = "nil" => op.err = "EOF")
    BY <1>5 DEF Return
  <2>2. ASSUME op.err = "EOF"
        PROVE  \A k \in Whole : Written(P, labelNeeded, out, k)
    <3>1. P.Starts[m] >= Len(P.Bytes)
      BY <1>3, <1>4, <2>2, SMTT(40)
    <3> QED
      BY <1>0, <1>1, <3>1, WholeBehind DEF PassTwoAt
  <2> QED
    BY <1>0, <1>2, <1>5, <2>1, <2>2 DEF Resolving
<1>6. CASE WriteFails
  BY <1>6, ZenonT(40) DEF WriteFails, Return, Resolving
<1>7. CASE /\ ~ Stops(op)
           /\ out' = Append(out, OpLine(op, NextXP(op)))
           /\ xp' = NextXP(op)
           /\ labelled' = FALSE
           /\ UNCHANGED <<P, pc, labelNeeded, err>>
  <2> DEFINE x == OpLine(op, NextXP(op))
  <2>1. op.err = "nil"
    BY <1>7 DEF Stops
  <2>2. m \in 1..N /\ xp' = P.Starts[m + 1] /\ NextXP(op) = P.Starts[m + 1]
    <3>1. m \in 1..N /\ xp + op.Len = P.Starts[m + 1]
      BY <1>0, <1>3, <2>1, InstrStepped, Zenon
    <3> QED
      BY <1>7, <3>1, Zenon DEF NextXP
  <2>3. Says(P, x, m)
    <3>1. \A addr : FindLabel(addr) = LabelOf(P, addr)
      BY SMTT(40) DEF FindLabel, LabelOf
    <3>2. \A v \in Offsets(op) : \E a \in DOMAIN x.args :
            x.args[a] = [label |-> FindLabel(Target(NextXP(op), v)), value |-> v]
      BY <1>4, <2>1, LineSays
    <3> HIDE DEF x
    <3> QED
      BY <1>3, <2>2, <3>1, <3>2 DEF Says
  <2>4. x.kind = "op"
    BY DEF OpLine
  <2> HIDE DEF x
  <2>5. P.Starts[m] \in labelNeeded => Headed(P, out, P.Starts[m])
    BY <1>0, <1>3, <2>1 DEF Resolving
  <2>6. m \in Nat /\ Cardinality(OpLines(out)) = m - 1
    BY <1>1, <2>2, SMTT(40) DEF PassTwoAt
  <2>7. Written(P, labelNeeded, out', m) /\ Cardinality(OpLines(out')) = m
    BY <1>0, <1>7, <2>3, <2>4, <2>5, <2>6, WrittenNext, SMTT(40) DEF x
  <2>8. \A k \in 1 .. m - 1 : Written(P, labelNeeded, out', k)
    BY <1>0, <1>1, <1>7, WrittenKept DEF PassTwoAt
  <2>9. m + 1 \in 1 .. N + 1 /\ (m + 1) - 1 = m /\ \A k \in 1..m : k = m \/ k \in 1 .. m - 1
    BY <1>3, <2>2
  <2>10. PassTwoAt(P, labelNeeded, out', xp', m + 1)
    BY <2>2, <2>7, <2>8, <2>9 DEF PassTwoAt
  <2> QED
    BY <1>0, <1>2, <1>7, <2>9, <2>10, SMTT(40) DEF Resolving
<1> QED
  BY <1>5, <1>6, <1>7, Zenon DEF PassTwo, op

LEMMA ResolvingNext ==
    Control /\ Resolving /\ [Next]_vars => Resolving'
<1> SUFFICES ASSUME Control, Resolving, [Next]_vars, P.Instrs # <<>> PROVE Resolving'
  <2>1. UNCHANGED P \/ ~ [Next]_vars
    BY Zenon DEF Next, WriteTables, PassOne, WriteLabel, PassTwo, WriteFails, vars
  <2> QED
    BY <2>1 DEF Resolving
<1>1. CASE UNCHANGED vars
  BY <1>1, SMTT(40) DEF vars, Resolving, N, Whole
<1>2. CASE WriteTables
  <2>1. UNCHANGED <<P, xp, labelNeeded>> /\ pc = "tables" /\ N' = N
    BY <1>2, Zenon DEF WriteTables, WriteFails, N
  <2>2. pc' \in {"tables", "one"} \/ (pc' = "done" /\ err' # "nil")
    BY <1>2, Zenon DEF WriteTables, WriteFails, Return
  <2> QED
    BY <2>1, <2>2 DEF Resolving
<1> QED
  BY <1>1, <1>2, ResolvingPassOne, ResolvingWriteLabel, ResolvingPassTwo, SMTT(40) DEF Next

\* The listing jumps where the bytecode does, for encoded programs of any
\* length: wherever an instruction refers to the start of another, its line says
\* the label that stands on the line directly above the other's.
THEOREM LabelsResolveTheorem == Spec => []LabelsResolve
  BY ControlInit, ControlNext, ResolvingInit, ResolvingNext, ResolvingSuffices, PTL DEF Spec
=============================================================================
