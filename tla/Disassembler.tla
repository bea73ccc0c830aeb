---------------------------- MODULE Disassembler ----------------------------
(***************************************************************************)
(* Program.Disassemble (src/peggyvm/program.go): the tables are written,   *)
(* a first pass over the bytecode finds the code addresses that need a     *)
(* label, a second pass writes the listing.  One action per decoded        *)
(* instruction or flushed line; every flush may meet a writer's error.     *)
(***************************************************************************)
EXTENDS Bytecode, FiniteSets

CONSTANTS Programs

VARIABLES
    P,              \* the program
    pc,             \* "tables", "one", "two" (the passes) or "done"
    xp,             \* code address of the pass
    labelNeeded,    \* the targets found by the first pass
    labelled,       \* has the second pass written the label of xp?
    out,            \* the lines the writer has accepted
    err             \* what Disassemble returns, or "panic"

vars == <<P, pc, xp, labelNeeded, labelled, out, err>>

\* The tables of literals and matchers matter only by their lengths; P.Captures
\* tells which captures are named.  Labels come in the order of their offsets
\* (Assembler.Finish lists them so).
Instr == [Meta : opMeta, Imm0 : Uint64, Imm1 : Uint64, Imm2 : Uint64]

SortedLabels(labels) ==
    \A i, j \in DOMAIN labels : i < j => labels[i].Offset <= labels[j].Offset

IsProgram(p) ==
    /\ p.Bytes \in Seq(Byte)
    /\ p.Instrs \in Seq(Instr)
    /\ p.Literals \in Nat /\ p.ByteSets \in Nat
    /\ p.Captures \in Seq(BOOLEAN)
    /\ SortedLabels(p.Labels)

Encoded(i) == Encode(i.Meta, i.Imm0, i.Imm1, i.Imm2)

\* P.Instrs and P.Starts are not part of the code's Program.  They are the
\* instructions that P.Bytes, which may be cut short, was encoded from and the
\* addresses where these start and end; bytecode that no encoder wrote has none.
IsEncoding(p) ==
    /\ p.Starts \in [1 .. Len(p.Instrs) + 1 -> Nat]
    /\ p.Starts[1] = 0
    /\ \A k \in DOMAIN p.Instrs :
          /\ p.Starts[k + 1] = p.Starts[k] + Len(Encoded(p.Instrs[k]))
          /\ Holds(p.Bytes, p.Starts[k], Encoded(p.Instrs[k]))
    /\ p.Instrs # <<>> => Len(p.Bytes) <= p.Starts[Len(p.Instrs) + 1]

ASSUME ProgramsAssumption == \A p \in Programs : IsProgram(p) /\ IsEncoding(p)

Init ==
    /\ P \in Programs
    /\ pc = "tables"
    /\ xp = 0
    /\ labelNeeded = {}
    /\ labelled = FALSE
    /\ out = <<>>
    /\ err = "nil"

-----------------------------------------------------------------------------

\* The first label at the address, or a synthetic one (named by the address).
FindLabel(addr) ==
    LET at == {i \in DOMAIN P.Labels : P.Labels[i].Offset = addr}
    IN  IF at # {}
        THEN P.Labels[CHOOSE i \in at : \A j \in at : i <= j].Name
        ELSE <<"anon", addr>>

\* addOffset(xp, u2s(v)) for a CodeOffset immediate.  Only the lower bound can
\* be missed: an address below 2^63 plus an int64 is below 2^64.
Target(next, v) == next + AsInt(v)

Slots(op) == {<<op.Meta.Imm0, op.Imm0>>, <<op.Meta.Imm1, op.Imm1>>, <<op.Meta.Imm2, op.Imm2>>}

\* The code offsets among the immediates of a decoded instruction.
Offsets(op) == {s[2] : s \in {t \in Slots(op) : t[1].Type = "CodeOffset"}}

\* Faulty variant: the address is not advanced.
NextXP_Stuck(op) == xp

\* "xp += uint64(op.Len)"
NextXP(op) == xp + op.Len

\* Faulty variant: addOffset without its range check.
Panics_Never(op) == FALSE

Panics(op) == \E v \in Offsets(op) : Target(NextXP(op), v) < 0

\* A line of the listing.
TableLine(kind, arg) == [kind |-> kind, arg |-> arg]

\* The named captures, and the k-th of them.
Named == {i \in DOMAIN P.Captures : P.Captures[i]}
NthNamed(k) == CHOOSE i \in Named : Cardinality({j \in Named : j < i}) = k - 1

\* The lines before the listing: literals, matchers, captures, a blank one.
Tables ==
    [i \in 1 .. P.Literals |-> TableLine("literal", i - 1)]
    \o [i \in 1 .. P.ByteSets |-> TableLine("matcher", i - 1)]
    \o <<TableLine("captures", Len(P.Captures))>>
    \o [k \in 1 .. Cardinality(Named) |-> TableLine("namedcapture", NthNamed(k) - 1)]
    \o <<TableLine("blank", 0)>>

\* What writeOp prints for an immediate: nothing for a default, a label and an
\* offset for a code offset, a number otherwise, flagged when it is not an index
\* of its table.
OutOfRange(m, v) ==
    LET size == CASE m.Type = "LiteralIdx" -> P.Literals
                  [] m.Type = "MatcherIdx" -> P.ByteSets
                  [] m.Type = "CaptureIdx" -> Len(P.Captures)
    IN  m.Type \in {"LiteralIdx", "MatcherIdx", "CaptureIdx"}
        /\ \A i \in 0 .. size - 1 : v # Raw(i)

\* Only the low byte of a byte immediate is printed.
Operand(m, v, next) ==
    CASE ~ IsPresent(m, v) -> <<>>
      [] IsPresent(m, v) /\ m.Type = "CodeOffset" ->
            <<[label |-> FindLabel(Target(next, v)), value |-> v]>>
      [] IsPresent(m, v) /\ m.Type = "Byte" ->
            <<[value |-> [i \in 1..8 |-> IF i = 1 THEN v[1] ELSE 0]]>>
      [] OTHER -> <<[value |-> v, bad |-> OutOfRange(m, v)]>>

\* writeOp, given the address of the following instruction.
OpLine(op, next) ==
    [kind |-> "op", name |-> op.Meta.Name,
     args |-> Operand(op.Meta.Imm0, op.Imm0, next)
              \o Operand(op.Meta.Imm1, op.Imm1, next)
              \o Operand(op.Meta.Imm2, op.Imm2, next)]

\* Faulty variant: the program's own labels are forgotten.
LabelLine_Anonymous(addr) == [kind |-> "label", name |-> <<"anon", addr>>]

LabelLine(addr) == [kind |-> "label", name |-> FindLabel(addr)]

-----------------------------------------------------------------------------

Return(e) == pc' = "done" /\ err' = e

\* flush() reports the writer's error and Disassemble returns it.
WriteFails ==
    /\ Return("write error")
    /\ UNCHANGED <<P, xp, labelNeeded, labelled, out>>

WriteTables ==
    /\ pc = "tables"
    /\ \/ WriteFails
       \/ /\ out' = Append(out, Tables[Len(out) + 1])
          /\ pc' = IF Len(out') = Len(Tables) THEN "one" ELSE "tables"
          /\ UNCHANGED <<P, xp, labelNeeded, labelled, err>>

\* Faulty variant: any error ends the first pass like the end of the bytecode.
EndsPass_AnyError(op) == op.err # "nil"

EndsPass(op) == op.err = "EOF"

PassOne ==
    /\ pc = "one"
    /\ \E op \in {Decode(P.Bytes, xp)} :
          \/ /\ EndsPass(op)
             /\ pc' = "two"
             /\ xp' = 0
             /\ UNCHANGED <<labelNeeded, err>>
          \/ /\ op.err # "nil" /\ ~ EndsPass(op)
             /\ Return(op.err)
             /\ UNCHANGED <<xp, labelNeeded>>
          \/ /\ op.err = "nil"
             /\ xp' = NextXP(op)
             /\ \/ /\ Panics(op)
                   /\ Return("panic")
                   /\ UNCHANGED labelNeeded
                \/ /\ ~ Panics(op)
                   /\ labelNeeded' = labelNeeded \cup {Target(NextXP(op), v) : v \in Offsets(op)}
                   /\ UNCHANGED <<pc, err>>
    /\ UNCHANGED <<P, labelled, out>>

\* Second pass: first the label of an instruction, if one is needed, ...
WriteLabel ==
    /\ pc = "two"
    /\ ~ labelled
    /\ Decode(P.Bytes, xp).err = "nil"
    /\ xp \in labelNeeded
    /\ \/ WriteFails
       \/ /\ out' = Append(out, LabelLine(xp))
          /\ labelled' = TRUE
          /\ UNCHANGED <<P, pc, xp, labelNeeded, err>>

\* ... then the instruction.  The end of the bytecode, an instruction that does
\* not decode and addOffset's panic end the pass.
Stops(op) == op.err = "nil" => Panics(op)

PassTwo ==
    /\ pc = "two"
    /\ \E op \in {Decode(P.Bytes, xp)} :
          /\ op.err = "nil" /\ xp \in labelNeeded => labelled
          /\ \/ /\ Stops(op)
                /\ Return(CASE op.err = "EOF" -> "nil" [] op.err = "nil" -> "panic"
                            [] OTHER -> op.err)
                /\ UNCHANGED <<P, xp, labelNeeded, labelled, out>>
             \/ ~ Stops(op) /\ WriteFails
             \/ /\ ~ Stops(op)
                /\ out' = Append(out, OpLine(op, NextXP(op)))
                /\ xp' = NextXP(op)
                /\ labelled' = FALSE
                /\ UNCHANGED <<P, pc, labelNeeded, err>>

Next == WriteTables \/ PassOne \/ WriteLabel \/ PassTwo

Spec == Init /\ [][Next]_vars

\* Nothing waits: the loops run on until they return.
FairSpec == Spec /\ WF_vars(Next)

-----------------------------------------------------------------------------
(* Properties. *)

\* The type of the state.
TypeOK ==
    /\ P \in Programs
    /\ pc \in {"tables", "one", "two", "done"}
    /\ xp \in 0 .. Len(P.Bytes)
    /\ labelNeeded \in SUBSET Nat
    /\ labelled \in BOOLEAN
    /\ \A k \in DOMAIN out :
          out[k].kind \in {"literal", "matcher", "captures", "namedcapture", "blank", "label", "op"}
    /\ err \in {"nil", "panic", "write error", "ErrUnexpectedEOF", "ErrBadImmediateLen",
               "ErrUnknownOpcode", "ErrMissingImmediate", "ErrUnexpectedImmediate"}

Plain(i) == /\ Survives(i.Meta.Imm0, i.Imm0)
            /\ Survives(i.Meta.Imm1, i.Imm1)
            /\ Survives(i.Meta.Imm2, i.Imm2)

SameInstr(op, i) ==
    op.Meta = i.Meta /\ op.Imm0 = i.Imm0 /\ op.Imm1 = i.Imm1 /\ op.Imm2 = i.Imm2

\* Decoding stays in step with the encoder.  Wherever a pass stands it stands
\* at the start of an instruction that OpMeta.Encode wrote, and Op.Decode there
\* gives back that instruction with its immediates (when the or with the
\* default loses nothing); where the bytecode was cut short inside an
\* instruction it gives an unexpected EOF, never some other instruction.  (Of
\* bytecode that no encoder wrote, P.Instrs = <<>>, it says nothing.)
SweepInStep ==
    P.Instrs # <<>> /\ pc \in {"one", "two"} /\ xp < Len(P.Bytes) =>
        \E k \in DOMAIN P.Instrs :
            /\ xp = P.Starts[k]
            /\ LET op == Decode(P.Bytes, xp)
                   i == P.Instrs[k]
                   cut == P.Starts[k + 1] > Len(P.Bytes)
               IN  /\ cut => op.err = "ErrUnexpectedEOF"
                   /\ ~ cut => /\ op.err = "nil"
                               /\ xp + op.Len = P.Starts[k + 1]
                               /\ Plain(i) => SameInstr(op, i)

\* The same without the exception: ImmMeta.Encode "generates the encoded bytes
\* for the given immediate value", so Op.Decode reads that value back from them.
DecodeInvertsEncode ==
    \A k \in DOMAIN P.Instrs :
        P.Starts[k + 1] <= Len(P.Bytes)
            => SameInstr(Decode(P.Bytes, P.Starts[k]), P.Instrs[k])

Listed(kinds) == {k \in DOMAIN out : out[k].kind \in kinds}

\* The first pass vets the whole program: when the bytecode does not decode or
\* a jump leaves the address space, Disassemble stops before the listing, so
\* that nobody is given half of one.
AllOrNothingListing ==
    pc = "done" /\ err \notin {"nil", "write error"} => Listed({"label", "op"}) = {}

\* The instructions that are not cut off, and the code offsets of one.
Whole == {k \in DOMAIN P.Instrs : P.Starts[k] < Len(P.Bytes)}
OffsetsAt(x) == Offsets(Decode(P.Bytes, x))

\* The line of the k-th instruction.
IsLineOf(l, k) ==
    l \in Listed({"op"}) /\ Cardinality({j \in Listed({"op"}) : j < l}) = k - 1

\* The listing jumps where the bytecode does.  When an instruction k refers to
\* the start of an instruction i, the line of k says a label, and that label
\* stands on a line of its own directly above the line of i.
LabelsResolve ==
    pc = "done" /\ err = "nil" =>
        \A k \in Whole : \A v \in OffsetsAt(P.Starts[k]) : \A i \in Whole :
            P.Starts[i] = Target(P.Starts[k + 1], v) =>
                /\ \E l \in DOMAIN out :
                      /\ IsLineOf(l, k)
                      /\ \E a \in DOMAIN out[l].args :
                            out[l].args[a] = [label |-> FindLabel(P.Starts[i]), value |-> v]
                /\ \E l \in DOMAIN out :
                      /\ IsLineOf(l, i)
                      /\ l - 1 \in Listed({"label"})
                      /\ out[l - 1].name = FindLabel(P.Starts[i])

\* Disassemble returns, whatever the bytecode.
Returns == <>(pc = "done")
=============================================================================
