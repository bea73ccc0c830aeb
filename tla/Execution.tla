------------------------------ MODULE Execution ------------------------------
(***************************************************************************)
(* The go-peggy bytecode machine: type Execution and its method Step       *)
(* (src/peggyvm/execution.go).  One action per instruction; each action is *)
(* one whole call of Step, with the error returns and the panic of         *)
(* addOffset that the instruction can take.                                *)
(*                                                                         *)
(* The instruction at each code address is already decoded here (module    *)
(* Bytecode models Op.Decode and builds these programs from real bytes).   *)
(* Code offsets are signed integers, the other immediates naturals.        *)
(***************************************************************************)
EXTENDS Integers, Sequences

CONSTANTS
    Families,   \* what an execution may be created for: sets of Programs, each
                \* with the Inputs they may be given
    MaxU64,     \* the largest uint64
    MaxCS,      \* bound on the control stack (memory, in the code)
    MaxKS       \* bound on the capture stack (memory, in the code)

VARIABLES
    P,          \* the program
    I,          \* the input bytes
    DP,         \* data pointer
    XP,         \* code pointer
    KS,         \* capture stack: a sequence of Assignments
    CS,         \* control stack: a sequence of Frames
    R,          \* execution state
    ret         \* what the latest call of Step returned, or "panic"

vars == <<P, I, DP, XP, KS, CS, R, ret>>

Byte == 0..255
U64  == 0..MaxU64

OffsetCodes == {"CHOICE", "COMMIT", "JMP", "CALL", "TANYB", "TSAMEB", "TLITB",
                "TMATCHB", "PCOMMIT", "BCOMMIT"}

OpCodes == OffsetCodes \cup
    {"NOP", "FAIL", "ANYB", "SAMEB", "LITB", "MATCHB", "RET", "SPANB", "FAIL2X",
     "RWNDB", "FCAP", "BCAP", "ECAP", "GIVEUP", "END"}

\* What Op.Decode yields at a code address.  "BAD" is any DisassembleError.
Ops == {op \in [Code : OpCodes \cup {"BAD"}, Imm0 : Int, Imm1 : Nat, Imm2 : Nat,
                Len : Nat \ {0}] :
            op.Code \notin OffsetCodes => op.Imm0 \in Nat}

\* P.Len is len(P.Bytes).  A decoded instruction never extends past the end.
IsProgram(p) ==
    /\ p.Len \in U64
    /\ p.Ops \in [0 .. p.Len - 1 -> Ops]
    /\ \A xp \in 0 .. p.Len - 1 : p.Ops[xp].Code # "BAD" => xp + p.Ops[xp].Len <= p.Len
    /\ p.Literals \in Seq(Seq(Byte))
    /\ p.ByteSets \in Seq(SUBSET Byte)
    /\ p.Captures \in Nat

ASSUME MaxU64Assumption == MaxU64 \in Nat
ASSUME ProgramsAssumption == \A f \in Families : \A p \in f.Programs : IsProgram(p)
ASSUME InputsAssumption ==
    \A f \in Families : \A i \in f.Inputs : i \in Seq(Byte) /\ Len(i) <= MaxU64
ASSUME BoundsAssumption == MaxCS \in Nat /\ MaxKS \in Nat

Assignment == [Index : Nat, IsEnd : BOOLEAN, DP : U64]
Frame == [IsChoice : BOOLEAN, DP : U64, XP : U64, KS : Seq(Assignment)]

ExecutionState == {"Running", "Success", "Failure", "Error"}
Errors == {"ErrExecutionHalted", "DisassembleError", "ErrEmptyStack",
           "ErrCallRetFrame", "ErrChoiceFailFrame", "ErrIndexRange", "ErrCountRange"}

\* Program.Exec: a fresh execution.
Init ==
    /\ \E f \in Families : P \in f.Programs /\ I \in f.Inputs
    /\ DP = 0
    /\ XP = 0
    /\ KS = <<>>
    /\ CS = <<>>
    /\ R = "Running"
    /\ ret = "nil"

-----------------------------------------------------------------------------
(* uint64 arithmetic wraps around. *)

Add64(a, b) == IF a + b <= MaxU64 THEN a + b ELSE a + b - MaxU64 - 1
Sub64(a, b) == IF b <= a THEN a - b ELSE a - b + MaxU64 + 1

(* Reading the program and the input. *)

Op == P.Ops[XP]
NextXP == XP + Op.Len

Fetch(code) == R = "Running" /\ XP < P.Len /\ Op.Code = code

\* Faulty variant: one byte too many.
availableBytes_OffByOne == Sub64(Len(I), DP) + 1

availableBytes == Sub64(Len(I), DP)

\* Does the input at DP start with n bytes of the set m?
matchN(m, n) ==
    /\ availableBytes >= n
    /\ \A k \in 0 .. n - 1 : I[DP + k + 1] \in m

matchLit(lit) ==
    /\ availableBytes >= Len(lit)
    /\ \A k \in DOMAIN lit : I[DP + k] = lit[k]

\* byteset.Exactly(byte(imm))
Exactly(imm) == {imm % 256}

\* The top frame, and the stack once x.popCS() has removed it.
top == CS[Len(CS)]
popCS == SubSeq(CS, 1, Len(CS) - 1)

(* The ways a call of Step ends.  Each fixes DP, XP, KS, CS, R and ret. *)

Frozen == UNCHANGED <<P, I>>

\* Faulty variant: the captures are kept.
rterr_KeepsCaptures(e, cs) ==
    R' = "Error" /\ CS' = cs /\ XP' = NextXP /\ ret' = e /\ UNCHANGED <<DP, KS>>

\* "return rterr(e)" with the control stack as it is by then.
rterr(e, cs) ==
    /\ R' = "Error"
    /\ KS' = <<>>
    /\ CS' = cs
    /\ XP' = NextXP
    /\ ret' = e
    /\ UNCHANGED DP

\* Faulty variant: without the overflow check.
addOffset_Unchecked(s) == XP' = NextXP + s /\ ret' = "nil"

\* "x.XP = addOffset(x.XP, s)", or its panic, which leaves the rest of the
\* machine as it is by then.
addOffset(s) ==
    \/ /\ NextXP + s \in U64
       /\ XP' = NextXP + s
       /\ ret' = "nil"
    \/ /\ NextXP + s \notin U64
       /\ XP' = NextXP
       /\ ret' = "panic"

\* Faulty variants: captures thrown away, captures kept, the data pointer
\* kept, the frame left on the stack.
resume_NoCaptures(fr, cs) ==
    DP' = fr.DP /\ XP' = fr.XP /\ KS' = <<>> /\ CS' = cs /\ UNCHANGED R
resume_KeepsCaptures(fr, cs) ==
    DP' = fr.DP /\ XP' = fr.XP /\ CS' = cs /\ UNCHANGED <<KS, R>>
resume_KeepsDP(fr, cs) ==
    XP' = fr.XP /\ KS' = fr.KS /\ CS' = cs /\ UNCHANGED <<DP, R>>
resume_KeepsFrame(fr, cs) ==
    DP' = fr.DP /\ XP' = fr.XP /\ KS' = fr.KS /\ CS' = Append(cs, fr) /\ UNCHANGED R

\* Return to the choice frame fr, with the stack cs below it.
resume(fr, cs) ==
    /\ DP' = fr.DP
    /\ XP' = fr.XP
    /\ KS' = fr.KS
    /\ CS' = cs
    /\ UNCHANGED R

\* Faulty variant: only the top frame is looked at.
fail_TopOnly(cs) ==
    LET found == cs # <<>> /\ cs[Len(cs)].IsChoice
    IN  /\ ret' = "nil"
        /\ \/ found /\ resume(cs[Len(cs)], SubSeq(cs, 1, Len(cs) - 1))
           \/ /\ ~ found
              /\ CS' = <<>> /\ KS' = <<>> /\ XP' = NextXP /\ R' = "Failure"
              /\ UNCHANGED DP

\* x.fail(): pop frames up to and including the topmost choice frame and
\* resume there; without one, the match has failed.
fail(cs) ==
    /\ ret' = "nil"
    /\ \/ \E i \in DOMAIN cs :
            /\ cs[i].IsChoice
            /\ \A j \in i + 1 .. Len(cs) : ~ cs[j].IsChoice
            /\ resume(cs[i], SubSeq(cs, 1, i - 1))
       \/ /\ \A i \in DOMAIN cs : ~ cs[i].IsChoice
          /\ CS' = <<>>
          /\ KS' = <<>>
          /\ XP' = NextXP
          /\ R' = "Failure"
          /\ UNCHANGED DP

\* Consume n bytes and go on with the following instruction.
advance(n) ==
    /\ DP' = Add64(DP, n)
    /\ XP' = NextXP
    /\ ret' = "nil"
    /\ UNCHANGED <<KS, CS, R>>

\* The tail of the matching instructions, and of their T* variants.
advanceOrFail(good, n) ==
    \/ good /\ advance(n)
    \/ ~ good /\ fail(CS)

advanceOrJump(good, n, s) ==
    \/ good /\ advance(n)
    \/ ~ good /\ addOffset(s) /\ UNCHANGED <<DP, KS, CS, R>>

\* popCS, then the checks of COMMIT, PCOMMIT, BCOMMIT and FAIL2X.
popFault ==
    \/ CS = <<>> /\ rterr("ErrEmptyStack", CS)
    \/ CS # <<>> /\ ~ top.IsChoice /\ rterr("ErrCallRetFrame", popCS)

popsChoice == CS # <<>> /\ top.IsChoice

-----------------------------------------------------------------------------
(* The instructions. *)

\* Step on a halted execution.
StepHalted ==
    /\ R # "Running"
    /\ ret' = "ErrExecutionHalted"
    /\ UNCHANGED <<P, I, DP, XP, KS, CS, R>>

\* Decode reports io.EOF: running off the end of the program is success.
StepEOF ==
    /\ R = "Running"
    /\ XP >= P.Len
    /\ R' = "Success"
    /\ ret' = "nil"
    /\ UNCHANGED <<P, I, DP, XP, KS, CS>>

StepBadOp ==
    /\ Fetch("BAD")
    /\ R' = "Error"
    /\ KS' = <<>>
    /\ ret' = "DisassembleError"
    /\ UNCHANGED <<P, I, DP, XP, CS>>

NOP == Fetch("NOP") /\ advance(0) /\ Frozen

CHOICE ==
    /\ Fetch("CHOICE")
    /\ Len(CS) < MaxCS
    /\ XP' = NextXP
    /\ \/ /\ NextXP + Op.Imm0 \in U64
          /\ CS' = Append(CS, [IsChoice |-> TRUE, DP |-> DP,
                               XP |-> NextXP + Op.Imm0, KS |-> KS])
          /\ ret' = "nil"
       \/ /\ NextXP + Op.Imm0 \notin U64
          /\ ret' = "panic"
          /\ UNCHANGED CS
    /\ UNCHANGED <<P, I, DP, KS, R>>

COMMIT ==
    /\ Fetch("COMMIT")
    /\ \/ popFault
       \/ /\ popsChoice
          /\ CS' = popCS
          /\ addOffset(Op.Imm0)
          /\ UNCHANGED <<DP, KS, R>>
    /\ Frozen

FAIL == Fetch("FAIL") /\ fail(CS) /\ Frozen

ANYB ==
    /\ Fetch("ANYB")
    /\ advanceOrFail(availableBytes >= Op.Imm0, Op.Imm0)
    /\ Frozen

SAMEB ==
    /\ Fetch("SAMEB")
    /\ advanceOrFail(matchN(Exactly(Op.Imm0), Op.Imm1), Op.Imm1)
    /\ Frozen

LITB ==
    /\ Fetch("LITB")
    /\ \/ Op.Imm0 >= Len(P.Literals) /\ rterr("ErrIndexRange", CS)
       \/ /\ Op.Imm0 < Len(P.Literals)
          /\ LET lit == P.Literals[Op.Imm0 + 1]
             IN  advanceOrFail(matchLit(lit), Len(lit))
    /\ Frozen

MATCHB ==
    /\ Fetch("MATCHB")
    /\ \/ Op.Imm0 >= Len(P.ByteSets) /\ rterr("ErrIndexRange", CS)
       \/ /\ Op.Imm0 < Len(P.ByteSets)
          /\ advanceOrFail(matchN(P.ByteSets[Op.Imm0 + 1], Op.Imm1), Op.Imm1)
    /\ Frozen

JMP == Fetch("JMP") /\ addOffset(Op.Imm0) /\ UNCHANGED <<P, I, DP, KS, CS, R>>

\* The frame is pushed before addOffset may panic.
CALL ==
    /\ Fetch("CALL")
    /\ Len(CS) < MaxCS
    /\ CS' = Append(CS, [IsChoice |-> FALSE, DP |-> 0, XP |-> NextXP, KS |-> <<>>])
    /\ addOffset(Op.Imm0)
    /\ UNCHANGED <<P, I, DP, KS, R>>

\* As written: a call frame is the error, a choice frame is returned to.
RET ==
    /\ Fetch("RET")
    /\ \/ CS = <<>> /\ rterr("ErrEmptyStack", CS)
       \/ CS # <<>> /\ ~ top.IsChoice /\ rterr("ErrChoiceFailFrame", popCS)
       \/ /\ popsChoice
          /\ CS' = popCS
          /\ XP' = top.XP
          /\ ret' = "nil"
          /\ UNCHANGED <<DP, KS, R>>
    /\ Frozen

TANYB ==
    /\ Fetch("TANYB")
    /\ advanceOrJump(availableBytes >= Op.Imm1, Op.Imm1, Op.Imm0)
    /\ Frozen

TSAMEB ==
    /\ Fetch("TSAMEB")
    /\ advanceOrJump(matchN(Exactly(Op.Imm1), Op.Imm2), Op.Imm2, Op.Imm0)
    /\ Frozen

TLITB ==
    /\ Fetch("TLITB")
    /\ \/ Op.Imm1 >= Len(P.Literals) /\ rterr("ErrIndexRange", CS)
       \/ /\ Op.Imm1 < Len(P.Literals)
          /\ LET lit == P.Literals[Op.Imm1 + 1]
             IN  advanceOrJump(matchLit(lit), Len(lit), Op.Imm0)
    /\ Frozen

TMATCHB ==
    /\ Fetch("TMATCHB")
    /\ \/ Op.Imm1 >= Len(P.ByteSets) /\ rterr("ErrIndexRange", CS)
       \/ /\ Op.Imm1 < Len(P.ByteSets)
          /\ advanceOrJump(matchN(P.ByteSets[Op.Imm1 + 1], Op.Imm2), Op.Imm2, Op.Imm0)
    /\ Frozen

\* The frame is refreshed in place; the panic comes after the pop.
PCOMMIT ==
    /\ Fetch("PCOMMIT")
    /\ \/ popFault
       \/ /\ popsChoice
          /\ XP' = NextXP
          /\ \/ /\ NextXP + Op.Imm0 \in U64
                /\ CS' = Append(popCS, [IsChoice |-> TRUE, DP |-> DP,
                                            XP |-> NextXP + Op.Imm0, KS |-> KS])
                /\ ret' = "nil"
             \/ /\ NextXP + Op.Imm0 \notin U64
                /\ CS' = popCS
                /\ ret' = "panic"
          /\ UNCHANGED <<DP, KS, R>>
    /\ Frozen

BCOMMIT ==
    /\ Fetch("BCOMMIT")
    /\ \/ popFault
       \/ /\ popsChoice
          /\ CS' = popCS
          /\ DP' = top.DP
          /\ KS' = top.KS
          /\ addOffset(Op.Imm0)
          /\ UNCHANGED R
    /\ Frozen

\* The loop stops at the first byte that is not in the set, or at the end.
SPANB ==
    /\ Fetch("SPANB")
    /\ \/ Op.Imm0 >= Len(P.ByteSets) /\ rterr("ErrIndexRange", CS)
       \/ /\ Op.Imm0 < Len(P.ByteSets)
          /\ \E n \in 0 .. Len(I) - DP :
                /\ \A k \in 1 .. n : I[DP + k] \in P.ByteSets[Op.Imm0 + 1]
                /\ DP + n < Len(I) => I[DP + n + 1] \notin P.ByteSets[Op.Imm0 + 1]
                /\ advance(n)
    /\ Frozen

FAIL2X ==
    /\ Fetch("FAIL2X")
    /\ \/ popFault
       \/ popsChoice /\ fail(popCS)
    /\ Frozen

RWNDB ==
    /\ Fetch("RWNDB")
    /\ \/ Op.Imm0 > DP /\ rterr("ErrCountRange", CS)
       \/ /\ Op.Imm0 <= DP
          /\ DP' = Sub64(DP, Op.Imm0)
          /\ XP' = NextXP
          /\ ret' = "nil"
          /\ UNCHANGED <<KS, CS, R>>
    /\ Frozen

\* "x.KS = append(x.KS, ...)": ks is KS with what the instruction records.
assign(ks) ==
    /\ Len(ks) <= MaxKS
    /\ KS' = ks
    /\ XP' = NextXP
    /\ ret' = "nil"
    /\ UNCHANGED <<DP, CS, R>>

\* Faulty variant: off by one.
noCapture_OffByOne == Op.Imm0 > P.Captures

noCapture == Op.Imm0 >= P.Captures

Mark(isEnd, dp) == [Index |-> Op.Imm0, IsEnd |-> isEnd, DP |-> dp]

FCAP ==
    /\ Fetch("FCAP")
    /\ \/ noCapture /\ rterr("ErrIndexRange", CS)
       \/ ~ noCapture /\ Op.Imm1 > DP /\ rterr("ErrCountRange", CS)
       \/ /\ ~ noCapture
          /\ Op.Imm1 <= DP
          /\ assign(Append(Append(KS, Mark(FALSE, Sub64(DP, Op.Imm1))), Mark(TRUE, DP)))
    /\ Frozen

BCAP ==
    /\ Fetch("BCAP")
    /\ \/ noCapture /\ rterr("ErrIndexRange", CS)
       \/ ~ noCapture /\ assign(Append(KS, Mark(FALSE, DP)))
    /\ Frozen

ECAP ==
    /\ Fetch("ECAP")
    /\ \/ noCapture /\ rterr("ErrIndexRange", CS)
       \/ ~ noCapture /\ assign(Append(KS, Mark(TRUE, DP)))
    /\ Frozen

GIVEUP ==
    /\ Fetch("GIVEUP")
    /\ R' = "Failure"
    /\ KS' = <<>>
    /\ XP' = NextXP
    /\ ret' = "nil"
    /\ UNCHANGED <<P, I, DP, CS>>

END ==
    /\ Fetch("END")
    /\ R' = "Success"
    /\ XP' = NextXP
    /\ ret' = "nil"
    /\ UNCHANGED <<P, I, DP, KS, CS>>

-----------------------------------------------------------------------------

Step ==
    \/ StepHalted \/ StepEOF \/ StepBadOp
    \/ NOP \/ CHOICE \/ COMMIT \/ FAIL \/ ANYB \/ SAMEB \/ LITB \/ MATCHB
    \/ JMP \/ CALL \/ RET \/ TANYB \/ TSAMEB \/ TLITB \/ TMATCHB
    \/ PCOMMIT \/ BCOMMIT \/ SPANB \/ FAIL2X \/ RWNDB
    \/ FCAP \/ BCAP \/ ECAP \/ GIVEUP \/ END

Spec == Init /\ [][Step]_vars

\* Execution.Run calls Step for as long as the machine runs.
FairSpec == Spec /\ WF_vars(Step)

-----------------------------------------------------------------------------
(* Properties. *)

\* The type of the state.
TypeOK ==
    /\ IsProgram(P)
    /\ I \in Seq(Byte) /\ Len(I) <= MaxU64
    /\ DP \in U64
    /\ XP \in U64
    /\ KS \in Seq(Assignment)
    /\ CS \in Seq(Frame)
    /\ R \in ExecutionState
    /\ ret \in Errors \cup {"nil", "panic"}

\* The data pointer never passes the end of the input, now or after a
\* backtrack: otherwise availableBytes, an unsigned subtraction, wraps to a
\* huge number and the byte loops of matchN, matchLit index out of range.
DataPointersInBounds ==
    /\ DP <= Len(I)
    /\ \A i \in DOMAIN CS : CS[i].DP <= Len(I)

AssignmentsInBounds(ks) ==
    \A k \in DOMAIN ks : ks[k].Index < P.Captures /\ ks[k].DP <= Len(I)

\* Every recorded assignment, current or saved in a frame, names a capture of
\* the program and a position of the input: Match's "capture out of range"
\* panic cannot happen and the captures it returns can be sliced out of I.
CapturesInBounds ==
    /\ AssignmentsInBounds(KS)
    /\ \A i \in DOMAIN CS : AssignmentsInBounds(CS[i].KS)

RewindFree(p) == \A xp \in DOMAIN p.Ops : p.Ops[xp].Code # "RWNDB"

\* The rules for the two stacks that the comments of KS and CS state.
BT == INSTANCE Backtracking WITH rewinds <- ~ RewindFree(P)

\* Every step of the machine, panics and error returns included, is one of the
\* permitted moves of the two stacks: frames below the one that is popped,
\* refreshed or returned to are never touched, captures are only appended or
\* restored, together with the data pointer, from a choice frame.
ImplementsBacktracking == BT!Spec

\* Step saves KS in frames without copying it.  That is sound because the
\* capture stack is append-only between backtracks: what the choice frames
\* saved, from the bottom frame to the top one and then to the current KS, is
\* a chain of prefixes, whatever the program does.
SavedCapturesArePrefixes == BT!SavedCapturesArePrefixes

\* In a program without RWNDB no capture, current or saved, lies ahead of the
\* data pointer it goes with, nor of an end that is recorded after it: a
\* capture of such a program never ends before it starts.
CapturesNeverAhead == BT!CapturesNeverAhead

\* A failed or faulted execution reports no captures, whichever of the many
\* exits of Step halted it.
NoCapturesUnlessLive == BT!NoCapturesUnlessLive

\* Backtrack to the i-th frame, the frames above it being given up.
Resumes(i) ==
    /\ R' = "Running"
    /\ Len(CS') = i - 1
    /\ DP' = CS[i].DP /\ XP' = CS[i].XP /\ KS' = CS[i].KS

\* Choice is ordered: alternatives are tried latest first and none is skipped,
\* however many calls and choices are pending.  A choice frame leaves the stack
\* when the machine resumes it, or as the top frame of an instruction that
\* gives up one alternative; so fail does not stop at a call frame, does not
\* pass over a choice frame, and ends the match only if none is left.
NoAlternativeSkipped ==
    [][\A i \in DOMAIN CS :
          CS[i].IsChoice /\ i > Len(CS') =>
             \/ Resumes(i)
             \/ i = Len(CS) /\ Op.Code \in {"COMMIT", "PCOMMIT", "BCOMMIT", "FAIL2X", "RET"}]_vars

\* "RET pops a CALL/RET frame and restores it": a subroutine returns.
RetReturnsFromCall ==
    [][Fetch("RET") /\ CS # <<>> /\ ~ top.IsChoice =>
          R' = "Running" /\ XP' = top.XP /\ CS' = popCS]_vars

ForwardOnly(p) ==
    \A xp \in DOMAIN p.Ops : p.Ops[xp].Code \in OffsetCodes => p.Ops[xp].Imm0 >= 0

\* Without backward offsets there is no infinite loop: backtracking alone
\* (FAIL, FAIL2X, RET to a choice frame) cannot keep the machine running,
\* because each frame is gone once it has been resumed.
ForwardTerminates == ForwardOnly(P) => <>(R # "Running")

=============================================================================
