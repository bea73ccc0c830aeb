-------------------------- MODULE Execution_proofs --------------------------
(***************************************************************************)
(* Proofs about the machine, for every program, input and bound: first     *)
(* about Execution by itself, then that Execution implements Backtracking  *)
(* and inherits what is proved about it, about CaptureSlices, for every    *)
(* way in which append may enlarge arrays, and last what Program.Match     *)
(* returns: it runs the machine, so the machine's theorems hold of it, and *)
(* its loop over the capture stack turns what they say about marks into    *)
(* what a caller may rely on in a Result.                                  *)
(***************************************************************************)
EXTENDS CaptureSlices, Match, TLAPS, FiniteSetTheorems, WellFoundedInduction

-----------------------------------------------------------------------------
(* The instruction that Step fetches. *)

\* A decoded instruction has well-typed immediates and ends inside the program.
LEMMA FetchType ==
    ASSUME TypeOK, NEW code, Fetch(code), code # "BAD"
    PROVE  /\ Op.Code = code
           /\ Op.Imm0 \in Int
           /\ code \notin OffsetCodes => Op.Imm0 \in Nat
           /\ Op.Imm1 \in Nat
           /\ Op.Imm2 \in Nat
           /\ NextXP \in U64
<1>1. P.Len \in U64 /\ XP \in 0 .. P.Len - 1
  BY MaxU64Assumption DEF TypeOK, IsProgram, Fetch, U64
<1>2. Op \in Ops
  BY <1>1, Zenon DEF TypeOK, IsProgram, Op
<1>3. Op.Code = code /\ XP + Op.Len <= P.Len
  BY <1>1 DEF Fetch, Op, TypeOK, IsProgram
<1>4. QED
  BY <1>1, <1>2, <1>3, MaxU64Assumption DEF Ops, NextXP, U64

\* The literals and byte sets that instructions refer to.
LEMMA TableTypes ==
    ASSUME TypeOK
    PROVE  /\ P.Captures \in Nat
           /\ Len(P.Literals) \in Nat
           /\ \A k \in 0 .. Len(P.Literals) - 1 : Len(P.Literals[k + 1]) \in Nat
           /\ Len(P.ByteSets) \in Nat
           /\ Len(I) \in U64
  BY SMTT(40), MaxU64Assumption DEF TypeOK, IsProgram, U64

-----------------------------------------------------------------------------
(* Bounds: TypeOK, DataPointersInBounds and CapturesInBounds together. *)

Bounds == TypeOK /\ DataPointersInBounds /\ CapturesInBounds

\* What Bounds says of a control stack, or of the part left after a pop.
GoodStack(cs) ==
    /\ cs \in Seq(Frame)
    /\ \A i \in DOMAIN cs : cs[i].DP <= Len(I) /\ AssignmentsInBounds(cs[i].KS)

GoodCaptures(caps) == caps \in Seq(Assignment) /\ AssignmentsInBounds(caps)

\* Appending a good assignment.
LEMMA AppendGood ==
    ASSUME NEW caps, GoodCaptures(caps), NEW a \in Assignment,
           a.Index < P.Captures, a.DP <= Len(I)
    PROVE  GoodCaptures(Append(caps, a))
  BY DEF GoodCaptures, AssignmentsInBounds

\* Bounds holds after a step that leaves good values in every register.
LEMMA BoundsNext ==
    ASSUME Bounds, UNCHANGED <<P, I>>,
           DP' \in U64, DP' <= Len(I), XP' \in U64,
           GoodCaptures(KS'), GoodStack(CS'),
           R' \in ExecutionState, ret' \in Errors \cup {"nil", "panic"}
    PROVE  Bounds'
  BY DEF Bounds, TypeOK, DataPointersInBounds, CapturesInBounds, GoodStack,
         GoodCaptures, AssignmentsInBounds

\* The registers before the step, the stack without its top frame, and that
\* frame, are good.
LEMMA GoodBefore ==
    ASSUME Bounds
    PROVE  /\ GoodCaptures(KS) /\ GoodStack(CS)
           /\ DP \in U64 /\ DP <= Len(I)
           /\ R \in ExecutionState
           /\ GoodCaptures(<<>>) /\ GoodStack(<<>>)
           /\ CS # <<>> => /\ GoodStack(popCS)
                           /\ top.DP \in U64 /\ top.DP <= Len(I)
                           /\ top.XP \in U64
                           /\ GoodCaptures(top.KS)
<1>1. /\ GoodCaptures(KS) /\ GoodStack(CS)
      /\ DP \in U64 /\ DP <= Len(I) /\ R \in ExecutionState
      /\ GoodCaptures(<<>>) /\ GoodStack(<<>>)
  BY DEF Bounds, TypeOK, DataPointersInBounds, CapturesInBounds, GoodStack,
         GoodCaptures, AssignmentsInBounds
<1>2. ASSUME CS # <<>>
      PROVE  Len(CS) \in DOMAIN CS /\ top \in Frame
  BY <1>1, <1>2 DEF GoodStack, top
<1>3. ASSUME CS # <<>> PROVE GoodStack(popCS)
  BY <1>1, <1>3 DEF GoodStack, popCS
<1>4. QED
  BY <1>1, <1>2, <1>3 DEF GoodStack, GoodCaptures, top, Frame

\* The unsigned subtraction of availableBytes does not wrap.
LEMMA Available ==
    ASSUME Bounds
    PROVE  availableBytes \in Nat /\ availableBytes = Len(I) - DP
<1>1. Len(I) \in U64
  BY TableTypes DEF Bounds
<1>2. QED
  BY <1>1, GoodBefore, MaxU64Assumption DEF availableBytes, Sub64, U64

-----------------------------------------------------------------------------
(* Each way a Step can end keeps Bounds. *)

\* A runtime error.
LEMMA BoundsRterr ==
    ASSUME Bounds, Frozen, NextXP \in U64, NEW e \in Errors,
           NEW cs, GoodStack(cs), rterr(e, cs)
    PROVE  Bounds'
  BY BoundsNext, GoodBefore DEF rterr, Frozen, ExecutionState

\* A failure: backtracking to a choice frame, or the end of the match.
LEMMA BoundsFail ==
    ASSUME Bounds, Frozen, NextXP \in U64, NEW cs, GoodStack(cs), fail(cs)
    PROVE  Bounds'
<1>1. CASE \A i \in DOMAIN cs : ~ cs[i].IsChoice
  <2>1. CS' = <<>> /\ KS' = <<>> /\ XP' = NextXP /\ R' = "Failure" /\ DP' = DP
    BY <1>1 DEF fail
  <2>2. QED
    BY <2>1, BoundsNext, GoodBefore DEF fail, Frozen, ExecutionState
<1>2. CASE \E i \in DOMAIN cs : cs[i].IsChoice
  <2>1. PICK i \in DOMAIN cs : resume(cs[i], SubSeq(cs, 1, i - 1))
    BY <1>2 DEF fail
  <2>2. GoodStack(SubSeq(cs, 1, i - 1))
    BY DEF GoodStack
  <2>3. /\ cs[i].DP \in U64 /\ cs[i].DP <= Len(I) /\ cs[i].XP \in U64
        /\ GoodCaptures(cs[i].KS)
    <3>1. cs[i] \in Frame
      BY DEF GoodStack
    <3>2. QED
      BY <3>1 DEF GoodStack, GoodCaptures, Frame
  <2>4. QED
    BY <2>1, <2>2, <2>3, BoundsNext, GoodBefore DEF fail, resume, Frozen
<1>3. QED
  BY <1>1, <1>2

\* Consuming bytes that are there.
LEMMA BoundsAdvance ==
    ASSUME Bounds, Frozen, NextXP \in U64, NEW n \in Nat,
           n <= availableBytes, advance(n)
    PROVE  Bounds'
<1>1. Len(I) \in U64
  BY TableTypes DEF Bounds
<1>2. DP + n <= Len(I) /\ DP' = DP + n
  BY <1>1, GoodBefore, MaxU64Assumption DEF advance, availableBytes, Add64, Sub64, U64
<1>3. QED
  BY <1>1, <1>2, BoundsNext, GoodBefore, MaxU64Assumption DEF advance, Frozen, U64

\* addOffset, whether or not it panics.
LEMMA OffsetType ==
    ASSUME NextXP \in U64, NEW s \in Int, addOffset(s)
    PROVE  XP' \in U64 /\ ret' \in {"nil", "panic"}
  BY DEF addOffset

\* The checks after popCS.
LEMMA BoundsPopFault ==
    ASSUME Bounds, Frozen, NextXP \in U64, popFault
    PROVE  Bounds'
  BY BoundsRterr, GoodBefore DEF popFault, Errors

-----------------------------------------------------------------------------
(* Every instruction keeps Bounds. *)

\* Bounds for the instructions that match, jump or only halt.
LEMMA BoundsMatching ==
    ASSUME Bounds,
           NOP \/ FAIL \/ ANYB \/ SAMEB \/ LITB \/ MATCHB \/ SPANB \/ RWNDB
    PROVE  Bounds'
<1>1. TypeOK
  BY DEF Bounds
<1>2. ASSUME NEW good \in BOOLEAN, NEW n \in Nat, good => n <= availableBytes,
             NextXP \in U64, advanceOrFail(good, n), Frozen
      PROVE  Bounds'
  BY <1>2, BoundsAdvance, BoundsFail, GoodBefore DEF advanceOrFail
<1>3. CASE NOP
  BY <1>1, <1>3, Available, FetchType, BoundsAdvance DEF NOP
<1>4. CASE FAIL
  BY <1>1, <1>4, FetchType, BoundsFail, GoodBefore DEF FAIL
<1>5. CASE ANYB
  <2>1. Op.Imm0 \in Nat /\ NextXP \in U64 /\ Frozen
    BY <1>1, <1>5, FetchType DEF ANYB, OffsetCodes
  <2>2. QED
    BY <1>5, <2>1, Available, BoundsAdvance, BoundsFail, GoodBefore
       DEF ANYB, advanceOrFail
<1>6. CASE SAMEB
  BY <1>1, <1>2, <1>6, FetchType, Zenon DEF SAMEB, matchN
<1>7. CASE LITB
  <2>1. Op.Imm0 \in Nat /\ NextXP \in U64 /\ Fetch("LITB") /\ Frozen
    BY <1>1, <1>7, FetchType DEF LITB, OffsetCodes
  <2>2. CASE Op.Imm0 >= Len(P.Literals) /\ rterr("ErrIndexRange", CS)
    BY <2>1, <2>2, BoundsRterr, GoodBefore DEF Errors
  <2>3. CASE /\ Op.Imm0 < Len(P.Literals)
             /\ advanceOrFail(matchLit(P.Literals[Op.Imm0 + 1]), Len(P.Literals[Op.Imm0 + 1]))
    <3>1. Len(P.Literals[Op.Imm0 + 1]) \in Nat
      BY <1>1, <2>1, <2>3, TableTypes
    <3>2. QED
      BY <1>2, <2>1, <2>3, <3>1, Available, Zenon DEF matchLit
  <2>4. QED
    BY <1>7, <2>2, <2>3 DEF LITB
<1>8. CASE MATCHB
  <2>1. /\ Op.Imm0 \in Nat /\ Op.Imm1 \in Nat /\ NextXP \in U64
        /\ Fetch("MATCHB") /\ Frozen
    BY <1>1, <1>8, FetchType DEF MATCHB, OffsetCodes
  <2>2. CASE Op.Imm0 >= Len(P.ByteSets) /\ rterr("ErrIndexRange", CS)
    BY <2>1, <2>2, BoundsRterr, GoodBefore DEF Errors
  <2>3. CASE advanceOrFail(matchN(P.ByteSets[Op.Imm0 + 1], Op.Imm1), Op.Imm1)
    BY <1>2, <2>1, <2>3, Zenon DEF matchN
  <2>4. QED
    BY <1>8, <2>2, <2>3 DEF MATCHB
<1>9. CASE SPANB
  <2>1. NextXP \in U64 /\ Frozen
    BY <1>1, <1>9, FetchType DEF SPANB
  <2>2. CASE rterr("ErrIndexRange", CS)
    BY <2>1, <2>2, BoundsRterr, GoodBefore DEF Errors
  <2>3. ASSUME NEW n \in 0 .. Len(I) - DP, advance(n)
        PROVE  Bounds'
    BY <2>1, <2>3, BoundsAdvance, Available
  <2>4. QED
    BY <1>9, <2>2, <2>3 DEF SPANB
<1>10. CASE RWNDB
  <2>1. Op.Imm0 \in Nat /\ NextXP \in U64 /\ Frozen
    BY <1>1, <1>10, FetchType DEF RWNDB, OffsetCodes
  <2>2. CASE rterr("ErrCountRange", CS)
    BY <2>1, <2>2, BoundsRterr, GoodBefore DEF Errors
  <2>3. CASE /\ Op.Imm0 <= DP /\ DP' = Sub64(DP, Op.Imm0) /\ XP' = NextXP
             /\ ret' = "nil" /\ UNCHANGED <<KS, CS, R>>
    <3>1. Len(I) \in U64
      BY <1>1, TableTypes
    <3>2. DP' \in U64 /\ DP' <= Len(I)
      BY <2>1, <2>3, <3>1, GoodBefore, MaxU64Assumption DEF Sub64, U64
    <3>3. QED
      BY <2>1, <2>3, <3>2, BoundsNext, GoodBefore DEF Frozen
  <2>4. QED
    BY <1>10, <2>2, <2>3 DEF RWNDB
<1>11. QED
  BY <1>3, <1>4, <1>5, <1>6, <1>7, <1>8, <1>9, <1>10

\* Bounds for the instructions that jump.
LEMMA BoundsJumping ==
    ASSUME Bounds, JMP \/ TANYB \/ TSAMEB \/ TLITB \/ TMATCHB
    PROVE  Bounds'
<1>1. TypeOK
  BY DEF Bounds
<1>2. ASSUME NEW s \in Int, NextXP \in U64, addOffset(s),
             UNCHANGED <<P, I, DP, KS, CS, R>>
      PROVE  Bounds'
  BY <1>2, OffsetType, BoundsNext, GoodBefore
<1>3. ASSUME NEW good \in BOOLEAN, NEW n \in Nat, good => n <= availableBytes,
             NEW s \in Int, NextXP \in U64, advanceOrJump(good, n, s), Frozen
      PROVE  Bounds'
  BY <1>2, <1>3, BoundsAdvance DEF advanceOrJump, Frozen
<1>4. CASE JMP
  BY <1>1, <1>2, <1>4, FetchType DEF JMP
<1>5. CASE TANYB
  <2>1. Op.Imm0 \in Int /\ Op.Imm1 \in Nat /\ NextXP \in U64 /\ Frozen
    BY <1>1, <1>5, FetchType DEF TANYB
  <2>2. QED
    BY <1>2, <1>5, <2>1, Available, BoundsAdvance DEF TANYB, advanceOrJump, Frozen
<1>6. CASE TSAMEB
  BY <1>1, <1>3, <1>6, FetchType, Zenon DEF TSAMEB, matchN
<1>7. CASE TLITB
  <2>1. Op.Imm0 \in Int /\ Op.Imm1 \in Nat /\ NextXP \in U64 /\ Frozen
    BY <1>1, <1>7, FetchType DEF TLITB
  <2>2. CASE rterr("ErrIndexRange", CS)
    BY <2>1, <2>2, BoundsRterr, GoodBefore DEF Errors
  <2>3. CASE /\ Op.Imm1 < Len(P.Literals)
             /\ advanceOrJump(matchLit(P.Literals[Op.Imm1 + 1]),
                              Len(P.Literals[Op.Imm1 + 1]), Op.Imm0)
    <3>1. Len(P.Literals[Op.Imm1 + 1]) \in Nat
      BY <1>1, <2>1, <2>3, TableTypes
    <3>2. QED
      BY <1>3, <2>1, <2>3, <3>1, Available, Zenon DEF matchLit
  <2>4. QED
    BY <1>7, <2>2, <2>3 DEF TLITB
<1>8. CASE TMATCHB
  <2>1. /\ Op.Imm0 \in Int /\ Op.Imm1 \in Nat /\ Op.Imm2 \in Nat
        /\ NextXP \in U64 /\ Frozen
    BY <1>1, <1>8, FetchType DEF TMATCHB
  <2>2. CASE rterr("ErrIndexRange", CS)
    BY <2>1, <2>2, BoundsRterr, GoodBefore DEF Errors
  <2>3. CASE advanceOrJump(matchN(P.ByteSets[Op.Imm1 + 1], Op.Imm2), Op.Imm2, Op.Imm0)
    BY <1>3, <2>1, <2>3, Zenon DEF matchN
  <2>4. QED
    BY <1>8, <2>2, <2>3 DEF TMATCHB
<1>9. QED
  BY <1>4, <1>5, <1>6, <1>7, <1>8

\* Bounds for the instructions that push and pop frames.
LEMMA BoundsStack ==
    ASSUME Bounds, CHOICE \/ COMMIT \/ CALL \/ RET \/ PCOMMIT \/ BCOMMIT \/ FAIL2X
    PROVE  Bounds'
<1>1. TypeOK
  BY DEF Bounds
<1>2. ASSUME NEW cs, GoodStack(cs), NEW fr \in Frame, fr.DP <= Len(I),
             AssignmentsInBounds(fr.KS)
      PROVE  GoodStack(Append(cs, fr))
  BY <1>2 DEF GoodStack
<1>3. ASSUME NEW s \in Int, NEW b \in BOOLEAN, NextXP + s \in U64
      PROVE  [IsChoice |-> TRUE, DP |-> DP, XP |-> NextXP + s, KS |-> KS] \in Frame
  BY <1>3, GoodBefore DEF Frame, GoodCaptures
<1>4. CASE CHOICE
  <2>1. NextXP \in U64 /\ Op.Imm0 \in Int
    BY <1>1, <1>4, FetchType DEF CHOICE
  <2>2. GoodStack(CS')
    BY <1>2, <1>3, <1>4, <2>1, GoodBefore, Zenon DEF CHOICE, GoodCaptures
  <2>3. QED
    BY <1>4, <2>1, <2>2, BoundsNext, GoodBefore DEF CHOICE
<1>5. CASE COMMIT
  <2>1. NextXP \in U64 /\ Op.Imm0 \in Int /\ Frozen
    BY <1>1, <1>5, FetchType DEF COMMIT
  <2>2. CASE popFault
    BY <2>1, <2>2, BoundsPopFault
  <2>3. CASE /\ popsChoice /\ CS' = popCS /\ addOffset(Op.Imm0)
             /\ UNCHANGED <<DP, KS, R>>
    BY <2>1, <2>3, OffsetType, BoundsNext, GoodBefore DEF popsChoice, Frozen
  <2>4. QED
    BY <1>5, <2>2, <2>3 DEF COMMIT
<1>6. CASE CALL
  <2>1. NextXP \in U64 /\ Op.Imm0 \in Int
    BY <1>1, <1>6, FetchType DEF CALL
  <2>2. /\ [IsChoice |-> FALSE, DP |-> 0, XP |-> NextXP, KS |-> <<>>] \in Frame
        /\ AssignmentsInBounds(<<>>) /\ 0 <= Len(I)
    BY <1>1, <2>1, TableTypes, MaxU64Assumption DEF Frame, U64, AssignmentsInBounds
  <2>3. GoodStack(CS')
    BY <1>2, <1>6, <2>2, GoodBefore DEF CALL
  <2>4. QED
    BY <1>6, <2>1, <2>3, OffsetType, BoundsNext, GoodBefore DEF CALL
<1>7. CASE RET
  <2>1. NextXP \in U64 /\ Frozen
    BY <1>1, <1>7, FetchType DEF RET
  <2>2. CASE rterr("ErrEmptyStack", CS)
    BY <2>1, <2>2, BoundsRterr, GoodBefore DEF Errors
  <2>3. CASE CS # <<>> /\ rterr("ErrChoiceFailFrame", popCS)
    BY <2>1, <2>3, BoundsRterr, GoodBefore DEF Errors
  <2>4. CASE /\ popsChoice /\ CS' = popCS /\ XP' = top.XP
             /\ ret' = "nil" /\ UNCHANGED <<DP, KS, R>>
    BY <2>1, <2>4, BoundsNext, GoodBefore DEF popsChoice, Frozen
  <2>5. QED
    BY <1>7, <2>2, <2>3, <2>4 DEF RET
<1>8. CASE PCOMMIT
  <2>1. NextXP \in U64 /\ Op.Imm0 \in Int /\ Frozen
    BY <1>1, <1>8, FetchType DEF PCOMMIT
  <2>2. CASE popFault
    BY <2>1, <2>2, BoundsPopFault
  <2>3. CASE popsChoice /\ ~ popFault
    <3>1. /\ XP' = NextXP /\ ret' \in {"nil", "panic"} /\ UNCHANGED <<DP, KS, R>>
          /\ \/ CS' = popCS
             \/ /\ NextXP + Op.Imm0 \in U64
                /\ CS' = Append(popCS, [IsChoice |-> TRUE, DP |-> DP,
                                            XP |-> NextXP + Op.Imm0, KS |-> KS])
      BY <1>8, <2>3 DEF PCOMMIT
    <3>2. GoodStack(CS')
      BY <1>2, <1>3, <2>1, <2>3, <3>1, GoodBefore, Zenon DEF popsChoice, GoodCaptures
    <3>3. QED
      BY <2>1, <3>1, <3>2, BoundsNext, GoodBefore DEF Frozen
  <2>4. QED
    BY <1>8, <2>2, <2>3 DEF PCOMMIT
<1>9. CASE BCOMMIT
  <2>1. NextXP \in U64 /\ Op.Imm0 \in Int /\ Frozen
    BY <1>1, <1>9, FetchType DEF BCOMMIT
  <2>2. CASE popFault
    BY <2>1, <2>2, BoundsPopFault
  <2>3. CASE /\ popsChoice /\ CS' = popCS /\ DP' = top.DP
             /\ KS' = top.KS /\ addOffset(Op.Imm0) /\ UNCHANGED R
    BY <2>1, <2>3, OffsetType, BoundsNext, GoodBefore DEF popsChoice, Frozen
  <2>4. QED
    BY <1>9, <2>2, <2>3 DEF BCOMMIT
<1>10. CASE FAIL2X
  <2>1. NextXP \in U64 /\ Frozen
    BY <1>1, <1>10, FetchType DEF FAIL2X
  <2>2. QED
    BY <1>10, <2>1, BoundsPopFault, BoundsFail, GoodBefore DEF FAIL2X, popsChoice
<1>11. QED
  BY <1>4, <1>5, <1>6, <1>7, <1>8, <1>9, <1>10

\* Bounds for the instructions that record captures.
LEMMA BoundsCapture ==
    ASSUME Bounds, FCAP \/ BCAP \/ ECAP
    PROVE  Bounds'
<1>1. TypeOK
  BY DEF Bounds
<1>2. ASSUME NEW caps, GoodCaptures(caps), assign(caps), NextXP \in U64, Frozen
      PROVE  Bounds'
  BY <1>2, BoundsNext, GoodBefore DEF assign, Frozen
<1>3. /\ Op.Imm0 \in Nat /\ Op.Imm1 \in Nat /\ NextXP \in U64 /\ Frozen
  <2>1. PICK code \in {"FCAP", "BCAP", "ECAP"} : Fetch(code)
    BY Zenon DEF FCAP, BCAP, ECAP
  <2>2. QED
    BY <1>1, <2>1, FetchType, Zenon DEF FCAP, BCAP, ECAP, OffsetCodes
<1>4. ASSUME NEW caps, GoodCaptures(caps), NEW dp \in U64, dp <= Len(I),
             NEW b \in BOOLEAN, ~ noCapture
      PROVE  GoodCaptures(Append(caps, Mark(b, dp)))
  <2>1. Mark(b, dp) \in Assignment
    BY <1>3, <1>4 DEF Mark, Assignment
  <2>2. Mark(b, dp).Index < P.Captures /\ Mark(b, dp).DP <= Len(I)
    BY <1>1, <1>3, <1>4, TableTypes DEF Mark, noCapture
  <2>3. QED
    BY <1>4, <2>1, <2>2, AppendGood
<1>5. CASE rterr("ErrIndexRange", CS) \/ rterr("ErrCountRange", CS)
  BY <1>3, <1>5, BoundsRterr, GoodBefore DEF Errors
<1>6. CASE /\ ~ noCapture
           /\ assign(Append(KS, Mark(FALSE, DP))) \/ assign(Append(KS, Mark(TRUE, DP)))
  BY <1>2, <1>3, <1>4, <1>6, GoodBefore, Zenon
<1>7. CASE /\ ~ noCapture /\ Op.Imm1 <= DP
           /\ assign(Append(Append(KS, Mark(FALSE, Sub64(DP, Op.Imm1))), Mark(TRUE, DP)))
  <2>1. Len(I) \in U64
    BY <1>1, TableTypes
  <2>2. Sub64(DP, Op.Imm1) \in U64 /\ Sub64(DP, Op.Imm1) <= Len(I)
    BY <1>3, <1>7, <2>1, GoodBefore, MaxU64Assumption DEF Sub64, U64
  <2>3. GoodCaptures(Append(KS, Mark(FALSE, Sub64(DP, Op.Imm1))))
    BY <1>4, <1>7, <2>2, GoodBefore, Zenon
  <2>4. QED
    BY <1>2, <1>3, <1>4, <1>7, <2>3, GoodBefore, Zenon
<1>8. QED
  BY <1>5, <1>6, <1>7, Zenon DEF FCAP, BCAP, ECAP

\* Initially and after every step.
LEMMA BoundsInvariant == Spec => []Bounds
<1>1. Init => Bounds
  <2>. SUFFICES ASSUME Init PROVE Bounds
    OBVIOUS
  <2>1. TypeOK
    BY MaxU64Assumption, ProgramsAssumption, InputsAssumption
       DEF Init, TypeOK, U64, ExecutionState
  <2>2. DataPointersInBounds /\ CapturesInBounds
    BY InputsAssumption DEF Init, DataPointersInBounds, CapturesInBounds, AssignmentsInBounds
  <2>3. QED
    BY <2>1, <2>2 DEF Bounds
<1>2. Bounds /\ [Step]_vars => Bounds'
  <2>. SUFFICES ASSUME Bounds, [Step]_vars PROVE Bounds'
    OBVIOUS
  <2>1. XP \in U64 /\ ret \in Errors \cup {"nil", "panic"}
    BY DEF Bounds, TypeOK
  <2>2. CASE StepHalted \/ StepEOF \/ StepBadOp \/ UNCHANGED vars
    BY <2>1, <2>2, BoundsNext, GoodBefore
       DEF StepHalted, StepEOF, StepBadOp, vars, ExecutionState, Errors
  <2>3. CASE GIVEUP \/ END
    BY <2>3, FetchType, BoundsNext, GoodBefore
       DEF GIVEUP, END, ExecutionState, Bounds
  <2>4. QED
    BY <2>2, <2>3, BoundsMatching, BoundsJumping, BoundsStack, BoundsCapture DEF Step
<1>3. QED
  BY <1>1, <1>2, PTL DEF Spec

-----------------------------------------------------------------------------
(* The theorems. *)

\* The state of an execution is always well typed.
THEOREM TypeCorrect == Spec => []TypeOK
  BY BoundsInvariant, PTL DEF Bounds

\* The data pointer, and every data pointer a backtrack may restore, stays
\* within the input: availableBytes never wraps, no input read is out of range.
THEOREM DataPointersTheorem == Spec => []DataPointersInBounds
  BY BoundsInvariant, PTL DEF Bounds

\* Every capture assignment names a capture of the program and a position of
\* the input.
THEOREM CapturesTheorem == Spec => []CapturesInBounds
  BY BoundsInvariant, PTL DEF Bounds

-----------------------------------------------------------------------------
(* Choice is ordered. *)

\* A step that passes over no alternative.
InOrder ==
    \A i \in DOMAIN CS :
        CS[i].IsChoice /\ i > Len(CS') =>
           \/ Resumes(i)
           \/ i = Len(CS) /\ Op.Code \in {"COMMIT", "PCOMMIT", "BCOMMIT", "FAIL2X", "RET"}

\* A step that makes the stack no shorter.
LEMMA InOrderKeep ==
    ASSUME TypeOK, Len(CS') \in Nat, Len(CS') >= Len(CS)
    PROVE  InOrder
  BY DEF TypeOK, InOrder

\* popCS removes one frame.
LEMMA Popped ==
    ASSUME TypeOK, CS # <<>>
    PROVE  popCS \in Seq(Frame) /\ Len(popCS) = Len(CS) - 1
<1>1. CS \in Seq(Frame) /\ Len(CS) \in Nat /\ Len(CS) > 0 /\ Len(CS) - 1 \in Nat
  BY DEF TypeOK
<1>2. ASSUME NEW n \in Nat
      PROVE  Len(SubSeq(CS, 1, n)) = n
  OBVIOUS
<1>3. popCS \in Seq(Frame)
  BY <1>1 DEF popCS
<1>4. Len(popCS) = Len(CS) - 1
  BY <1>1, <1>2, Zenon DEF popCS
<1>5. QED
  BY <1>3, <1>4

\* A runtime error drops no choice frame.
LEMMA InOrderRterr ==
    ASSUME TypeOK, NEW e, NEW cs, rterr(e, cs),
           cs = CS \/ (CS # <<>> /\ ~ top.IsChoice /\ cs = popCS)
    PROVE  InOrder
<1>1. CS \in Seq(Frame) /\ CS' = cs
  BY DEF TypeOK, rterr
<1>2. CASE cs = CS
  BY <1>1, <1>2, InOrderKeep
<1>3. CASE CS # <<>> /\ ~ top.IsChoice /\ cs = popCS
  <2>1. Len(CS') = Len(CS) - 1
    BY <1>1, <1>3, Popped, Zenon
  <2>2. QED
    BY <1>1, <1>3, <2>1 DEF InOrder, top
<1>4. QED
  BY <1>2, <1>3

\* A failure resumes the topmost choice frame of cs, if there is one.
LEMMA InOrderFail ==
    ASSUME TypeOK, R = "Running", NEW cs, fail(cs),
           cs = CS \/ (Op.Code = "FAIL2X" /\ CS # <<>> /\ cs = popCS)
    PROVE  InOrder
<1>1. CS \in Seq(Frame)
  BY DEF TypeOK
<1>2. /\ Len(cs) \in Nat /\ DOMAIN cs = 1 .. Len(cs)
      /\ \A i \in DOMAIN cs : cs[i] = CS[i]
      /\ \A i \in DOMAIN CS : i \notin DOMAIN cs => i = Len(CS) /\ Op.Code = "FAIL2X"
  BY <1>1 DEF popCS
<1>3. CASE \E i \in DOMAIN cs : cs[i].IsChoice
  <2>1. PICK i \in DOMAIN cs : /\ \A j \in i + 1 .. Len(cs) : ~ cs[j].IsChoice
                               /\ resume(cs[i], SubSeq(cs, 1, i - 1))
    BY <1>3 DEF fail
  <2>2. Len(CS') = i - 1
    BY <1>1, <1>2, <2>1 DEF resume, popCS
  <2>3. Resumes(i)
    BY <1>2, <2>1, <2>2 DEF resume, Resumes
  <2>4. ASSUME NEW j \in DOMAIN CS, CS[j].IsChoice, j > Len(CS'), j \in DOMAIN cs
        PROVE  j = i
    BY <1>2, <2>1, <2>2, <2>4
  <2>5. QED
    BY <1>2, <2>3, <2>4, Zenon DEF InOrder
<1>4. CASE \A i \in DOMAIN cs : ~ cs[i].IsChoice
  BY <1>2, <1>4, Zenon DEF InOrder
<1>5. QED
  BY <1>3, <1>4

\* Every step.
LEMMA InOrderStep ==
    ASSUME TypeOK, Step
    PROVE  InOrder
<1>1. CS \in Seq(Frame) /\ Len(CS) \in Nat
  BY DEF TypeOK
<1>2. ASSUME CS' = CS
      PROVE  InOrder
  BY <1>1, <1>2, InOrderKeep
<1>3. ASSUME NEW e, rterr(e, CS)
      PROVE  InOrder
  BY <1>3, InOrderRterr
<1>4. ASSUME popFault
      PROVE  InOrder
  BY <1>4, InOrderRterr DEF popFault
<1>5. ASSUME R = "Running", NEW good, NEW n, advanceOrFail(good, n)
      PROVE  InOrder
  BY <1>2, <1>5, InOrderFail DEF advanceOrFail, advance
<1>6. ASSUME NEW good, NEW n, NEW s, advanceOrJump(good, n, s)
      PROVE  InOrder
  BY <1>2, <1>6 DEF advanceOrJump, advance
<1>7. ASSUME popsChoice, CS' = popCS,
             Op.Code \in {"COMMIT", "PCOMMIT", "BCOMMIT", "FAIL2X", "RET"}
      PROVE  InOrder
  <2>1. Len(CS') = Len(CS) - 1
    BY <1>7, Popped, Zenon DEF popsChoice
  <2>2. QED
    BY <1>1, <1>7, <2>1 DEF InOrder
<1>8. ASSUME NEW cs \in Seq(Frame), NEW fr, CS' = Append(cs, fr), Len(cs) >= Len(CS) - 1
      PROVE  InOrder
  <2>1. Len(CS') = Len(cs) + 1
    BY <1>8
  <2>2. QED
    BY <1>1, <1>8, <2>1, InOrderKeep
<1>9. CASE StepHalted \/ StepEOF \/ StepBadOp \/ NOP \/ JMP \/ GIVEUP \/ END
  BY <1>2, <1>9 DEF StepHalted, StepEOF, StepBadOp, NOP, JMP, GIVEUP, END, advance
<1>10. CASE FAIL \/ ANYB \/ SAMEB \/ LITB \/ MATCHB
  BY <1>3, <1>5, <1>10, InOrderFail, Zenon DEF FAIL, ANYB, SAMEB, LITB, MATCHB, Fetch
<1>11. CASE TANYB \/ TSAMEB \/ TLITB \/ TMATCHB
  BY <1>3, <1>6, <1>11, Zenon DEF TANYB, TSAMEB, TLITB, TMATCHB
<1>12. CASE SPANB \/ RWNDB \/ FCAP \/ BCAP \/ ECAP
  BY <1>2, <1>3, <1>12, Zenon DEF SPANB, RWNDB, FCAP, BCAP, ECAP, advance, assign
<1>13. CASE CHOICE \/ CALL
  BY <1>1, <1>2, <1>8, <1>13 DEF CHOICE, CALL
<1>14. CASE COMMIT \/ BCOMMIT
  BY <1>4, <1>7, <1>14 DEF COMMIT, BCOMMIT, Fetch
<1>15. CASE RET
  BY <1>7, <1>15, InOrderRterr DEF RET, Fetch
<1>16. CASE PCOMMIT
  <2>1. popsChoice => popCS \in Seq(Frame) /\ Len(popCS) = Len(CS) - 1
    BY Popped, Zenon DEF popsChoice
  <2>2. QED
    BY <1>1, <1>4, <1>7, <1>8, <1>16, <2>1 DEF PCOMMIT, Fetch
<1>17. CASE FAIL2X
  BY <1>4, <1>17, InOrderFail DEF FAIL2X, Fetch, popsChoice
<1>18. QED
  BY <1>9, <1>10, <1>11, <1>12, <1>13, <1>14, <1>15, <1>16, <1>17, Zenon DEF Step

\* Whatever the program and the input, backtracking resumes the alternatives
\* latest first and skips none: fail unwinds call frames, stops at the first
\* choice frame, and gives up only when there is none.
THEOREM OrderedChoice == Spec => NoAlternativeSkipped
<1>1. TypeOK /\ Step => InOrder
  BY InOrderStep
<1>2. TypeOK /\ [Step]_vars => [InOrder]_vars
  BY <1>1
<1>3. QED
  BY <1>2, TypeCorrect, PTL DEF Spec, NoAlternativeSkipped, InOrder

-----------------------------------------------------------------------------
(* Execution implements Backtracking. *)

\* A step of Execution, seen as a step of Backtracking.
Simulated == BT!Next \/ UNCHANGED BT!vars

-----------------------------------------------------------------------------
(* The ways a Step ends. *)

\* The types of Execution are types of Backtracking.
LEMMA TypesMap ==
    ASSUME Bounds
    PROVE  /\ DP \in Nat
           /\ Assignment \subseteq BT!Assignment
           /\ Frame \subseteq BT!Frame
<1>1. U64 \subseteq Nat
  BY MaxU64Assumption DEF U64
<1>2. Assignment \subseteq BT!Assignment
  BY <1>1, Zenon DEF Assignment, BT!Assignment
<1>3. Seq(Assignment) \subseteq Seq(BT!Assignment)
  BY <1>2
<1>4. Frame \subseteq BT!Frame
  BY <1>1, <1>3, Zenon DEF Frame, BT!Frame
<1>5. QED
  BY <1>1, <1>2, <1>4 DEF Bounds, TypeOK

\* A runtime error halts.
LEMMA SimulateRterr ==
    ASSUME Bounds, R = "Running", Frozen, NEW e, NEW cs, rterr(e, cs),
           cs = CS \/ (CS # <<>> /\ cs = popCS)
    PROVE  Simulated
<1>1. CS \in Seq(Frame)
  BY DEF Bounds, TypeOK
<1>2. PICK n \in 0 .. Len(CS) : cs = SubSeq(CS, 1, n)
  <2>1. CASE cs = CS
    BY <1>1, <2>1
  <2>2. CASE CS # <<>> /\ cs = popCS
    BY <1>1, <2>2 DEF popCS
  <2>3. QED
    BY <2>1, <2>2
<1>3. BT!Halt
  BY <1>2 DEF BT!Halt, BT!Running, rterr, Frozen
<1>4. QED
  BY <1>3 DEF Simulated, BT!Next

\* A failure restores a choice frame or halts.
LEMMA SimulateFail ==
    ASSUME Bounds, R = "Running", Frozen, NEW cs, fail(cs),
           cs = CS \/ (CS # <<>> /\ cs = popCS)
    PROVE  Simulated
<1>1. CS \in Seq(Frame)
  BY DEF Bounds, TypeOK
<1>2. CASE \E i \in DOMAIN cs : cs[i].IsChoice
  <2>1. PICK i \in DOMAIN cs : cs[i].IsChoice /\ resume(cs[i], SubSeq(cs, 1, i - 1))
    BY <1>2 DEF fail
  <2>2. /\ i \in DOMAIN CS
        /\ cs[i] = CS[i]
        /\ SubSeq(cs, 1, i - 1) = SubSeq(CS, 1, i - 1)
    BY <1>1 DEF popCS
  <2>3. BT!Restore
    BY <2>1, <2>2, Zenon DEF BT!Restore, BT!Running, resume, Frozen
  <2>4. QED
    BY <2>3 DEF Simulated, BT!Next
<1>3. CASE \A i \in DOMAIN cs : ~ cs[i].IsChoice
  <2>1. CS' = <<>> /\ KS' = <<>> /\ R' = "Failure" /\ DP' = DP
    BY <1>3 DEF fail
  <2>2. CS' = SubSeq(CS, 1, 0) /\ 0 \in 0 .. Len(CS)
    BY <1>1, <2>1
  <2>3. BT!Halt
    BY <2>1, <2>2 DEF BT!Halt, BT!Running, Frozen
  <2>4. QED
    BY <2>3 DEF Simulated, BT!Next
<1>4. QED
  BY <1>2, <1>3

\* Consuming input moves the data pointer forward.
LEMMA SimulateAdvance ==
    ASSUME Bounds, R = "Running", Frozen, NEW n \in Nat, n <= availableBytes, advance(n)
    PROVE  Simulated
<1>1. Len(I) \in U64
  BY TableTypes DEF Bounds
<1>2. DP \in Nat /\ DP' = DP + n
  BY <1>1, Available, GoodBefore, MaxU64Assumption DEF advance, Add64, U64
<1>3. BT!Move
  BY <1>2 DEF BT!Move, BT!Running, advance, Frozen
<1>4. QED
  BY <1>3 DEF Simulated, BT!Next

\* A change of the code pointer alone is invisible.
LEMMA SimulateJump ==
    ASSUME UNCHANGED <<P, I, DP, KS, CS, R>>
    PROVE  Simulated
  BY DEF Simulated, BT!vars

\* The checks after popCS.
LEMMA SimulatePopFault ==
    ASSUME Bounds, R = "Running", Frozen, popFault
    PROVE  Simulated
  BY SimulateRterr DEF popFault

-----------------------------------------------------------------------------
(* The instructions. *)

\* Matching instructions.
LEMMA SimulateMatching ==
    ASSUME Bounds,
           NOP \/ FAIL \/ ANYB \/ SAMEB \/ LITB \/ MATCHB \/ SPANB \/ RWNDB
    PROVE  Simulated
<1>1. TypeOK
  BY DEF Bounds
<1>2. R = "Running" /\ Frozen
  BY DEF NOP, FAIL, ANYB, SAMEB, LITB, MATCHB, SPANB, RWNDB, Fetch
<1>3. ASSUME NEW good \in BOOLEAN, NEW n \in Nat, good => n <= availableBytes,
             advanceOrFail(good, n)
      PROVE  Simulated
  BY <1>2, <1>3, SimulateAdvance, SimulateFail DEF advanceOrFail
<1>4. ASSUME NEW e, rterr(e, CS)
      PROVE  Simulated
  BY <1>2, <1>4, SimulateRterr
<1>5. CASE NOP
  BY <1>2, <1>5, Available, SimulateAdvance DEF NOP
<1>6. CASE FAIL
  BY <1>2, <1>6, SimulateFail DEF FAIL
<1>7. CASE ANYB
  <2>1. Op.Imm0 \in Nat
    BY <1>1, <1>7, FetchType DEF ANYB, OffsetCodes
  <2>2. QED
    BY <1>2, <1>7, <2>1, Available, SimulateAdvance, SimulateFail DEF ANYB, advanceOrFail
<1>8. CASE SAMEB
  BY <1>1, <1>3, <1>8, FetchType, Zenon DEF SAMEB, matchN
<1>9. CASE LITB
  <2>1. Op.Imm0 \in Nat
    BY <1>1, <1>9, FetchType DEF LITB, OffsetCodes
  <2>2. CASE /\ Op.Imm0 < Len(P.Literals)
             /\ advanceOrFail(matchLit(P.Literals[Op.Imm0 + 1]), Len(P.Literals[Op.Imm0 + 1]))
    <3>1. Len(P.Literals[Op.Imm0 + 1]) \in Nat
      BY <1>1, <2>1, <2>2, TableTypes
    <3>2. QED
      BY <1>3, <2>2, <3>1, Available, Zenon DEF matchLit
  <2>3. QED
    BY <1>4, <1>9, <2>2 DEF LITB
<1>10. CASE MATCHB
  <2>1. Op.Imm1 \in Nat
    BY <1>1, <1>10, FetchType DEF MATCHB
  <2>2. CASE advanceOrFail(matchN(P.ByteSets[Op.Imm0 + 1], Op.Imm1), Op.Imm1)
    BY <1>3, <2>1, <2>2, Zenon DEF matchN
  <2>3. QED
    BY <1>4, <1>10, <2>2 DEF MATCHB
<1>11. CASE SPANB
  <2>1. ASSUME NEW n \in 0 .. Len(I) - DP, advance(n)
        PROVE  Simulated
    BY <1>2, <2>1, Available, SimulateAdvance
  <2>2. QED
    BY <1>4, <1>11, <2>1 DEF SPANB
<1>12. CASE RWNDB
  <2>1. Op.Imm0 \in Nat
    BY <1>1, <1>12, FetchType DEF RWNDB, OffsetCodes
  <2>2. CASE /\ Op.Imm0 <= DP /\ DP' = Sub64(DP, Op.Imm0) /\ UNCHANGED <<KS, CS, R>>
    <3>1. DP' \in Nat
      BY <2>1, <2>2, TypesMap DEF Sub64
    <3>2. XP \in 0 .. P.Len - 1 /\ DOMAIN P.Ops = 0 .. P.Len - 1
      BY <1>1, <1>12, MaxU64Assumption DEF TypeOK, IsProgram, RWNDB, Fetch, U64
    <3>3. ~ RewindFree(P)
      BY <1>12, <3>2 DEF RewindFree, RWNDB, Fetch, Op
    <3>4. BT!Move
      BY <1>2, <2>2, <3>1, <3>3 DEF BT!Move, BT!Running, Frozen
    <3>5. QED
      BY <3>4 DEF Simulated, BT!Next
  <2>3. QED
    BY <1>4, <1>12, <2>2 DEF RWNDB
<1>13. QED
  BY <1>5, <1>6, <1>7, <1>8, <1>9, <1>10, <1>11, <1>12

\* Jumping instructions.
LEMMA SimulateJumping ==
    ASSUME Bounds, JMP \/ TANYB \/ TSAMEB \/ TLITB \/ TMATCHB
    PROVE  Simulated
<1>1. TypeOK
  BY DEF Bounds
<1>2. R = "Running" /\ (JMP \/ Frozen)
  BY DEF JMP, TANYB, TSAMEB, TLITB, TMATCHB, Fetch
<1>3. ASSUME NEW good \in BOOLEAN, NEW n \in Nat, good => n <= availableBytes,
             NEW s, advanceOrJump(good, n, s), Frozen
      PROVE  Simulated
  BY <1>2, <1>3, SimulateAdvance, SimulateJump DEF advanceOrJump, Frozen
<1>4. ASSUME NEW e, rterr(e, CS), Frozen
      PROVE  Simulated
  BY <1>2, <1>4, SimulateRterr
<1>5. CASE JMP
  BY <1>5, SimulateJump DEF JMP
<1>6. CASE TANYB
  <2>1. Op.Imm1 \in Nat /\ Frozen
    BY <1>1, <1>6, FetchType DEF TANYB
  <2>2. QED
    BY <1>2, <1>6, <2>1, Available, SimulateAdvance, SimulateJump
       DEF TANYB, advanceOrJump, Frozen
<1>7. CASE TSAMEB
  BY <1>1, <1>3, <1>7, FetchType, Zenon DEF TSAMEB, matchN
<1>8. CASE TLITB
  <2>1. Op.Imm1 \in Nat /\ Frozen
    BY <1>1, <1>8, FetchType DEF TLITB
  <2>2. CASE /\ Op.Imm1 < Len(P.Literals)
             /\ advanceOrJump(matchLit(P.Literals[Op.Imm1 + 1]),
                              Len(P.Literals[Op.Imm1 + 1]), Op.Imm0)
    <3>1. Len(P.Literals[Op.Imm1 + 1]) \in Nat
      BY <1>1, <2>1, <2>2, TableTypes
    <3>2. QED
      BY <1>3, <2>1, <2>2, <3>1, Available, Zenon DEF matchLit
  <2>3. QED
    BY <1>4, <1>8, <2>1, <2>2 DEF TLITB
<1>9. CASE TMATCHB
  <2>1. Op.Imm2 \in Nat /\ Frozen
    BY <1>1, <1>9, FetchType DEF TMATCHB
  <2>2. CASE advanceOrJump(matchN(P.ByteSets[Op.Imm1 + 1], Op.Imm2), Op.Imm2, Op.Imm0)
    BY <1>3, <2>1, <2>2, Zenon DEF matchN
  <2>3. QED
    BY <1>4, <1>9, <2>1, <2>2 DEF TMATCHB
<1>10. QED
  BY <1>5, <1>6, <1>7, <1>8, <1>9

\* Instructions that push and pop frames.
LEMMA SimulateStack ==
    ASSUME Bounds, CHOICE \/ COMMIT \/ CALL \/ RET \/ PCOMMIT \/ BCOMMIT \/ FAIL2X
    PROVE  Simulated
<1>1. TypeOK
  BY DEF Bounds
<1>2. R = "Running" /\ UNCHANGED <<P, I>> /\ UNCHANGED RewindFree(P)
  BY DEF CHOICE, COMMIT, CALL, RET, PCOMMIT, BCOMMIT, FAIL2X, Fetch, Frozen
<1>3. CS \in Seq(Frame)
  BY <1>1 DEF TypeOK
<1>4. ASSUME NEW cs \in Seq(Frame), NEW fr \in Frame, CS' = Append(cs, fr)
      PROVE  CS' # <<>> /\ BT!Top(CS') = fr /\ BT!Top(CS') \in BT!Frame
  BY <1>4, TypesMap DEF BT!Top
<1>5. ASSUME NEW xp \in U64
      PROVE  [IsChoice |-> TRUE, DP |-> DP, XP |-> xp, KS |-> KS] \in Frame
  BY <1>1 DEF TypeOK, Frame
<1>6. CASE CHOICE
  <2>1. CASE NextXP + Op.Imm0 \notin U64
    BY <1>6, <2>1, SimulateJump DEF CHOICE
  <2>2. CASE NextXP + Op.Imm0 \in U64
    <3>. DEFINE fr == [IsChoice |-> TRUE, DP |-> DP, XP |-> NextXP + Op.Imm0, KS |-> KS]
    <3>1. CS' = Append(CS, fr) /\ UNCHANGED <<DP, KS, R>>
      BY <1>6, <2>2 DEF CHOICE
    <3>2. fr \in Frame /\ fr.IsChoice /\ fr.DP = DP /\ fr.KS = KS
      BY <1>5, <2>2
    <3>. HIDE DEF fr
    <3>3. BT!Push
      BY <1>2, <1>3, <1>4, <3>1, <3>2 DEF BT!Push, BT!Running, BT!SavesState
    <3>4. QED
      BY <3>3 DEF Simulated, BT!Next
  <2>3. QED
    BY <2>1, <2>2
<1>7. CASE CALL
  <2>. DEFINE fr == [IsChoice |-> FALSE, DP |-> 0, XP |-> NextXP, KS |-> <<>>]
  <2>1. CS' = Append(CS, fr) /\ UNCHANGED <<DP, KS, R>>
    BY <1>7 DEF CALL
  <2>2. fr \in Frame /\ ~ fr.IsChoice /\ fr.DP = 0 /\ fr.KS = <<>>
    BY <1>1, <1>7, FetchType, MaxU64Assumption DEF CALL, Frame, U64
  <2>. HIDE DEF fr
  <2>3. BT!Push
    BY <1>2, <1>3, <1>4, <2>1, <2>2 DEF BT!Push, BT!Running
  <2>4. QED
    BY <2>3 DEF Simulated, BT!Next
<1>8. CASE (COMMIT \/ RET) /\ R' = R
  <2>1. CS # <<>> /\ CS' = popCS /\ UNCHANGED <<DP, KS, R>>
    BY <1>2, <1>8 DEF COMMIT, RET, popFault, popsChoice, rterr
  <2>2. BT!Pop
    BY <1>2, <2>1 DEF BT!Pop, BT!Running, BT!Below, popCS
  <2>3. QED
    BY <2>2 DEF Simulated, BT!Next
<1>9. CASE (COMMIT \/ RET) /\ R' # R
  BY <1>2, <1>9, SimulateRterr, SimulatePopFault DEF COMMIT, RET, Frozen
<1>10. CASE PCOMMIT
  <2>1. CASE popFault
    BY <1>2, <2>1, SimulatePopFault DEF Frozen
  <2>2. CASE popsChoice /\ NextXP + Op.Imm0 \notin U64 /\ ~ popFault
    <3>1. BT!Pop
      BY <1>2, <1>10, <2>2 DEF PCOMMIT, BT!Pop, BT!Running, BT!Below, popCS, popsChoice
    <3>2. QED
      BY <3>1 DEF Simulated, BT!Next
  <2>3. CASE popsChoice /\ NextXP + Op.Imm0 \in U64 /\ ~ popFault
    <3>. DEFINE fr == [IsChoice |-> TRUE, DP |-> DP, XP |-> NextXP + Op.Imm0, KS |-> KS]
    <3>1. CS' = Append(popCS, fr) /\ UNCHANGED <<DP, KS, R>>
      BY <1>10, <2>3 DEF PCOMMIT
    <3>2. fr \in Frame /\ fr.IsChoice /\ fr.DP = DP /\ fr.KS = KS
      BY <1>5, <2>3
    <3>. HIDE DEF fr
    <3>3. /\ CS # <<>> /\ BT!Top(CS).IsChoice
          /\ popCS = BT!Below(CS) /\ popCS \in Seq(Frame)
      BY <1>3, <2>3 DEF popsChoice, top, BT!Top, BT!Below, popCS
    <3>4. BT!Refresh
      BY <1>2, <1>4, <3>1, <3>2, <3>3 DEF BT!Refresh, BT!Running, BT!SavesState
    <3>5. QED
      BY <3>4 DEF Simulated, BT!Next
  <2>4. QED
    BY <1>10, <2>1, <2>2, <2>3 DEF PCOMMIT
<1>11. CASE BCOMMIT
  <2>1. CASE popFault
    BY <1>2, <2>1, SimulatePopFault DEF Frozen
  <2>2. CASE ~ popFault
    <3>1. /\ popsChoice /\ CS' = popCS /\ DP' = top.DP /\ KS' = top.KS /\ UNCHANGED R
      BY <1>11, <2>2 DEF BCOMMIT
    <3>2. /\ Len(CS) \in DOMAIN CS /\ CS[Len(CS)].IsChoice
          /\ DP' = CS[Len(CS)].DP /\ KS' = CS[Len(CS)].KS
          /\ CS' = SubSeq(CS, 1, Len(CS) - 1)
      BY <1>3, <3>1 DEF popsChoice, top, popCS
    <3>3. BT!Restore
      BY <1>2, <3>1, <3>2 DEF BT!Restore, BT!Running
    <3>4. QED
      BY <3>3 DEF Simulated, BT!Next
  <2>3. QED
    BY <2>1, <2>2
<1>12. CASE FAIL2X
  BY <1>2, <1>12, SimulatePopFault, SimulateFail DEF FAIL2X, popsChoice
<1>13. QED
  BY <1>6, <1>7, <1>8, <1>9, <1>10, <1>11, <1>12

\* Instructions that record captures.
LEMMA SimulateCapture ==
    ASSUME Bounds, FCAP \/ BCAP \/ ECAP
    PROVE  Simulated
<1>1. TypeOK
  BY DEF Bounds
<1>2. R = "Running" /\ UNCHANGED <<P, I>> /\ UNCHANGED RewindFree(P)
  BY Zenon DEF FCAP, BCAP, ECAP, Fetch, Frozen
<1>3. Op.Imm0 \in Nat /\ Op.Imm1 \in Nat
  <2>1. PICK code \in {"FCAP", "BCAP", "ECAP"} : Fetch(code)
    BY Zenon DEF FCAP, BCAP, ECAP
  <2>2. QED
    BY <1>1, <2>1, FetchType DEF OffsetCodes
<1>4. ASSUME NEW b \in BOOLEAN, NEW dp \in U64, dp <= DP, b => dp = DP
      PROVE  Mark(b, dp) \in Assignment /\ BT!Marks(Mark(b, dp))
  <2>1. Mark(b, dp) \in Assignment /\ Mark(b, dp).DP = dp /\ Mark(b, dp).IsEnd = b
    BY <1>3, <1>4 DEF Mark, Assignment
  <2>2. QED
    BY <1>4, <2>1, TypesMap DEF BT!Marks
<1>5. KS \in Seq(Assignment) /\ DP \in U64 /\ DP <= DP
  BY <1>1, MaxU64Assumption DEF TypeOK, U64
<1>6. CASE rterr("ErrIndexRange", CS) \/ rterr("ErrCountRange", CS)
  BY <1>2, <1>6, SimulateRterr DEF Frozen
<1>7. ASSUME NEW b \in BOOLEAN, assign(Append(KS, Mark(b, DP)))
      PROVE  Simulated
  <2>1. KS' = Append(KS, Mark(b, DP)) /\ UNCHANGED <<DP, CS, R>>
    BY <1>7 DEF assign
  <2>2. KS' # <<>> /\ BT!Top(KS') = Mark(b, DP) /\ BT!Marks(BT!Top(KS'))
    BY <1>4, <1>5, <2>1 DEF BT!Top
  <2>3. BT!Record
    BY <1>2, <2>1, <2>2 DEF BT!Record, BT!Running
  <2>4. QED
    BY <2>3 DEF Simulated, BT!Next
<1>8. CASE /\ Op.Imm1 <= DP
           /\ assign(Append(Append(KS, Mark(FALSE, Sub64(DP, Op.Imm1))), Mark(TRUE, DP)))
  <2>. DEFINE a == Mark(FALSE, Sub64(DP, Op.Imm1))
              z == Mark(TRUE, DP)
  <2>1. Sub64(DP, Op.Imm1) \in U64 /\ Sub64(DP, Op.Imm1) <= DP
    BY <1>3, <1>5, <1>8, MaxU64Assumption DEF Sub64, U64
  <2>2. a \in Assignment /\ BT!Marks(a) /\ z \in Assignment /\ BT!Marks(z)
    BY <1>4, <1>5, <2>1, Zenon
  <2>3. KS' = Append(Append(KS, a), z) /\ UNCHANGED <<DP, CS, R>>
    BY <1>8 DEF assign
  <2>. HIDE DEF a, z
  <2>4. /\ KS' # <<>> /\ BT!Top(KS') = z /\ BT!Below(KS') = Append(KS, a)
        /\ BT!Below(KS') # <<>> /\ BT!Top(BT!Below(KS')) = a
    BY <1>5, <2>2, <2>3 DEF BT!Top, BT!Below
  <2>5. BT!Record
    BY <1>2, <2>2, <2>3, <2>4 DEF BT!Record, BT!Running
  <2>6. QED
    BY <2>5 DEF Simulated, BT!Next
<1>9. QED
  BY <1>6, <1>7, <1>8, Zenon DEF FCAP, BCAP, ECAP

\* Every step.
LEMMA SimulateStep ==
    ASSUME Bounds, [Step]_vars
    PROVE  Simulated
<1>1. CASE StepHalted \/ UNCHANGED vars
  BY <1>1, SimulateJump DEF StepHalted, vars
<1>2. CASE StepEOF \/ END
  <2>1. /\ R = "Running" /\ R' = "Success" /\ UNCHANGED <<P, I, DP, KS, CS>>
    BY <1>2 DEF StepEOF, END, Fetch
  <2>2. DP \in Nat /\ DP >= DP
    BY TypesMap
  <2>3. BT!Move
    BY <2>1, <2>2 DEF BT!Move, BT!Running
  <2>4. QED
    BY <2>3 DEF Simulated, BT!Next
<1>3. CASE StepBadOp \/ GIVEUP
  <2>1. /\ R = "Running" /\ R' \in {"Failure", "Error"} /\ KS' = <<>>
        /\ UNCHANGED <<P, I, DP, CS>>
    BY <1>3 DEF StepBadOp, GIVEUP, Fetch
  <2>2. Len(CS) \in 0 .. Len(CS) /\ CS = SubSeq(CS, 1, Len(CS))
    BY DEF Bounds, TypeOK
  <2>3. BT!Halt
    BY <2>1, <2>2, Zenon DEF BT!Halt, BT!Running
  <2>4. QED
    BY <2>3 DEF Simulated, BT!Next
<1>4. QED
  BY <1>1, <1>2, <1>3, SimulateMatching, SimulateJumping, SimulateStack, SimulateCapture
     DEF Step

-----------------------------------------------------------------------------
(* The theorems. *)

\* Whatever the program and the input, the machine's steps follow the rules
\* for its two stacks: Execution implements Backtracking.
THEOREM Refinement == Spec => ImplementsBacktracking
<1>1. Init => BT!Init
  BY DEF Init, BT!Init
<1>2. Bounds /\ [Step]_vars => [BT!Next]_(BT!vars)
  BY SimulateStep DEF Simulated
<1>3. QED
  BY <1>1, <1>2, BoundsInvariant, PTL DEF Spec, ImplementsBacktracking, BT!Spec

-----------------------------------------------------------------------------
(* The discipline of the capture stack follows from the rules of Backtracking. *)

\* The types that the frames and assignments of a behaviour keep.
StackTypes ==
    /\ DP \in Nat
    /\ KS \in Seq(BT!Assignment)
    /\ CS \in Seq(BT!Frame)

\* The inductive invariant.
Discipline ==
    StackTypes /\ BT!SavedCapturesArePrefixes /\ BT!CapturesNeverAhead /\ BT!NoCapturesUnlessLive

-----------------------------------------------------------------------------
(* Chains of prefixes. *)

\* The prefix relation on capture stacks is reflexive and transitive, and
\* grows with its right-hand side.
LEMMA PrefixFacts ==
    ASSUME NEW s \in Seq(BT!Assignment), NEW t \in Seq(BT!Assignment), BT!Prefix(s, t),
           NEW a \in BT!Assignment
    PROVE  BT!Prefix(s, s) /\ BT!Prefix(s, Append(t, a))
  BY DEF BT!Prefix

\* Recording an assignment keeps the chain.
LEMMA ChainRecord ==
    ASSUME NEW cs \in Seq(BT!Frame), NEW t \in Seq(BT!Assignment), NEW a \in BT!Assignment,
           BT!PrefixChain(cs, t)
    PROVE  BT!PrefixChain(cs, Append(t, a))
<1>1. ASSUME NEW i \in DOMAIN cs, cs[i].IsChoice
      PROVE  BT!Prefix(cs[i].KS, Append(t, a))
  <2>1. cs[i] \in BT!Frame
    OBVIOUS
  <2>2. cs[i].KS \in Seq(BT!Assignment)
    BY <2>1 DEF BT!Frame
  <2>3. QED
    BY <1>1, <2>2, PrefixFacts DEF BT!PrefixChain
<1>2. QED
  BY <1>1 DEF BT!PrefixChain

\* Dropping the frames above position n keeps the chain.
LEMMA ChainPop ==
    ASSUME NEW cs \in Seq(BT!Frame), NEW t, BT!PrefixChain(cs, t), NEW n \in 0 .. Len(cs)
    PROVE  BT!PrefixChain(SubSeq(cs, 1, n), t)
  BY DEF BT!PrefixChain

\* Going back to a choice frame keeps the chain.
LEMMA ChainRestore ==
    ASSUME NEW cs \in Seq(BT!Frame), NEW t, BT!PrefixChain(cs, t),
           NEW n \in DOMAIN cs, cs[n].IsChoice
    PROVE  BT!PrefixChain(SubSeq(cs, 1, n - 1), cs[n].KS)
<1>1. ASSUME NEW i \in DOMAIN SubSeq(cs, 1, n - 1)
      PROVE  i \in DOMAIN cs /\ i \in 1 .. n /\ SubSeq(cs, 1, n - 1)[i] = cs[i]
  OBVIOUS
<1>2. ASSUME NEW i \in DOMAIN SubSeq(cs, 1, n - 1), NEW j \in 1 .. i
      PROVE  j \in DOMAIN SubSeq(cs, 1, n - 1)
  OBVIOUS
<1>3. QED
  BY <1>1, <1>2 DEF BT!PrefixChain

\* Pushing a call frame, or a choice frame that saves t, keeps the chain.
LEMMA ChainPush ==
    ASSUME NEW cs \in Seq(BT!Frame), NEW t \in Seq(BT!Assignment), BT!PrefixChain(cs, t),
           NEW fr \in BT!Frame, fr.IsChoice => fr.KS = t
    PROVE  BT!PrefixChain(Append(cs, fr), t)
<1>1. BT!Prefix(t, t)
  BY DEF BT!Prefix
<1>2. QED
  BY <1>1 DEF BT!PrefixChain

-----------------------------------------------------------------------------
(* The invariant. *)

\* Discipline holds in every reachable state.
LEMMA DisciplineInvariant == BT!Spec => []Discipline
<1>1. BT!Init => Discipline
  BY DEF BT!Init, Discipline, StackTypes, BT!SavedCapturesArePrefixes, BT!PrefixChain,
         BT!CapturesNeverAhead, BT!NoneAhead, BT!NoCapturesUnlessLive
<1>2. Discipline /\ [BT!Next]_(BT!vars) => Discipline'
  <2>. SUFFICES ASSUME Discipline, [BT!Next]_(BT!vars) PROVE Discipline'
    OBVIOUS
  <2>. USE DEF Discipline, BT!Running
  <2>0. BT!NoCapturesUnlessLive'
    BY SMTT(40) DEF BT!NoCapturesUnlessLive, BT!vars, BT!Next, BT!Move, BT!Push, BT!Pop, BT!Refresh,
           BT!Restore, BT!Record, BT!Halt
  <2>1. CASE BT!Move
    <3>1. /\ DP' \in Nat /\ KS' = KS /\ CS' = CS /\ (RewindFree(P)' <=> RewindFree(P))
          /\ ~ RewindFree(P) \/ DP' >= DP
          /\ R = "Running"
      BY <2>1 DEF BT!Move
    <3>2. StackTypes' /\ BT!SavedCapturesArePrefixes'
      BY <3>1 DEF StackTypes, BT!SavedCapturesArePrefixes
    <3>3. ASSUME RewindFree(P) PROVE BT!NoneAhead(KS, DP')
      <4>1. ASSUME NEW k \in DOMAIN KS PROVE KS[k].DP <= DP'
        <5>1. KS[k] \in BT!Assignment
          BY DEF StackTypes
        <5>2. KS[k].DP \in Nat
          BY <5>1 DEF BT!Assignment
        <5>3. KS[k].DP <= DP
          BY <3>3 DEF BT!CapturesNeverAhead, BT!NoneAhead
        <5>4. QED
          BY <3>1, <3>3, <5>2, <5>3 DEF StackTypes
      <4>2. QED
        BY <3>3, <4>1 DEF BT!CapturesNeverAhead, BT!NoneAhead
    <3>4. BT!CapturesNeverAhead'
      BY <3>1, <3>3 DEF BT!CapturesNeverAhead
    <3>5. QED
      BY <2>0, <3>2, <3>4
  <2>2. CASE BT!Push
    <3>1. PICK fr \in BT!Frame : CS' = Append(CS, fr) /\ (fr.IsChoice => BT!SavesState(fr))
                             /\ (~ fr.IsChoice => fr.DP = 0 /\ fr.KS = <<>>)
      BY <2>2 DEF BT!Push
    <3>2. /\ StackTypes' /\ DP' = DP /\ KS' = KS /\ R' = R /\ (RewindFree(P)' <=> RewindFree(P))
          /\ R = "Running"
      BY <2>2, <3>1 DEF BT!Push, StackTypes
    <3>3. BT!SavedCapturesArePrefixes'
      BY <3>1, <3>2, ChainPush DEF BT!SavedCapturesArePrefixes, StackTypes, BT!SavesState
    <3>4. RewindFree(P) => BT!NoneAhead(fr.KS, fr.DP)
      BY <3>1, <3>2, SMTT(40) DEF BT!SavesState, BT!CapturesNeverAhead, BT!NoneAhead
    <3>5. BT!CapturesNeverAhead'
      BY <3>1, <3>2, <3>4 DEF BT!CapturesNeverAhead, StackTypes
    <3>6. QED
      BY <2>0, <3>2, <3>3, <3>5
  <2>3. CASE BT!Pop
    <3>1. /\ CS' = SubSeq(CS, 1, Len(CS) - 1) /\ Len(CS) - 1 \in 0 .. Len(CS)
          /\ DP' = DP /\ KS' = KS /\ R' = R /\ (RewindFree(P)' <=> RewindFree(P))
      BY <2>3 DEF BT!Pop, BT!Below, StackTypes
    <3>2. StackTypes'
      BY <3>1 DEF StackTypes
    <3>3. BT!SavedCapturesArePrefixes'
      BY <3>1, ChainPop DEF BT!SavedCapturesArePrefixes, StackTypes
    <3>4. BT!CapturesNeverAhead'
      BY <3>1 DEF BT!CapturesNeverAhead, StackTypes
    <3>5. QED
      BY <2>0, <3>2, <3>3, <3>4
  <2>4. CASE BT!Refresh
    <3>. DEFINE cs == SubSeq(CS, 1, Len(CS) - 1)
    <3>1. PICK fr \in BT!Frame : CS' = Append(cs, fr) /\ BT!SavesState(fr)
      BY <2>4 DEF BT!Refresh, BT!Below
    <3>2. /\ cs \in Seq(BT!Frame) /\ Len(CS) - 1 \in 0 .. Len(CS)
          /\ DP' = DP /\ KS' = KS /\ R' = R /\ (RewindFree(P)' <=> RewindFree(P)) /\ R = "Running"
      BY <2>4 DEF BT!Refresh, StackTypes
    <3>3. StackTypes'
      BY <3>1, <3>2 DEF StackTypes
    <3>4. BT!PrefixChain(cs, KS)
      BY <3>2, ChainPop DEF BT!SavedCapturesArePrefixes, StackTypes
    <3>5. RewindFree(P) => \A i \in DOMAIN cs : BT!NoneAhead(cs[i].KS, cs[i].DP)
      BY <3>2 DEF BT!CapturesNeverAhead, StackTypes
    <3>. HIDE DEF cs
    <3>6. BT!SavedCapturesArePrefixes'
      BY <3>1, <3>2, <3>4, ChainPush DEF BT!SavedCapturesArePrefixes, StackTypes, BT!SavesState
    <3>7. BT!CapturesNeverAhead'
      BY <3>1, <3>2, <3>5 DEF BT!CapturesNeverAhead, BT!SavesState
    <3>8. QED
      BY <2>0, <3>3, <3>6, <3>7
  <2>5. CASE BT!Restore
    <3>1. PICK n \in DOMAIN CS : /\ CS[n].IsChoice /\ DP' = CS[n].DP /\ KS' = CS[n].KS
                                /\ CS' = SubSeq(CS, 1, n - 1)
      BY <2>5, Zenon DEF BT!Restore
    <3>2. CS[n] \in BT!Frame
      BY DEF StackTypes
    <3>3. StackTypes'
      <4>1. DP' \in Nat /\ KS' \in Seq(BT!Assignment)
        BY <3>1, <3>2 DEF BT!Frame
      <4>2. CS' \in Seq(BT!Frame)
        BY <3>1 DEF StackTypes
      <4>3. QED
        BY <4>1, <4>2 DEF StackTypes
    <3>4. R' = R /\ R = "Running" /\ (RewindFree(P)' <=> RewindFree(P))
      BY <2>5 DEF BT!Restore
    <3>5. BT!SavedCapturesArePrefixes'
      BY <3>1, <3>4, ChainRestore DEF BT!SavedCapturesArePrefixes, StackTypes
    <3>6. BT!CapturesNeverAhead'
      BY <3>1, <3>4 DEF BT!CapturesNeverAhead, StackTypes
    <3>7. QED
      BY <2>0, <3>3, <3>5, <3>6
  <2>6. CASE BT!Record
    <3>1. ASSUME NEW t \in Seq(BT!Assignment), NEW a, BT!Marks(a),
                 RewindFree(P) => BT!NoneAhead(t, DP), BT!PrefixChain(CS, t)
          PROVE  /\ Append(t, a) \in Seq(BT!Assignment)
                 /\ RewindFree(P) => BT!NoneAhead(Append(t, a), DP)
                 /\ BT!PrefixChain(CS, Append(t, a))
      <4>1. a \in BT!Assignment /\ a.DP <= DP /\ (a.IsEnd => a.DP = DP)
        BY <3>1 DEF BT!Marks
      <4>2. Append(t, a) \in Seq(BT!Assignment) /\ BT!PrefixChain(CS, Append(t, a))
        BY <3>1, <4>1, ChainRecord DEF StackTypes
      <4>3. /\ Len(t) \in Nat /\ DOMAIN t = 1 .. Len(t)
            /\ DOMAIN Append(t, a) = 1 .. Len(t) + 1
            /\ \A k \in 1 .. Len(t) : Append(t, a)[k] = t[k]
            /\ Append(t, a)[Len(t) + 1] = a
        BY <3>1, <4>1
      <4>4. RewindFree(P) => BT!NoneAhead(Append(t, a), DP)
        BY <3>1, <4>1, <4>3 DEF BT!NoneAhead
      <4>5. QED
        BY <4>2, <4>4
    <3>2. /\ DP' = DP /\ CS' = CS /\ R' = R /\ (RewindFree(P)' <=> RewindFree(P)) /\ R = "Running"
      BY <2>6 DEF BT!Record
    <3>3. BT!PrefixChain(CS, KS) /\ (RewindFree(P) => BT!NoneAhead(KS, DP))
      BY <3>2 DEF BT!SavedCapturesArePrefixes, BT!CapturesNeverAhead
    <3>4. /\ KS' \in Seq(BT!Assignment)
          /\ RewindFree(P) => BT!NoneAhead(KS', DP)
          /\ BT!PrefixChain(CS, KS')
      <4>1. CASE BT!Marks(BT!Top(KS')) /\ KS' = Append(KS, BT!Top(KS'))
        BY <3>1, <3>3, <4>1, Zenon DEF StackTypes
      <4>2. CASE /\ BT!Marks(BT!Top(BT!Below(KS'))) /\ BT!Marks(BT!Top(KS'))
                 /\ KS' = Append(Append(KS, BT!Top(BT!Below(KS'))), BT!Top(KS'))
        BY <3>1, <3>3, <4>2, Zenon DEF StackTypes
      <4>3. QED
        BY <2>6, <4>1, <4>2 DEF BT!Record
    <3>5. QED
      BY <2>0, <3>2, <3>4 DEF StackTypes, BT!SavedCapturesArePrefixes, BT!CapturesNeverAhead
  <2>7. CASE BT!Halt
    <3>1. PICK n \in 0 .. Len(CS) : CS' = SubSeq(CS, 1, n)
      BY <2>7 DEF BT!Halt
    <3>2. DP' = DP /\ KS' = <<>> /\ R' \in {"Failure", "Error"} /\ (RewindFree(P)' <=> RewindFree(P))
      BY <2>7 DEF BT!Halt
    <3>3. StackTypes' /\ BT!SavedCapturesArePrefixes'
      BY <3>1, <3>2 DEF StackTypes, BT!SavedCapturesArePrefixes
    <3>4. BT!CapturesNeverAhead'
      BY <3>1, <3>2, SMTT(40) DEF StackTypes, BT!CapturesNeverAhead, BT!NoneAhead
    <3>5. QED
      BY <2>0, <3>3, <3>4
  <2>8. CASE UNCHANGED BT!vars
    BY <2>0, <2>8 DEF BT!vars, StackTypes, BT!SavedCapturesArePrefixes, BT!CapturesNeverAhead
  <2>9. QED
    BY <2>1, <2>2, <2>3, <2>4, <2>5, <2>6, <2>7, <2>8, SMTT(40) DEF BT!Next
<1>3. QED
  BY <1>1, <1>2, PTL DEF BT!Spec

\* What choice frames save of the capture stack is always a chain of prefixes
\* that ends in the current capture stack.
THEOREM SavedCaptures == Spec => []SavedCapturesArePrefixes
  BY Refinement, DisciplineInvariant, PTL
  DEF ImplementsBacktracking, Discipline, SavedCapturesArePrefixes

\* A failed or faulted execution has no captures.
THEOREM NoCaptures == Spec => []NoCapturesUnlessLive
  BY Refinement, DisciplineInvariant, PTL
  DEF ImplementsBacktracking, Discipline, NoCapturesUnlessLive

\* In a program without RWNDB no capture lies ahead of its data pointer.
THEOREM NeverAhead == Spec => []CapturesNeverAhead
  BY Refinement, DisciplineInvariant, PTL
  DEF ImplementsBacktracking, Discipline, CapturesNeverAhead

-----------------------------------------------------------------------------
(* The capture stacks as slices. *)

Memory == [Array \cup {0} -> Seq(Assignment)]

\* A slice of mem: its cells exist.
IsSlice(mem, s) ==
    /\ s \in [array : Array \cup {0}, len : Nat]
    /\ s.len <= Len(mem[s.array])

\* Does appending to s leave what t shows alone?
Spared(s, t) == t.array \in InUse(s) /\ (t.array = s.array => t.len <= s.len)

-----------------------------------------------------------------------------
(* append. *)

\* A function that shows v and then a is Append(v, a).
LEMMA ShowsAppended ==
    ASSUME NEW v \in Seq(Assignment), NEW a \in Assignment, NEW c,
           \A k \in 1 .. Len(v) : c[k] = v[k], c[Len(v) + 1] = a
    PROVE  [k \in 1 .. Len(v) + 1 |-> c[k]] = Append(v, a)
<1> DEFINE w == Append(v, a)
<1>1. Len(v) \in Nat
  OBVIOUS
<1>2. /\ w \in Seq(Assignment) /\ Len(w) = Len(v) + 1 /\ w[Len(v) + 1] = a
      /\ \A k \in 1 .. Len(v) : w[k] = v[k]
  BY <1>1
<1> HIDE DEF w
<1>3. w = [k \in 1 .. Len(v) + 1 |-> w[k]]
  BY <1>2
<1>4. \A k \in 1 .. Len(v) + 1 : w[k] = c[k]
  BY <1>1, <1>2
<1>5. w = [k \in 1 .. Len(v) + 1 |-> c[k]]
  BY <1>3, <1>4
<1>6. QED
  BY <1>5 DEF w

\* Appending in place shows the new element, and to no other slice that is
\* not longer than s.
LEMMA InPlace ==
    ASSUME NEW mem \in Memory, NEW s, IsSlice(mem, s), NEW a \in Assignment,
           hasRoom(mem, s), NEW r, r = inPlace(mem, s, a)
    PROVE  /\ r.arrays \in Memory
           /\ IsSlice(r.arrays, r.slice)
           /\ view(r.arrays, r.slice) = Append(view(mem, s), a)
           /\ \A t : IsSlice(mem, t) /\ Spared(s, t) =>
                  IsSlice(r.arrays, t) /\ view(r.arrays, t) = view(mem, t)
<1> DEFINE cells == [mem[s.array] EXCEPT ![s.len + 1] = a]
<1>1. /\ s.array \in Array \cup {0} /\ s.len \in Nat
      /\ mem[s.array] \in Seq(Assignment) /\ s.len + 1 \in 1 .. Len(mem[s.array])
  BY DEF IsSlice, Memory, hasRoom
<1>2. /\ cells \in Seq(Assignment) /\ Len(cells) = Len(mem[s.array])
      /\ cells[s.len + 1] = a
      /\ \A k \in 1 .. Len(cells) : k # s.len + 1 => cells[k] = mem[s.array][k]
  BY <1>1
<1> HIDE DEF cells
<1>3. /\ r.arrays = [mem EXCEPT ![s.array] = cells]
      /\ r.slice.array = s.array /\ r.slice.len = s.len + 1
      /\ r.slice \in [array : Array \cup {0}, len : Nat]
  BY <1>1 DEF inPlace, cells
<1>4. r.arrays \in Memory /\ r.arrays[s.array] = cells
      /\ \A n \in Array \cup {0} : n # s.array => r.arrays[n] = mem[n]
  BY <1>1, <1>2, <1>3 DEF Memory
<1>5. IsSlice(r.arrays, r.slice)
  BY <1>1, <1>2, <1>3, <1>4 DEF IsSlice
<1>6. view(r.arrays, r.slice) = Append(view(mem, s), a)
  <2>1. view(r.arrays, r.slice) = [k \in 1 .. s.len + 1 |-> cells[k]]
    BY <1>3, <1>4 DEF view
  <2>2. view(mem, s) = [k \in 1 .. s.len |-> mem[s.array][k]]
    BY DEF view
  <2>3. view(mem, s) \in Seq(Assignment) /\ Len(view(mem, s)) = s.len
    BY <2>2, <1>1, SMTT(40)
  <2>4. \A k \in 1 .. s.len : cells[k] = view(mem, s)[k]
    BY <2>2, <1>1, <1>2
  <2>5. QED
    BY <2>1, <2>3, <2>4, <1>2, ShowsAppended, SMTT(40)
<1>7. ASSUME NEW t, IsSlice(mem, t), Spared(s, t)
      PROVE  IsSlice(r.arrays, t) /\ view(r.arrays, t) = view(mem, t)
  <2>1. t.array \in Array \cup {0} /\ t.len \in Nat /\ t.len <= Len(mem[t.array])
    BY <1>7 DEF IsSlice
  <2>2. CASE t.array = s.array
    <3>1. \A k \in 1 .. t.len : cells[k] = mem[s.array][k]
      BY <2>1, <2>2, <1>1, <1>2, <1>7, SMTT(40) DEF Spared
    <3>2. QED
      BY <3>1, <2>1, <2>2, <1>2, <1>4, <1>7, SMTT(40) DEF IsSlice, view
  <2>3. CASE t.array # s.array
    BY <2>1, <2>3, <1>4, <1>7, SMTT(40) DEF IsSlice, view
  <2>4. QED
    BY <2>2, <2>3
<1>8. QED
  BY <1>4, <1>5, <1>6, <1>7, SMTT(40)

\* Moving to a larger array copies what s shows and leaves every array that is
\* in use alone.
LEMMA Moved ==
    ASSUME NEW mem \in Memory, NEW s, IsSlice(mem, s), NEW a \in Assignment,
           NEW new \in Array, new \notin InUse(s), NEW cap \in Nat, cap >= s.len + 1,
           NEW r, r = moved(mem, s, a, new, cap)
    PROVE  /\ r.arrays \in Memory
           /\ IsSlice(r.arrays, r.slice)
           /\ view(r.arrays, r.slice) = Append(view(mem, s), a)
           /\ \A t : IsSlice(mem, t) /\ Spared(s, t) =>
                  IsSlice(r.arrays, t) /\ view(r.arrays, t) = view(mem, t)
<1> DEFINE cell(k) == IF k <= s.len THEN mem[s.array][k]
                      ELSE IF k = s.len + 1 THEN a ELSE Unused
           cells == [k \in 1 .. cap |-> cell(k)]
<1>1. /\ s.array \in Array \cup {0} /\ s.len \in Nat
      /\ mem[s.array] \in Seq(Assignment) /\ s.len <= Len(mem[s.array])
  BY DEF IsSlice, Memory
<1>2. Unused \in Assignment
  BY MaxU64Assumption DEF Unused, Assignment, U64
<1>3. \A k \in 1 .. cap : cell(k) \in Assignment
  BY <1>1, <1>2
<1>4. cells \in Seq(Assignment) /\ Len(cells) = cap
  BY <1>3
<1>5. \A k \in 1 .. cap : cells[k] = cell(k)
  OBVIOUS
<1> HIDE DEF cells
<1>6. /\ r.arrays = [mem EXCEPT ![new] = cells]
      /\ r.slice.array = new /\ r.slice.len = s.len + 1
      /\ r.slice \in [array : Array \cup {0}, len : Nat]
  BY <1>1 DEF moved, cells
<1>7. r.arrays \in Memory /\ r.arrays[new] = cells
      /\ \A n \in Array \cup {0} : n # new => r.arrays[n] = mem[n]
  BY <1>4, <1>6, SMTT(40) DEF Memory
<1>8. IsSlice(r.arrays, r.slice)
  BY <1>1, <1>4, <1>6, <1>7 DEF IsSlice
<1>9. view(r.arrays, r.slice) = Append(view(mem, s), a)
  <2>1. view(r.arrays, r.slice) = [k \in 1 .. s.len + 1 |-> cells[k]]
    BY <1>6, <1>7 DEF view
  <2>2. view(mem, s) = [k \in 1 .. s.len |-> mem[s.array][k]]
    BY DEF view
  <2>3. view(mem, s) \in Seq(Assignment) /\ Len(view(mem, s)) = s.len
    BY <2>2, <1>1, SMTT(40)
  <2>4. \A k \in 1 .. s.len : cells[k] = view(mem, s)[k]
    BY <2>2, <1>1, <1>5, SMTT(40)
  <2>5. cells[s.len + 1] = a
    BY <1>1, <1>5
  <2>6. QED
    BY <2>1, <2>3, <2>4, <2>5, ShowsAppended, SMTT(40)
<1>10. ASSUME NEW t, IsSlice(mem, t), Spared(s, t)
       PROVE  IsSlice(r.arrays, t) /\ view(r.arrays, t) = view(mem, t)
  <2>1. t.array \in Array \cup {0} /\ t.array # new
    BY <1>10, SMTT(40) DEF IsSlice, Spared
  <2>2. QED
    BY <2>1, <1>7, <1>10 DEF IsSlice, view
<1>11. QED
  BY <1>7, <1>8, <1>9, <1>10, SMTT(40)

\* What append(s, a) does to the arrays: it shows the new element to nobody who
\* has not got it, and what it spared the next append spares again.
Appended(mem, s, a, r) ==
    /\ r.arrays \in Memory
    /\ IsSlice(r.arrays, r.slice)
    /\ r.slice.len = s.len + 1
    /\ view(r.arrays, r.slice) = Append(view(mem, s), a)
    /\ \A t : IsSlice(mem, t) /\ Spared(s, t) =>
           IsSlice(r.arrays, t) /\ view(r.arrays, t) = view(mem, t)
    /\ \A i \in DOMAIN frames :
           IsSlice(mem, frames[i]) /\ Spared(s, frames[i]) => Spared(r.slice, frames[i])

\* It does so in place and in a new array.
LEMMA Appends ==
    ASSUME NEW mem \in Memory, NEW s, IsSlice(mem, s), NEW a \in Assignment,
           NEW r \in append(mem, s, a)
    PROVE  Appended(mem, s, a, r)
<1>1. CASE hasRoom(mem, s)
  <2>1. r = inPlace(mem, s, a)
    BY <1>1 DEF append
  <2>2. r.slice.array = s.array /\ r.slice.len = s.len + 1
    BY <2>1 DEF inPlace
  <2>3. \A i \in DOMAIN frames :
           IsSlice(mem, frames[i]) /\ Spared(s, frames[i]) => Spared(r.slice, frames[i])
    BY <2>2, SMTT(40) DEF Spared, InUse, IsSlice
  <2>4. QED
    BY <1>1, <2>1, <2>2, <2>3, InPlace, SMTT(40) DEF Appended
<1>2. CASE ~ hasRoom(mem, s)
  <2>1. PICK new \in Fresh(s), cap \in capacities(s) : r = moved(mem, s, a, new, cap)
    BY <1>2 DEF append
  <2>2. new \in Array /\ new \notin InUse(s)
    BY DEF Fresh
  <2>3. cap \in Nat /\ cap >= s.len + 1
    <3>1. PICK n \in Spare : cap = s.len + 1 + n
      BY Zenon DEF capacities
    <3>2. n \in Nat /\ s.len \in Nat
      BY SpareAssumption DEF IsSlice
    <3> QED
      BY <3>1, <3>2
  <2>4. r.slice.array = new /\ r.slice.len = s.len + 1
    BY <2>1, SMTT(40) DEF moved
  <2>5. \A i \in DOMAIN frames :
           IsSlice(mem, frames[i]) /\ Spared(s, frames[i]) => Spared(r.slice, frames[i])
    BY <2>2, <2>4, Zenon DEF Spared, InUse
  <2>6. QED
    BY <2>1, <2>2, <2>3, <2>4, <2>5, Moved, SMTT(40) DEF Appended
<1>3. QED
  BY <1>1, <1>2, Zenon

-----------------------------------------------------------------------------

\* The lower part of a stack.
LEMMA Cut ==
    ASSUME NEW S, NEW s \in Seq(S), NEW n \in 0 .. Len(s)
    PROVE  /\ SubSeq(s, 1, n) \in Seq(S) /\ Len(SubSeq(s, 1, n)) = n
           /\ DOMAIN SubSeq(s, 1, n) = 1 .. n
           /\ \A i \in 1 .. n : SubSeq(s, 1, n)[i] = s[i]
  OBVIOUS

-----------------------------------------------------------------------------
(* What the steps of Execution do with KS and CS. *)

\* A failure or an error leaves no captures, and the lower part of the stack.
LEMMA Halting ==
    ASSUME Bounds, Step, halts
    PROVE  KS' = <<>> /\ \E n \in 0 .. Len(CS) : CS' = SubSeq(CS, 1, n)
<1>1. Simulated
  BY SimulateStep, SMTT(40)
<1>2. BT!Halt
  BY <1>1, Zenon DEF halts, Simulated, BT!Next, BT!Move, BT!Push, BT!Pop, BT!Refresh, BT!Restore,
              BT!Record, BT!vars
<1>3. QED
  BY <1>2 DEF BT!Halt

\* popFault ends in an error.
LEMMA FaultHalts ==
    ASSUME popFault, R = "Running"
    PROVE  halts
  BY DEF popFault, rterr, halts

\* fail, unless it halts, resumes the topmost choice frame of cs.
LEMMA Failing ==
    ASSUME NEW cs \in Seq(Frame), fail(cs), R = "Running", ~ halts
    PROVE  \E i \in DOMAIN cs :
              cs[i].IsChoice /\ KS' = cs[i].KS /\ CS' = SubSeq(cs, 1, i - 1)
  BY DEF fail, resume, halts

\* An instruction that neither saves nor restores captures may pop a frame.
LEMMA Leaving ==
    ASSUME TypeOK, LeavesCaptures, ~ halts
    PROVE  KS' = KS /\ (CS' = CS \/ (CS # <<>> /\ CS' = popCS))
<1>1. CASE COMMIT
  BY <1>1, FaultHalts DEF COMMIT, Fetch, popsChoice
<1>2. CASE RET
  BY <1>2, SMTT(40) DEF RET, Fetch, rterr, halts, popsChoice
<1>3. CASE TLITB \/ TMATCHB \/ SPANB \/ RWNDB
  BY <1>3, Zenon DEF TLITB, TMATCHB, SPANB, RWNDB, Fetch, rterr, halts, advanceOrJump, advance
<1>4. CASE StepHalted \/ StepEOF \/ NOP \/ JMP \/ TANYB \/ TSAMEB \/ END
  BY <1>4 DEF StepHalted, StepEOF, NOP, JMP, TANYB, TSAMEB, END, advanceOrJump, advance
<1>5. CASE StepBadOp \/ GIVEUP
  BY <1>5 DEF StepBadOp, GIVEUP, Fetch, halts
<1>6. QED
  BY <1>1, <1>2, <1>3, <1>4, <1>5 DEF LeavesCaptures

\* A matching instruction leaves both stacks alone or resumes a choice frame.
LEMMA Matching ==
    ASSUME TypeOK, MayFail, ~ halts
    PROVE  \/ KS' = KS /\ CS' = CS
           \/ \E i \in DOMAIN CS :
                 CS[i].IsChoice /\ KS' = CS[i].KS /\ CS' = SubSeq(CS, 1, i - 1)
<1>1. CS \in Seq(Frame) /\ R = "Running"
  BY SMTT(40) DEF TypeOK, MayFail, FAIL, ANYB, SAMEB, LITB, MATCHB, FAIL2X, Fetch
<1>2. CASE FAIL
  BY <1>1, <1>2, Failing DEF FAIL
<1>3. ASSUME NEW good, NEW n, advanceOrFail(good, n)
      PROVE  \/ KS' = KS /\ CS' = CS
             \/ \E i \in DOMAIN CS :
                   CS[i].IsChoice /\ KS' = CS[i].KS /\ CS' = SubSeq(CS, 1, i - 1)
  BY <1>1, <1>3, Failing DEF advanceOrFail, advance
<1>4. CASE ANYB \/ SAMEB
  BY <1>3, <1>4, SMTT(40) DEF ANYB, SAMEB
<1>5. CASE LITB \/ MATCHB
  BY <1>1, <1>3, <1>5, SMTT(40) DEF LITB, MATCHB, rterr, halts
<1>6. CASE FAIL2X
  <2>1. CS # <<>> /\ fail(popCS)
    BY <1>1, <1>6, FaultHalts DEF FAIL2X, popsChoice
  <2>2. /\ popCS \in Seq(Frame) /\ Len(popCS) = Len(CS) - 1
        /\ \A i \in DOMAIN popCS : popCS[i] = CS[i]
    <3>1. Len(CS) - 1 \in 0 .. Len(CS)
      BY <1>1, <2>1
    <3>2. QED
      BY <1>1, <3>1, Cut, ZenonT(40) DEF popCS
  <2>3. PICK i \in DOMAIN popCS :
           popCS[i].IsChoice /\ KS' = popCS[i].KS /\ CS' = SubSeq(popCS, 1, i - 1)
    BY <1>1, <2>1, <2>2, Failing
  <2>4. i \in DOMAIN CS /\ SubSeq(popCS, 1, i - 1) = SubSeq(CS, 1, i - 1)
    BY <1>1, <2>1, <2>2 DEF popCS
  <2>5. QED
    BY <2>2, <2>3, <2>4
<1>7. QED
  BY <1>2, <1>4, <1>5, <1>6, SMTT(40) DEF MayFail

-----------------------------------------------------------------------------
(* The inductive invariant. *)

Header == [array : Array \cup {0}, len : Nat]

Live(r) == r \in {"Running", "Success"}

\* No slice of a frame is longer than x.KS, nor than the slice of a choice
\* frame above it, which may become x.KS.
Nested(cs, fs, s) ==
    \A i \in DOMAIN fs :
        /\ fs[i].len <= s.len
        /\ cs[i].IsChoice => \A j \in 1 .. i : fs[j].len <= fs[i].len

SliceInv ==
    /\ arrays \in Memory
    /\ IsSlice(arrays, ks)
    /\ frames \in Seq(Header) /\ Len(frames) = Len(CS)
    /\ \A i \in DOMAIN frames : IsSlice(arrays, frames[i])
    /\ SlicesShowTheCaptures
    /\ Live(R) => Nested(CS, frames, ks)

\* Frames are dropped, and x.KS is left alone or replaced.
LEMMA Dropping ==
    ASSUME TypeOK, SliceInv, NEW n \in 0 .. Len(CS),
           CS' = SubSeq(CS, 1, n), frames' = SubSeq(frames, 1, n), UNCHANGED arrays,
           IsSlice(arrays, ks'), view(arrays, ks') = KS',
           Live(R') => Live(R) /\ \A i \in 1 .. n : frames[i].len <= ks'.len
    PROVE  SliceInv'
<1>1. /\ CS \in Seq(Frame) /\ frames \in Seq(Header) /\ Len(frames) = Len(CS)
      /\ Len(CS) \in Nat /\ n \in 0 .. Len(frames)
  BY SMTT(40) DEF TypeOK, SliceInv
<1>2. /\ Len(CS') = n /\ DOMAIN CS' = 1 .. n
      /\ \A i \in 1 .. n : CS'[i] = CS[i]
  BY <1>1, Cut, ZenonT(40)
<1>3. /\ frames' \in Seq(Header) /\ Len(frames') = n /\ DOMAIN frames' = 1 .. n
      /\ \A i \in 1 .. n : frames'[i] = frames[i]
  BY <1>1, Cut
<1>4. \A i \in 1 .. n : i \in DOMAIN frames /\ i \in DOMAIN CS
  BY <1>1
<1>5. Header' = Header /\ Memory' = Memory
  BY SMTT(40) DEF Header, Memory, Array, Assignment, U64
<1>6. SlicesShowTheCaptures'
  BY <1>2, <1>3, <1>4, Zenon DEF SliceInv, SlicesShowTheCaptures, view
<1>7. \A i \in DOMAIN frames' : IsSlice(arrays, frames'[i])
  BY <1>3, <1>4, SMTT(40) DEF SliceInv
<1>8. ASSUME Live(R') PROVE Nested(CS', frames', ks')
  <2>1. Nested(CS, frames, ks)
    BY <1>8, SMTT(40) DEF SliceInv
  <2>2. QED
    BY <1>2, <1>3, <1>4, <1>8, <2>1 DEF Nested
<1>9. QED
  BY <1>2, <1>3, <1>5, <1>6, <1>7, <1>8, SMTT(40) DEF SliceInv, IsSlice, Live, Nested

\* A frame is pushed on what is left of the stack.
LEMMA Pushing ==
    ASSUME TypeOK, SliceInv, NEW n \in 0 .. Len(CS), NEW fr \in Frame, NEW t,
           CS' = Append(SubSeq(CS, 1, n), fr), frames' = Append(SubSeq(frames, 1, n), t),
           UNCHANGED <<arrays, ks, KS>>, Live(R),
           IsSlice(arrays, t), view(arrays, t) = fr.KS, t.len <= ks.len,
           fr.IsChoice => t = ks
    PROVE  SliceInv'
<1>1. /\ CS \in Seq(Frame) /\ frames \in Seq(Header) /\ Len(frames) = Len(CS)
      /\ Len(CS) \in Nat /\ n \in 0 .. Len(frames) /\ n \in Nat
  <2>1. CS \in Seq(Frame) /\ frames \in Seq(Header) /\ Len(frames) = Len(CS)
    BY Zenon DEF TypeOK, SliceInv
  <2> QED
    BY <2>1
<1>2. t \in Header
  BY SMTT(40) DEF IsSlice, Header
<1> DEFINE cs == SubSeq(CS, 1, n)
           fs == SubSeq(frames, 1, n)
<1>3. cs \in Seq(Frame) /\ Len(cs) = n /\ \A i \in 1 .. n : cs[i] = CS[i]
  BY <1>1, Cut, SMTT(40)
<1>4. fs \in Seq(Header) /\ Len(fs) = n /\ \A i \in 1 .. n : fs[i] = frames[i]
  BY <1>1, Cut, SMTT(40)
<1> HIDE DEF cs, fs
<1>5. /\ Len(CS') = n + 1 /\ DOMAIN CS' = 1 .. n + 1 /\ CS'[n + 1] = fr
      /\ \A i \in 1 .. n : CS'[i] = CS[i]
  <2>1. CS' = Append(cs, fr)
    BY DEF cs
  <2> QED
    BY <1>1, <1>3, <2>1
<1>6. /\ frames' \in Seq(Header) /\ Len(frames') = n + 1 /\ DOMAIN frames' = 1 .. n + 1
      /\ frames'[n + 1] = t /\ \A i \in 1 .. n : frames'[i] = frames[i]
  BY <1>1, <1>2, <1>4 DEF fs
<1>7. \A i \in 1 .. n : i \in DOMAIN frames /\ i \in DOMAIN CS
  BY <1>1
<1>8. \A i \in 1 .. n + 1 : i = n + 1 \/ i \in 1 .. n
  BY <1>1
<1>9. SlicesShowTheCaptures'
  <2>1. ASSUME NEW i \in 1 .. n PROVE view(arrays, frames'[i]) = CS'[i].KS
    BY <1>5, <1>6, <1>7, ZenonT(40) DEF SliceInv, SlicesShowTheCaptures
  <2>2. view(arrays, frames'[n + 1]) = CS'[n + 1].KS
    BY <1>5, <1>6, SMTT(40)
  <2>3. \A i \in DOMAIN CS' : view(arrays, frames'[i]) = CS'[i].KS
    BY <1>5, <1>8, <2>1, <2>2, SMTT(40)
  <2>4. QED
    BY ZenonT(40), <2>3 DEF SliceInv, SlicesShowTheCaptures, view
<1>10. \A i \in DOMAIN frames' : IsSlice(arrays, frames'[i])
  BY <1>6, <1>7, <1>8, SMTT(40) DEF SliceInv
<1>11. Nested(CS', frames', ks)
  <2>1. Nested(CS, frames, ks)
    BY SMTT(40) DEF SliceInv
  <2>2. ASSUME NEW i \in 1 .. n
        PROVE  /\ frames'[i].len <= ks.len
               /\ CS'[i].IsChoice => \A j \in 1 .. i : frames'[j].len <= frames'[i].len
    BY <1>5, <1>6, <1>7, <2>1, SMTT(40) DEF Nested
  <2>3. ASSUME fr.IsChoice, NEW j \in 1 .. n + 1
        PROVE  frames'[j].len <= frames'[n + 1].len
    BY <1>2, <1>6, <1>8, <2>2, <2>3, SMTT(40) DEF Header
  <2>4. QED
    BY <1>5, <1>6, <1>8, <2>2, <2>3, SMTT(40) DEF Nested
<1>12. QED
  BY <1>5, <1>6, <1>9, <1>10, <1>11, ZenonT(40) DEF SliceInv, IsSlice, Live, Nested, Header, Memory, Array,
     Assignment, U64

\* Every frame is spared by an append to x.KS.
LEMMA FramesSpared ==
    ASSUME SliceInv, Live(R)
    PROVE  \A i \in DOMAIN frames : IsSlice(arrays, frames[i]) /\ Spared(ks, frames[i])
  BY SMTT(40) DEF SliceInv, Nested, Spared, InUse

\* One append or two, to x.KS.
LEMMA Recording ==
    ASSUME TypeOK, SliceInv, Live(R), UNCHANGED <<CS, frames>>,
           arrays' \in Memory, IsSlice(arrays', ks'), ks'.len >= ks.len,
           view(arrays', ks') = KS',
           \A i \in DOMAIN frames :
               IsSlice(arrays', frames[i]) /\ view(arrays', frames[i]) = view(arrays, frames[i])
    PROVE  SliceInv'
<1>1. SlicesShowTheCaptures'
  <2>1. \A i \in DOMAIN CS : i \in DOMAIN frames
    BY SMTT(40) DEF SliceInv, TypeOK
  <2>2. QED
    BY ZenonT(90), <2>1 DEF SliceInv, SlicesShowTheCaptures, view
<1>2. Nested(CS, frames, ks')
  <2>1. Nested(CS, frames, ks)
    BY SMTT(40) DEF SliceInv
  <2>2. ks.len \in Nat /\ ks'.len \in Nat /\ \A i \in DOMAIN frames : frames[i].len \in Nat
    BY SMTT(40) DEF SliceInv, IsSlice
  <2>3. QED
    BY <2>1, <2>2, SMTT(40) DEF Nested
<1>3. QED
  BY <1>1, <1>2, Zenon DEF SliceInv, IsSlice, Nested, Header, Memory, Array, Assignment, U64

-----------------------------------------------------------------------------

\* Every step keeps the invariant.
LEMMA SliceStep ==
    ASSUME Bounds, Bounds', SliceInv, SliceNext
    PROVE  SliceInv'
<1>1. /\ TypeOK /\ TypeOK' /\ CS \in Seq(Frame) /\ KS \in Seq(Assignment)
      /\ CS' \in Seq(Frame) /\ KS' \in Seq(Assignment) /\ Len(CS) \in Nat
      /\ CS = SubSeq(CS, 1, Len(CS))
  BY SMTT(40) DEF Bounds, TypeOK
<1>2. /\ IsSlice(arrays, ks) /\ view(arrays, ks) = KS
      /\ frames \in Seq(Header) /\ Len(frames) = Len(CS)
      /\ DOMAIN frames = 1 .. Len(CS) /\ DOMAIN CS = 1 .. Len(CS)
      /\ frames = SubSeq(frames, 1, Len(CS))
  BY <1>1, SMTT(40) DEF SliceInv, SlicesShowTheCaptures
<1>3. nil \in Header /\ view(arrays, nil) = <<>> /\ IsSlice(arrays, nil)
  <2>1. nil \in Header
    BY DEF nil, Header
  <2>2. view(arrays, nil) = <<>>
    BY DEF nil, view
  <2>3. arrays[0] \in Seq(Assignment)
    BY DEF SliceInv, Memory
  <2>4. QED
    BY <2>1, <2>2, <2>3 DEF nil, Header, IsSlice
<1>4. ASSUME keeps, KS' = KS, Live(R') => Live(R),
             NEW n \in 0 .. Len(CS), CS' = SubSeq(CS, 1, n)
      PROVE  SliceInv'
  <2>1. frames' = SubSeq(frames, 1, n)
    BY <1>1, <1>4, Cut, SMTT(40) DEF keeps, cut
  <2>2. Live(R) => \A i \in 1 .. n : frames[i].len <= ks.len
    BY <1>2, SMTT(40) DEF SliceInv, Nested
  <2>3. QED
    BY <1>1, <1>2, <1>4, <2>1, <2>2, Dropping, SMTT(40) DEF keeps
<1>5. ASSUME restores, Live(R), NEW i \in DOMAIN CS, CS[i].IsChoice, KS' = CS[i].KS,
             CS' = SubSeq(CS, 1, i - 1)
      PROVE  SliceInv'
  <2>1. i - 1 \in 0 .. Len(CS) /\ Len(CS') = i - 1
    BY <1>1, <1>2, <1>5, Cut
  <2>2. ks' = frames[i] /\ frames' = SubSeq(frames, 1, i - 1) /\ arrays' = arrays
    BY <1>2, <1>5, <2>1, SMTT(40) DEF restores, cut
  <2>3. IsSlice(arrays, frames[i]) /\ view(arrays, frames[i]) = CS[i].KS
    BY <1>2, <1>5, SMTT(40) DEF SliceInv, SlicesShowTheCaptures
  <2>4. \A j \in 1 .. i - 1 : frames[j].len <= frames[i].len
    BY <1>2, <1>5, <2>1, SMTT(40) DEF SliceInv, Nested
  <2>5. QED
    BY <1>1, <1>5, <2>1, <2>2, <2>3, <2>4, Dropping, Zenon
<1>6. CASE Step /\ halts /\ discards
  <2>1. PICK n \in 0 .. Len(CS) : CS' = SubSeq(CS, 1, n)
    BY <1>6, Halting
  <2>2. KS' = <<>> /\ ~ Live(R')
    BY <1>6, Halting DEF halts, Live
  <2>3. ks' = nil /\ frames' = SubSeq(frames, 1, n) /\ arrays' = arrays
    BY <1>1, <1>6, <2>1, Cut DEF discards, cut
  <2>4. QED
    BY <1>1, <1>3, <2>1, <2>2, <2>3, Dropping, SMTT(40)
<1>7. CASE LeavesCaptures /\ ~ halts /\ keeps
  <2>1. KS' = KS /\ (CS' = CS \/ (CS # <<>> /\ CS' = popCS))
    BY <1>1, <1>7, Leaving, SMTT(40)
  <2>2. Live(R') => Live(R)
    BY <1>7, Zenon DEF Live, LeavesCaptures, StepHalted, StepEOF, StepBadOp, NOP, COMMIT, JMP, RET,
           TANYB, TSAMEB, TLITB, TMATCHB, SPANB, RWNDB, GIVEUP, END, Fetch
  <2>3. \E n \in 0 .. Len(CS) : CS' = SubSeq(CS, 1, n)
    BY SMTT(40), <1>1, <2>1 DEF popCS
  <2>4. QED
    BY <1>4, <1>7, <2>1, <2>2, <2>3
<1>8. ASSUME MayFail, ~ halts
      PROVE  /\ R = "Running"
             /\ \/ KS' = KS /\ CS' = CS
                \/ \E i \in DOMAIN CS :
                      CS[i].IsChoice /\ KS' = CS[i].KS /\ CS' = SubSeq(CS, 1, i - 1)
  BY <1>1, <1>8, Matching, Zenon DEF MayFail, FAIL, ANYB, SAMEB, LITB, MATCHB, FAIL2X, Fetch
<1>9. CASE MayFail /\ ~ halts /\ Len(CS') = Len(CS) /\ keeps
  <2>1. KS' = KS /\ CS' = CS
    BY <1>1, <1>2, <1>8, <1>9, Cut, SMTT(40)
  <2>2. Len(CS) \in 0 .. Len(CS) /\ CS' = SubSeq(CS, 1, Len(CS)) /\ Live(R)
    BY <1>1, <1>8, <1>9, <2>1 DEF Live
  <2>3. QED
    BY <1>4, <1>9, <2>1, <2>2, SMTT(40)
<1>10. CASE MayFail /\ ~ halts /\ Len(CS') < Len(CS) /\ restores
  <2>1. PICK i \in DOMAIN CS :
           CS[i].IsChoice /\ KS' = CS[i].KS /\ CS' = SubSeq(CS, 1, i - 1)
    BY <1>1, <1>8, <1>10
  <2>2. QED
    BY <1>5, <1>8, <1>10, <2>1 DEF Live
<1>11. ASSUME CHOICE \/ PCOMMIT, ~ halts
       PROVE  /\ R = "Running" /\ KS' = KS
              /\ ret' = "panic" => \E n \in 0 .. Len(CS) : CS' = SubSeq(CS, 1, n)
              /\ ret' = "nil" => \E n \in 0 .. Len(CS), fr \in Frame :
                     /\ CS' = Append(SubSeq(CS, 1, n), fr)
                     /\ fr.IsChoice /\ fr.KS = KS
  <2>1. R = "Running"
    BY <1>11 DEF CHOICE, PCOMMIT, Fetch
  <2>2. CASE CHOICE
    <3>1. CASE ret' = "panic"
      <4>1. CS' = CS /\ KS' = KS /\ Len(CS) \in 0 .. Len(CS)
        BY <1>1, <2>2, <3>1 DEF CHOICE
      <4>2. QED
        BY <1>1, <2>1, <3>1, <4>1, Zenon
    <3>2. CASE ret' # "panic"
      <4> DEFINE fr == [IsChoice |-> TRUE, DP |-> DP, XP |-> NextXP + Op.Imm0, KS |-> KS]
      <4>1. CS' = Append(CS, fr) /\ NextXP + Op.Imm0 \in U64 /\ KS' = KS /\ ret' = "nil"
        BY <2>2, <3>2 DEF CHOICE
      <4>2. fr \in Frame
        BY <1>1, <4>1, SMTT(40) DEF TypeOK, Frame
      <4>3. QED
        BY SMTT(40), <1>1, <2>1, <4>1, <4>2
    <3>3. QED
      BY SMTT(40), <3>1, <3>2
  <2>3. CASE PCOMMIT
    <3>1. CS # <<>> /\ KS' = KS
      BY <1>11, <2>1, <2>3, FaultHalts DEF PCOMMIT, popsChoice
    <3>2. Len(CS) - 1 \in 0 .. Len(CS) /\ popCS = SubSeq(CS, 1, Len(CS) - 1)
      BY <1>1, <3>1 DEF popCS
    <3>3. CASE ret' = "panic"
      BY <1>11, <2>1, <2>3, <3>1, <3>2, <3>3, FaultHalts DEF PCOMMIT
    <3>4. CASE ret' # "panic"
      <4> DEFINE fr == [IsChoice |-> TRUE, DP |-> DP, XP |-> NextXP + Op.Imm0, KS |-> KS]
      <4>1. CS' = Append(popCS, fr) /\ NextXP + Op.Imm0 \in U64
        BY <1>11, <2>1, <2>3, <3>4, FaultHalts DEF PCOMMIT
      <4>2. fr \in Frame
        BY <1>1, <4>1 DEF TypeOK, Frame
      <4>3. QED
        BY <2>1, <3>1, <3>2, <3>4, <4>1, <4>2, Zenon
    <3>5. QED
      BY <3>3, <3>4, Zenon
  <2>4. QED
    BY <1>11, <2>2, <2>3
<1>12. CASE (CHOICE \/ PCOMMIT) /\ ~ halts /\ ret' = "nil" /\ saves /\ UNCHANGED <<arrays, ks>>
  <2>1. PICK n \in 0 .. Len(CS), fr \in Frame :
           CS' = Append(SubSeq(CS, 1, n), fr) /\ fr.IsChoice /\ fr.KS = KS
    BY <1>11, <1>12
  <2>2. SubSeq(CS, 1, n) \in Seq(Frame) /\ Len(SubSeq(CS, 1, n)) = n
    BY <1>1, Cut
  <2>3. Len(CS') - 1 = n
    BY <2>1, <2>2
  <2>4. frames' = Append(SubSeq(frames, 1, n), ks)
    BY <1>12, <2>3 DEF saves
  <2>5. ks.len <= ks.len
    BY <1>2 DEF IsSlice
  <2>6. QED
    BY <1>1, <1>2, <1>11, <1>12, <2>1, <2>4, <2>5, Pushing, Zenon DEF Live
<1>13. CASE (CHOICE \/ PCOMMIT) /\ ~ halts /\ ret' = "panic" /\ keeps
  BY <1>4, <1>11, <1>13 DEF Live
<1>14. CASE CALL /\ frames' = Append(frames, nil) /\ UNCHANGED <<arrays, ks>>
  <2> DEFINE fr == [IsChoice |-> FALSE, DP |-> 0, XP |-> NextXP, KS |-> <<>>]
  <2>1. R = "Running" /\ CS' = Append(CS, fr) /\ KS' = KS
    BY <1>14 DEF CALL, Fetch
  <2>2. fr \in Frame
    <3>1. NextXP \in U64
      BY <1>1, <1>14, FetchType DEF CALL
    <3>2. QED
      BY <3>1, MaxU64Assumption, SMTT(40) DEF Frame, U64
  <2>3. nil.len <= ks.len
    BY <1>2 DEF nil, IsSlice
  <2>4. fr.KS = <<>> /\ ~ fr.IsChoice /\ Len(CS) \in 0 .. Len(CS)
    BY <1>1
  <2> HIDE DEF fr
  <2>5. CS' = Append(SubSeq(CS, 1, Len(CS)), fr) /\ frames' = Append(SubSeq(frames, 1, Len(CS)), nil)
    BY <1>1, <1>2, <1>14, <2>1
  <2>6. QED
    BY <1>1, <1>3, <1>14, <2>1, <2>2, <2>3, <2>4, <2>5, Pushing, Zenon DEF Live
<1>15. CASE BCOMMIT /\ ~ halts /\ restores
  <2>1. R = "Running"
    BY <1>15 DEF BCOMMIT, Fetch
  <2>2. popsChoice /\ CS' = popCS /\ KS' = top.KS
    BY <1>15, <2>1, FaultHalts DEF BCOMMIT
  <2>3. Len(CS) \in DOMAIN CS /\ CS[Len(CS)].IsChoice
    BY <1>1, <1>2, <2>2, SMTT(40) DEF popsChoice, top
  <2>4. QED
    BY <1>5, <1>15, <2>1, <2>2, <2>3 DEF popCS, top, Live
<1>16. CASE (BCAP \/ ECAP) /\ ~ halts /\ records1(KS'[Len(KS')])
  <2> DEFINE a == KS'[Len(KS')]
  <2>1. R = "Running" /\ UNCHANGED CS /\ \E b : KS' = Append(KS, b)
    BY ZenonT(40), <1>16 DEF BCAP, ECAP, Fetch, assign, rterr, halts
  <2>2. KS' = Append(KS, a) /\ a \in Assignment
    BY <1>1, <2>1
  <2> HIDE DEF a
  <2>3. PICK r \in append(arrays, ks, a) : arrays' = r.arrays /\ ks' = r.slice /\ UNCHANGED frames
    BY <1>16, SMTT(40) DEF records1, a
  <2>4. arrays \in Memory
    BY SMTT(40) DEF SliceInv
  <2>5. /\ r.arrays \in Memory /\ IsSlice(r.arrays, r.slice) /\ r.slice.len = ks.len + 1
        /\ view(r.arrays, r.slice) = Append(KS, a)
        /\ \A t : IsSlice(arrays, t) /\ Spared(ks, t) =>
                  IsSlice(r.arrays, t) /\ view(r.arrays, t) = view(arrays, t)
    <3>1. Appended(arrays, ks, a, r)
      BY <1>2, <2>2, <2>4, Appends, Zenon
    <3> QED
      BY <1>2, <3>1, Zenon DEF Appended
  <2>6. ks'.len >= ks.len
    BY <1>2, <2>3, <2>5, SMTT(40) DEF IsSlice
  <2>7. \A i \in DOMAIN frames : /\ IsSlice(arrays', frames[i])
                                /\ view(arrays', frames[i]) = view(arrays, frames[i])
    BY <2>1, <2>3, <2>5, FramesSpared, SMTT(40) DEF Live
  <2>8. QED
    BY <1>1, <2>1, <2>2, <2>3, <2>5, <2>6, <2>7, Recording, Zenon DEF Live
<1>17. CASE FCAP /\ ~ halts /\ records2(KS'[Len(KS') - 1], KS'[Len(KS')])
  <2> DEFINE a == KS'[Len(KS') - 1]
             b == KS'[Len(KS')]
  <2>1. R = "Running" /\ UNCHANGED CS /\ \E c, d : KS' = Append(Append(KS, c), d)
    BY <1>17, Zenon DEF FCAP, Fetch, assign, rterr, halts
  <2>2. KS' = Append(Append(KS, a), b) /\ a \in Assignment /\ b \in Assignment
    BY <1>1, <2>1
  <2> HIDE DEF a, b
  <2>a. PICK r \in append(arrays, ks, a) :
            \E s \in append(r.arrays, r.slice, b) :
                arrays' = s.arrays /\ ks' = s.slice /\ UNCHANGED frames
    BY <1>17 DEF records2, a, b
  <2>3. PICK s \in append(r.arrays, r.slice, b) :
            arrays' = s.arrays /\ ks' = s.slice /\ UNCHANGED frames
    BY <2>a
  <2>4. arrays \in Memory
    BY DEF SliceInv
  <2>5. /\ r.arrays \in Memory /\ IsSlice(r.arrays, r.slice) /\ r.slice.len = ks.len + 1
        /\ view(r.arrays, r.slice) = Append(KS, a)
        /\ \A i \in DOMAIN frames :
              /\ IsSlice(r.arrays, frames[i]) /\ Spared(r.slice, frames[i])
              /\ view(r.arrays, frames[i]) = view(arrays, frames[i])
    <3>1. \A i \in DOMAIN frames : IsSlice(arrays, frames[i]) /\ Spared(ks, frames[i])
      BY <2>1, FramesSpared, SMTT(40) DEF Live
    <3>2. /\ r.arrays \in Memory /\ IsSlice(r.arrays, r.slice) /\ r.slice.len = ks.len + 1
          /\ view(r.arrays, r.slice) = Append(view(arrays, ks), a)
          /\ \A t : IsSlice(arrays, t) /\ Spared(ks, t) =>
                    IsSlice(r.arrays, t) /\ view(r.arrays, t) = view(arrays, t)
          /\ \A i \in DOMAIN frames :
                IsSlice(arrays, frames[i]) /\ Spared(ks, frames[i]) => Spared(r.slice, frames[i])
      <4>1. Appended(arrays, ks, a, r)
        BY <1>2, <2>2, <2>4, Appends, Zenon
      <4> QED
        BY <4>1, Zenon DEF Appended
    <3> QED
      BY <1>2, <3>1, <3>2, Zenon
  <2>6. /\ s.arrays \in Memory /\ IsSlice(s.arrays, s.slice) /\ s.slice.len = r.slice.len + 1
        /\ view(s.arrays, s.slice) = Append(Append(KS, a), b)
        /\ \A i \in DOMAIN frames :
              /\ IsSlice(s.arrays, frames[i])
              /\ view(s.arrays, frames[i]) = view(r.arrays, frames[i])
    <3>1. /\ s.arrays \in Memory /\ IsSlice(s.arrays, s.slice) /\ s.slice.len = r.slice.len + 1
          /\ view(s.arrays, s.slice) = Append(view(r.arrays, r.slice), b)
          /\ \A t : IsSlice(r.arrays, t) /\ Spared(r.slice, t) =>
                    IsSlice(s.arrays, t) /\ view(s.arrays, t) = view(r.arrays, t)
      <4>1. r.arrays \in Memory /\ IsSlice(r.arrays, r.slice) /\ b \in Assignment
        BY <2>2, <2>5, Zenon
      <4>2. Appended(r.arrays, r.slice, b, s)
        BY <4>1, Appends, Zenon
      <4> QED
        BY <4>2, Zenon DEF Appended
    <3> QED
      BY <2>5, <3>1, ZenonT(40)
  <2>7. ks'.len >= ks.len
    BY <1>2, <2>3, <2>5, <2>6, SMTT(40) DEF IsSlice
  <2>8. QED
    BY <1>1, <2>1, <2>2, <2>3, <2>5, <2>6, <2>7, Recording, Zenon DEF Live
<1>18. QED
  BY <1>6, <1>7, <1>9, <1>10, <1>12, <1>13, <1>14, <1>15, <1>16, <1>17 DEF SliceNext

\* Treating the capture stack as a value is sound: the slice x.KS and the
\* slices saved in frames share arrays, and append writes to them, but each of
\* them shows, at all times, just the captures recorded when it was made.
THEOREM SlicesTheorem == SliceSpec => []SlicesShowTheCaptures
<1>1. SliceInit => Init /\ SliceInv
  <2>. SUFFICES ASSUME SliceInit PROVE SliceInv
    BY DEF SliceInit
  <2>2. P.Captures \in Nat
    BY ProgramsAssumption DEF SliceInit, Init, IsProgram
  <2>3. Unused \in Assignment /\ Array \subseteq Nat \ {0} /\ 1 \in Array
    BY MaxU64Assumption, BoundsAssumption DEF Unused, Assignment, U64, Array
  <2>4. [k \in 1 .. 2 * P.Captures |-> Unused] \in Seq(Assignment)
    BY <2>2, <2>3
  <2>5. arrays \in Memory
    BY <2>3, <2>4 DEF SliceInit, Memory
  <2>6. ks.array = 1 /\ ks.len = 0 /\ ks \in Header /\ frames = <<>> /\ CS = <<>> /\ KS = <<>>
    BY <2>3 DEF SliceInit, Header, Init
  <2>7. IsSlice(arrays, ks) /\ view(arrays, ks) = <<>>
    BY <2>3, <2>5, <2>6 DEF IsSlice, Memory, Header, view
  <2>8. QED
    BY <2>5, <2>6, <2>7, SMTT(40) DEF SliceInv, SlicesShowTheCaptures, Nested
<1>2. [SliceNext]_<<vars, sliceVars>> => [Step]_vars
  BY DEF SliceNext, LeavesCaptures, MayFail, Step
<1>3. Bounds /\ Bounds' /\ SliceInv /\ [SliceNext]_<<vars, sliceVars>> => SliceInv'
  <2>1. ASSUME SliceInv, UNCHANGED <<vars, sliceVars>> PROVE SliceInv'
    BY <2>1, Zenon DEF SliceInv, vars, sliceVars, SlicesShowTheCaptures, IsSlice, Nested, Header,
                Memory, Array, Assignment, U64, view, Live
  <2>2. QED
    BY <2>1, SliceStep, SMTT(40)
<1>4. SliceInv => SlicesShowTheCaptures
  BY DEF SliceInv
<1>5. SliceSpec => Spec
  BY <1>1, <1>2, PTL DEF SliceSpec, Spec
<1>6. QED
  BY <1>1, <1>3, <1>4, <1>5, BoundsInvariant, PTL DEF SliceSpec

-----------------------------------------------------------------------------
(* Program.Match. *)

\* Every nonempty set of naturals has a least element.
LEMMA LeastNat ==
    ASSUME NEW T, T \subseteq Nat, T # {}
    PROVE  \E n \in T : \A m \in T : n <= m
<1> DEFINE lt == {ss \in Nat \X Nat : ss[1] < ss[2]}
<1>1. IsWellFoundedOn(lt, Nat)
  BY NatLessThanWellFounded DEF OpToRel
<1> HIDE DEF lt
<1>2. PICK n \in T : \A m \in T : ~ (<<m, n>> \in lt)
  BY <1>1, WFMin, Zenon
<1>3. \A m \in T : m \in Nat /\ n \in Nat /\ ~ m < n
  BY <1>2, Zenon DEF lt
<1> QED
  BY <1>3

-----------------------------------------------------------------------------
(* The machine inside Match. *)

\* Run is a sequence of Steps: Match takes the machine through one of its own
\* behaviours.
LEMMA MatchRuns == MatchSpec => Spec
<1>1. MatchInit => Init
  BY DEF MatchInit
<1>2. [MatchNext]_matchVars => [Step]_vars
  BY DEF MatchNext, Run, Panic, Return, matchVars, vars
<1> QED
  BY <1>1, <1>2, PTL DEF MatchSpec, Spec

\* What is known of the machine.
Machine == Bounds /\ NoCapturesUnlessLive /\ CapturesNeverAhead

LEMMA MachineInvariant == MatchSpec => []Machine
  BY MatchRuns, BoundsInvariant, NoCaptures, NeverAhead, PTL DEF Machine

-----------------------------------------------------------------------------
(* The loop over the capture stack. *)

Pair == [S : U64, E : U64]
Capture == [Exists : BOOLEAN, Solo : Pair, Multi : Seq(Pair)]
Accumulator == [captures : [Indices -> Capture], pending : [Indices -> U64]]

Empty == [captures |-> [c \in Indices |-> NoCapture], pending |-> [c \in Indices |-> 0]]

\* f gives the accumulator after each of the first m turns.
Turns(f, m) ==
    \A k \in 0 .. Len(KS) : k <= m => f[k] = IF k = 0 THEN Empty ELSE apply(f[k - 1], KS[k])

LEMMA Marks ==
    ASSUME Bounds
    PROVE  /\ Len(KS) \in Nat /\ DOMAIN KS = 1 .. Len(KS)
           /\ \A k \in 1 .. Len(KS) : /\ KS[k].Index \in Indices /\ KS[k].IsEnd \in BOOLEAN
                                      /\ KS[k].DP \in U64 /\ KS[k].DP \in Nat /\ KS[k].DP <= Len(I)
           /\ 0 \in U64 /\ Len(I) \in Nat /\ U64 \subseteq Nat
<1>1. KS \in Seq(Assignment) /\ I \in Seq(Byte) /\ P.Captures \in Nat
  BY DEF Bounds, TypeOK, IsProgram
<1>2. \A a \in Assignment : a.Index \in Nat /\ a.IsEnd \in BOOLEAN /\ a.DP \in U64
  BY DEF Assignment
<1>3. \A k \in 1 .. Len(KS) : KS[k].Index < P.Captures /\ KS[k].DP <= Len(I)
  BY <1>1 DEF Bounds, CapturesInBounds, AssignmentsInBounds
<1>4. U64 \subseteq Nat /\ 0 \in U64
  BY MaxU64Assumption DEF U64
<1>5. \A k \in 1 .. Len(KS) : KS[k] \in Assignment
  BY <1>1
<1>6. \A k \in 1 .. Len(KS) : KS[k].Index \in Indices
  BY <1>1, <1>2, <1>3, <1>5 DEF Indices
<1>7. Len(KS) \in Nat /\ DOMAIN KS = 1 .. Len(KS) /\ Len(I) \in Nat
  BY <1>1
<1>8. \A k \in 1 .. Len(KS) : KS[k].IsEnd \in BOOLEAN /\ KS[k].DP \in U64 /\ KS[k].DP \in Nat
  BY <1>2, <1>4, <1>5, Zenon
<1> QED
  BY <1>3, <1>4, <1>6, <1>7, <1>8

LEMMA EmptyType == 0 \in U64 => Empty \in Accumulator
<1> SUFFICES ASSUME 0 \in U64 PROVE Empty \in Accumulator
  OBVIOUS
<1>1. NoCapture \in Capture
  BY SMTT(40) DEF NoCapture, Capture, Pair
<1> QED
  BY <1>1 DEF Empty, Accumulator

\* What a turn of the loop does, field by field.
LEMMA Applied ==
    ASSUME NEW acc \in Accumulator, NEW a,
           a.Index \in Indices, a.IsEnd \in BOOLEAN, a.DP \in U64, 0 \in U64
    PROVE  LET pair == [S |-> acc.pending[a.Index], E |-> a.DP]
               new == apply(acc, a)
           IN  /\ new \in Accumulator
               /\ pair \in Pair
               /\ \A c \in Indices : c # a.Index =>
                     new.captures[c] = acc.captures[c] /\ new.pending[c] = acc.pending[c]
               /\ a.IsEnd =>
                     /\ new.captures[a.Index].Multi = Append(acc.captures[a.Index].Multi, pair)
                     /\ new.pending[a.Index] = 0
               /\ ~ a.IsEnd =>
                     /\ new.captures = acc.captures
                     /\ new.pending[a.Index] = a.DP
<1> DEFINE pair == [S |-> acc.pending[a.Index], E |-> a.DP]
           rest == Append(acc.captures[a.Index].Multi, pair)
           here == [Exists |-> TRUE, Solo |-> pair, Multi |-> rest]
<1>1. acc.captures \in [Indices -> Capture] /\ acc.pending \in [Indices -> U64]
  BY DEF Accumulator
<1>2. pair \in Pair
  BY <1>1, Zenon DEF Pair
<1>3. acc.captures[a.Index].Multi \in Seq(Pair)
  BY <1>1, SMTT(40) DEF Capture
<1>4. here \in Capture
  BY SMTT(40), <1>2, <1>3 DEF Capture
<1>5. CASE a.IsEnd
  <2>1. apply(acc, a) = [captures |-> [acc.captures EXCEPT ![a.Index] = here],
                         pending |-> [acc.pending EXCEPT ![a.Index] = 0]]
    BY <1>5 DEF apply
  <2>2. [acc.captures EXCEPT ![a.Index] = here] \in [Indices -> Capture]
    BY <1>1, <1>4, Zenon
  <2>3. [acc.pending EXCEPT ![a.Index] = 0] \in [Indices -> U64]
    BY <1>1
  <2>4. apply(acc, a) \in Accumulator
    BY <2>1, <2>2, <2>3, SMTT(40) DEF Accumulator
  <2>5. here.Multi = rest
    BY Zenon
  <2> HIDE DEF here
  <2> QED
    BY <1>1, <1>2, <1>5, <2>1, <2>4, <2>5, SMTT(40)
<1>6. CASE ~ a.IsEnd
  <2>1. apply(acc, a) = [acc EXCEPT !.pending = [acc.pending EXCEPT ![a.Index] = a.DP]]
    BY <1>6 DEF apply
  <2>2. [acc.pending EXCEPT ![a.Index] = a.DP] \in [Indices -> U64]
    BY <1>1
  <2>3. apply(acc, a) = [captures |-> acc.captures,
                         pending |-> [acc.pending EXCEPT ![a.Index] = a.DP]]
    BY <2>1 DEF Accumulator
  <2>4. apply(acc, a) \in Accumulator
    BY <1>1, <2>2, <2>3, SMTT(40) DEF Accumulator
  <2> QED
    BY <1>1, <1>2, <1>6, <2>3, <2>4, SMTT(40)
<1> QED
  BY <1>5, <1>6, Zenon

\* The recursion that defines captures has a solution.
LEMMA TurnsExist ==
    ASSUME Bounds
    PROVE  \A m \in Nat : \E f \in [0 .. Len(KS) -> Accumulator] : Turns(f, m)
<1> DEFINE T == {m \in Nat : ~ \E f \in [0 .. Len(KS) -> Accumulator] : Turns(f, m)}
<1>1. SUFFICES ASSUME T # {} PROVE FALSE
  BY Zenon
<1>2. PICK m \in T : \A n \in T : m <= n
  <2>1. T \subseteq Nat
    OBVIOUS
  <2> HIDE DEF T
  <2> QED
    BY <1>1, <2>1, LeastNat, Zenon
<1>3. Empty \in Accumulator /\ Len(KS) \in Nat
  BY EmptyType, Marks
<1>4. m # 0
  <2> DEFINE f == [t \in 0 .. Len(KS) |-> Empty]
  <2>1. f \in [0 .. Len(KS) -> Accumulator] /\ \A t \in 0 .. Len(KS) : f[t] = Empty
    BY <1>3
  <2> HIDE DEF f
  <2>2. Turns(f, 0)
    BY <1>3, <2>1 DEF Turns
  <2> QED
    BY <2>1, <2>2
<1>5. m - 1 \in Nat /\ ~ m <= m - 1
  BY <1>4
<1>6. PICK g \in [0 .. Len(KS) -> Accumulator] : Turns(g, m - 1)
  BY <1>2, <1>5
<1>7. CASE m > Len(KS)
  <2>1. Turns(g, m)
    BY <1>3, <1>5, <1>6, <1>7 DEF Turns
  <2> QED
    BY <2>1
<1>8. CASE m <= Len(KS)
  <2> DEFINE next == apply(g[m - 1], KS[m])
             f == [g EXCEPT ![m] = next]
  <2>1. m \in 1 .. Len(KS) /\ m - 1 \in 0 .. Len(KS)
    BY SMTT(40), <1>3, <1>4, <1>8
  <2>2. next \in Accumulator
    <3>1. g[m - 1] \in Accumulator
      BY <2>1
    <3>2. KS[m].Index \in Indices /\ KS[m].IsEnd \in BOOLEAN /\ KS[m].DP \in U64 /\ 0 \in U64
      BY <2>1, Marks
    <3> QED
      BY <3>1, <3>2, Applied, Zenon
  <2> HIDE DEF next
  <2>3. f \in [0 .. Len(KS) -> Accumulator] /\ f[m] = next
        /\ \A t \in 0 .. Len(KS) : t # m => f[t] = g[t]
    BY <2>1, <2>2
  <2> HIDE DEF f
  <2>4. ASSUME NEW t \in 0 .. Len(KS), t <= m
        PROVE  f[t] = IF t = 0 THEN Empty ELSE apply(f[t - 1], KS[t])
    <3>1. CASE t = m
      <4>1. f[m - 1] = g[m - 1]
        BY <2>1, <2>3
      <4> QED
        BY <1>4, <2>3, <3>1, <4>1 DEF next
    <3>2. CASE t # m
      <4>1. t <= m - 1 /\ (t # 0 => t - 1 \in 0 .. Len(KS) /\ t - 1 # m)
        BY <2>1, <2>4, <3>2
      <4> QED
        BY <1>6, <2>3, <3>2, <4>1, SMTT(40) DEF Turns
    <3> QED
      BY <3>1, <3>2
  <2>5. Turns(f, m)
    BY <2>4 DEF Turns
  <2> QED
    BY <2>3, <2>5
<1> QED
  BY <1>3, <1>7, <1>8

\* captures is the accumulator's after the last turn.
LEMMA CapturesTurns ==
    ASSUME Bounds
    PROVE  \E f \in [0 .. Len(KS) -> Accumulator] :
              Turns(f, Len(KS)) /\ captures = f[Len(KS)].captures
<1> DEFINE rhs(f) == [k \in 0 .. Len(KS) |-> IF k = 0 THEN Empty ELSE apply(f[k - 1], KS[k])]
           after == CHOOSE f : f = rhs(f)
<1>0. Len(KS) \in Nat
  BY Marks
<1>1. captures = after[Len(KS)].captures
  BY DEF captures, Empty
<1>2. PICK f \in [0 .. Len(KS) -> Accumulator] : Turns(f, Len(KS))
  BY <1>0, TurnsExist
<1>3. \A k \in 0 .. Len(KS) : f[k] = IF k = 0 THEN Empty ELSE apply(f[k - 1], KS[k])
  BY <1>0, <1>2 DEF Turns
<1>4. f = rhs(f)
  BY <1>3
<1>5. after = rhs(after)
  BY <1>4
<1> HIDE DEF after
<1>6. \A k \in 0 .. Len(KS) : after[k] = IF k = 0 THEN Empty ELSE apply(after[k - 1], KS[k])
  BY <1>5
<1>7. \A k \in 0 .. Len(KS) : after[k] = f[k]
  <2> DEFINE T == {k \in 0 .. Len(KS) : after[k] # f[k]}
  <2>1. SUFFICES ASSUME T # {} PROVE FALSE
    OBVIOUS
  <2>2. PICK k \in T : \A u \in T : k <= u
    <3>1. T \subseteq Nat
      OBVIOUS
    <3> HIDE DEF T
    <3> QED
      BY <2>1, <3>1, LeastNat, Zenon
  <2>3. k # 0
    BY <1>3, <1>6
  <2>4. k - 1 \in 0 .. Len(KS) /\ ~ k <= k - 1
    BY <1>0, <2>3
  <2>5. after[k - 1] = f[k - 1]
    BY <2>2, <2>4
  <2> QED
    BY <1>3, <1>6, <2>3, <2>5
<1>8. after[Len(KS)] = f[Len(KS)]
  BY <1>0, <1>7
<1> QED
  BY <1>1, <1>2, <1>8

-----------------------------------------------------------------------------
(* What the captures are. *)

Sound(pair) == pair.S <= Len(I) /\ pair.E <= Len(I) /\ (RewindFree(P) => pair.S <= pair.E)

\* After k turns, the pairs so far are sound, and a pending start is one of the
\* first k marks, or 0.
SoFar(acc, k) ==
    \A c \in Indices :
        /\ \A i \in DOMAIN acc.captures[c].Multi : Sound(acc.captures[c].Multi[i])
        /\ acc.pending[c] = 0 \/ \E j \in 1 .. k : acc.pending[c] = KS[j].DP

LEMMA SoFarStep ==
    ASSUME Machine, NEW k \in 1 .. Len(KS), NEW acc \in Accumulator, SoFar(acc, k - 1)
    PROVE  SoFar(apply(acc, KS[k]), k)
<1> DEFINE a == KS[k]
           new == apply(acc, a)
           pair == [S |-> acc.pending[a.Index], E |-> a.DP]
<1>1. /\ Len(KS) \in Nat /\ DOMAIN KS = 1 .. Len(KS)
      /\ a.Index \in Indices /\ a.IsEnd \in BOOLEAN /\ a.DP \in U64 /\ a.DP \in Nat /\ a.DP <= Len(I)
      /\ \A j \in 1 .. Len(KS) : KS[j].DP \in Nat /\ KS[j].DP <= Len(I)
      /\ 0 \in U64 /\ Len(I) \in Nat
  BY Marks, SMTT(40) DEF Machine
<1>2. RewindFree(P) => (a.IsEnd => \A j \in 1 .. k : KS[j].DP <= a.DP)
  BY SMTT(40), <1>1 DEF Machine, CapturesNeverAhead, BT!CapturesNeverAhead, BT!NoneAhead
<1>3. /\ new \in Accumulator
      /\ pair \in Pair
      /\ \A c \in Indices : c # a.Index =>
            new.captures[c] = acc.captures[c] /\ new.pending[c] = acc.pending[c]
      /\ a.IsEnd =>
            /\ new.captures[a.Index].Multi = Append(acc.captures[a.Index].Multi, pair)
            /\ new.pending[a.Index] = 0
      /\ ~ a.IsEnd =>
            /\ new.captures = acc.captures
            /\ new.pending[a.Index] = a.DP
  BY <1>1, Applied, Zenon
<1> HIDE DEF a, new
<1>4. k \in 1 .. k /\ 1 .. k - 1 \subseteq 1 .. k /\ 1 .. k \subseteq 1 .. Len(KS) /\ a = KS[k]
  BY <1>1 DEF a
<1>5. ASSUME a.IsEnd PROVE Sound(pair)
  <2>1. acc.pending[a.Index] = 0 \/ \E j \in 1 .. k - 1 : acc.pending[a.Index] = KS[j].DP
    BY <1>1, Zenon DEF SoFar
  <2>2. CASE acc.pending[a.Index] = 0
    BY <1>1, <2>2, SMTT(40) DEF Sound
  <2>3. ASSUME NEW j \in 1 .. k - 1, acc.pending[a.Index] = KS[j].DP PROVE Sound(pair)
    BY <1>1, <1>2, <1>4, <1>5, <2>3, SMTT(40) DEF Sound
  <2> QED
    BY <2>1, <2>2, <2>3, SMTT(40)
<1>6. ASSUME NEW c \in Indices
      PROVE  /\ \A i \in DOMAIN new.captures[c].Multi : Sound(new.captures[c].Multi[i])
             /\ new.pending[c] = 0 \/ \E j \in 1 .. k : new.pending[c] = KS[j].DP
  <2>1. /\ \A i \in DOMAIN acc.captures[c].Multi : Sound(acc.captures[c].Multi[i])
        /\ acc.pending[c] = 0 \/ \E j \in 1 .. k : acc.pending[c] = KS[j].DP
    BY <1>4, SMTT(40) DEF SoFar
  <2>2. CASE c # a.Index
    <3>1. new.captures[c] = acc.captures[c] /\ new.pending[c] = acc.pending[c]
      BY <1>3, <2>2, Zenon
    <3> QED
      BY <2>1, <3>1, Zenon
  <2>3. CASE c = a.Index /\ ~ a.IsEnd
    BY <1>3, <1>4, <2>1, <2>3, Zenon
  <2>4. CASE c = a.Index /\ a.IsEnd
    <3> DEFINE s == acc.captures[c].Multi
    <3>1. s \in Seq(Pair)
      BY SMTT(40) DEF Accumulator, Capture
    <3>2. new.captures[c].Multi = Append(s, pair) /\ new.pending[c] = 0
      BY ZenonT(40), <1>3, <2>4
    <3>3. Sound(pair) /\ pair \in Pair
      BY <1>3, <1>5, <2>4, Zenon
    <3>4. \A i \in DOMAIN s : Sound(s[i])
      BY <2>1
    <3> HIDE DEF s, pair
    <3>5. \A i \in DOMAIN Append(s, pair) : Append(s, pair)[i] = pair \/ (i \in DOMAIN s /\ Append(s, pair)[i] = s[i])
      BY <3>1, <3>3
    <3> QED
      BY <3>2, <3>3, <3>4, <3>5
  <2> QED
    BY <1>1, <2>2, <2>3, <2>4, Zenon
<1> QED
  BY <1>6, Zenon DEF SoFar, a, new

\* All that Match reports of a capture is sound, and without marks it reports
\* nothing.
LEMMA CapturesSound ==
    ASSUME Machine
    PROVE  /\ captures \in [Indices -> Capture]
           /\ \A c \in Indices : \A i \in DOMAIN captures[c].Multi : Sound(captures[c].Multi[i])
           /\ KS = <<>> => captures = [c \in Indices |-> NoCapture]
<1>1. Len(KS) \in Nat /\ Bounds
  BY Marks DEF Machine
<1>2. PICK f \in [0 .. Len(KS) -> Accumulator] :
          Turns(f, Len(KS)) /\ captures = f[Len(KS)].captures
  BY <1>1, CapturesTurns
<1>3. /\ f[0] = Empty
      /\ \A k \in 1 .. Len(KS) : f[k] = apply(f[k - 1], KS[k]) /\ f[k - 1] \in Accumulator
  <2>1. 0 \in 0 .. Len(KS) /\ 0 <= Len(KS)
    BY <1>1
  <2>2. \A k \in 1 .. Len(KS) : k \in 0 .. Len(KS) /\ k - 1 \in 0 .. Len(KS) /\ k # 0 /\ k <= Len(KS)
    BY <1>1
  <2> QED
    BY <1>2, <2>1, <2>2 DEF Turns
<1>4. SoFar(f[0], 0)
  BY <1>3, SMTT(40) DEF SoFar, Empty, NoCapture
<1>5. \A k \in 0 .. Len(KS) : SoFar(f[k], k)
  <2> DEFINE T == {k \in 0 .. Len(KS) : ~ SoFar(f[k], k)}
  <2>1. SUFFICES ASSUME T # {} PROVE FALSE
    OBVIOUS
  <2>2. PICK k \in T : \A u \in T : k <= u
    <3>1. T \subseteq Nat
      OBVIOUS
    <3> HIDE DEF T
    <3> QED
      BY <2>1, <3>1, LeastNat, Zenon
  <2>3. k # 0
    BY <1>4
  <2>4. k - 1 \in 0 .. Len(KS) /\ ~ k <= k - 1 /\ k \in 1 .. Len(KS)
    BY <1>1, <2>3
  <2>5. SoFar(f[k - 1], k - 1)
    BY <2>2, <2>4
  <2>6. SoFar(apply(f[k - 1], KS[k]), k)
    BY <1>3, <2>4, <2>5, SoFarStep
  <2> QED
    BY <1>3, <2>4, <2>6
<1>6. SoFar(f[Len(KS)], Len(KS)) /\ f[Len(KS)] \in Accumulator
  BY <1>1, <1>5
<1>7. captures \in [Indices -> Capture]
  BY <1>2, <1>6 DEF Accumulator
<1>8. KS = <<>> => captures = [c \in Indices |-> NoCapture]
  BY <1>2, <1>3 DEF Empty
<1> QED
  BY <1>2, <1>6, <1>7, <1>8, SMTT(40) DEF SoFar

-----------------------------------------------------------------------------
(* Which captures they are. *)

LEMMA EndMarksFinite ==
    ASSUME NEW c, NEW n \in Nat
    PROVE  /\ IsFiniteSet(EndMarks(c, n)) /\ Cardinality(EndMarks(c, n)) \in Nat
           /\ Cardinality(EndMarks(c, n)) = 0 <=> EndMarks(c, n) = {}
<1>1. EndMarks(c, n) \subseteq 1..n /\ IsFiniteSet(1..n)
  <2>1. IsFiniteSet(1..n)
    BY FS_Interval
  <2> QED
    BY <2>1 DEF EndMarks
<1>2. IsFiniteSet(EndMarks(c, n))
  BY <1>1, FS_Subset
<1> QED
  BY <1>2, FS_CardinalityType, FS_EmptySet

LEMMA EndMarksNext ==
    ASSUME NEW c, NEW n \in Nat
    PROVE  /\ KS[n + 1].Index = c /\ KS[n + 1].IsEnd =>
                /\ EndMarks(c, n + 1) = EndMarks(c, n) \cup {n + 1}
                /\ Cardinality(EndMarks(c, n + 1)) = Cardinality(EndMarks(c, n)) + 1
           /\ ~ (KS[n + 1].Index = c /\ KS[n + 1].IsEnd) => EndMarks(c, n + 1) = EndMarks(c, n)
<1>1. \A k : k \in 1 .. n + 1 <=> k \in 1..n \/ k = n + 1
  OBVIOUS
<1>2. CASE KS[n + 1].Index = c /\ KS[n + 1].IsEnd
  <2>1. EndMarks(c, n + 1) = EndMarks(c, n) \cup {n + 1}
    BY <1>1, <1>2, Zenon DEF EndMarks
  <2>2. n + 1 \notin EndMarks(c, n)
    BY DEF EndMarks
  <2> QED
    BY <1>2, <2>1, <2>2, EndMarksFinite, FS_AddElement, SMTT(40)
<1>3. CASE ~ (KS[n + 1].Index = c /\ KS[n + 1].IsEnd)
  BY <1>1, <1>3, Zenon DEF EndMarks
<1> QED
  BY <1>2, <1>3, SMTT(40)

\* The position of an end mark among the end marks of its capture.
LEMMA EndMarkPosition ==
    ASSUME NEW c, NEW n \in Nat, NEW k \in EndMarks(c, n)
    PROVE  Cardinality(EndMarks(c, k)) \in 1 .. Cardinality(EndMarks(c, n))
<1>1. k \in 1..n /\ k \in Nat
  BY DEF EndMarks
<1>2. EndMarks(c, k) \subseteq EndMarks(c, n) /\ k \in EndMarks(c, k)
  BY <1>1 DEF EndMarks
<1>3. /\ Cardinality(EndMarks(c, k)) \in Nat /\ Cardinality(EndMarks(c, k)) # 0
      /\ Cardinality(EndMarks(c, n)) \in Nat /\ IsFiniteSet(EndMarks(c, n))
  BY <1>1, <1>2, EndMarksFinite
<1>4. Cardinality(EndMarks(c, k)) <= Cardinality(EndMarks(c, n))
  BY <1>2, <1>3, FS_Subset, SMTT(40)
<1> QED
  BY <1>3, <1>4

Starts(c, n) ==
    {j \in 1..n : KS[j].Index = c /\ ~ KS[j].IsEnd /\ \A e \in EndMarks(c, n) : e < j}

LEMMA StartNext ==
    ASSUME NEW c, NEW n \in Nat
    PROVE  /\ KS[n + 1].Index # c => StartAfter(c, n + 1) = StartAfter(c, n)
           /\ KS[n + 1].Index = c /\ KS[n + 1].IsEnd => StartAfter(c, n + 1) = 0
           /\ KS[n + 1].Index = c /\ ~ KS[n + 1].IsEnd => StartAfter(c, n + 1) = KS[n + 1].DP
<1>0. \A m : StartAfter(c, m) = IF Starts(c, m) = {} THEN 0
                                ELSE KS[CHOOSE j \in Starts(c, m) : \A i \in Starts(c, m) : i <= j].DP
  BY SMTT(40) DEF StartAfter, Starts
<1>1. \A k : k \in 1 .. n + 1 <=> k \in 1..n \/ k = n + 1
  OBVIOUS
<1>2. CASE KS[n + 1].Index # c
  <2>1. EndMarks(c, n + 1) = EndMarks(c, n)
    BY <1>2, EndMarksNext
  <2>2. Starts(c, n + 1) = Starts(c, n)
    BY <1>1, <1>2, <2>1, Zenon DEF Starts
  <2>3. StartAfter(c, n + 1) = StartAfter(c, n)
    BY <1>0, <2>2, Zenon
  <2> QED
    BY <1>2, <2>3
<1>3. CASE KS[n + 1].Index = c /\ KS[n + 1].IsEnd
  <2>1. n + 1 \in EndMarks(c, n + 1)
    BY <1>3, EndMarksNext, ZenonT(40)
  <2>2. \A j \in 1 .. n + 1 : ~ n + 1 < j
    OBVIOUS
  <2>3. Starts(c, n + 1) = {}
    BY <2>1, <2>2, Zenon DEF Starts
  <2>4. StartAfter(c, n + 1) = 0
    BY <1>0, <2>3, Zenon
  <2> QED
    BY <1>3, <2>4
<1>4. CASE KS[n + 1].Index = c /\ ~ KS[n + 1].IsEnd
  <2> DEFINE S == Starts(c, n + 1)
             j == CHOOSE j \in S : \A i \in S : i <= j
  <2>1. EndMarks(c, n + 1) = EndMarks(c, n)
    BY <1>4, EndMarksNext
  <2>2. \A e \in EndMarks(c, n + 1) : e < n + 1
    BY <2>1 DEF EndMarks
  <2>3. n + 1 \in S
    BY <1>1, <1>4, <2>2, Zenon DEF Starts
  <2>4. \A i \in S : i \in Nat /\ i <= n + 1
    BY DEF Starts
  <2> HIDE DEF S
  <2>5. j \in S /\ \A i \in S : i <= j
    BY <2>3, <2>4, Zenon
  <2>6. j \in Nat /\ n + 1 <= j /\ j <= n + 1
    BY <2>3, <2>4, <2>5, Zenon
  <2> HIDE DEF j
  <2>7. j = n + 1
    BY <2>6
  <2>8. StartAfter(c, n + 1) = KS[j].DP
    BY <1>0, <2>3, Zenon DEF S, j
  <2> QED
    BY <1>4, <2>7, <2>8, SMTT(40)
<1> QED
  BY <1>2, <1>3, <1>4, Zenon
\* What the loop makes of an end mark.
LEMMA AppliedEnd ==
    ASSUME NEW acc \in Accumulator, NEW a, a.Index \in Indices, a.IsEnd
    PROVE  LET pair == [S |-> acc.pending[a.Index], E |-> a.DP]
           IN  apply(acc, a).captures[a.Index] =
                  [Exists |-> TRUE, Solo |-> pair, Multi |-> Append(acc.captures[a.Index].Multi, pair)]
<1> DEFINE pair == [S |-> acc.pending[a.Index], E |-> a.DP]
           here == [Exists |-> TRUE, Solo |-> pair, Multi |-> Append(acc.captures[a.Index].Multi, pair)]
<1>1. acc.captures \in [Indices -> Capture]
  BY DEF Accumulator
<1>2. apply(acc, a).captures = [acc.captures EXCEPT ![a.Index] = here]
  BY DEF apply
<1> HIDE DEF here
<1>3. apply(acc, a).captures[a.Index] = here
  BY <1>1, <1>2
<1> QED
  BY <1>3, SMTT(40) DEF here

PairAt(c, k) == [S |-> StartAfter(c, k - 1), E |-> KS[k].DP]

\* A capture after n turns, and the start that is pending.
ListedIn(capture, pending, c, n) ==
    /\ capture.Exists = (EndMarks(c, n) # {})
    /\ Len(capture.Multi) = Cardinality(EndMarks(c, n))
    /\ \A k \in EndMarks(c, n) : capture.Multi[Cardinality(EndMarks(c, k))] = PairAt(c, k)
    /\ EndMarks(c, n) # {} => capture.Solo = capture.Multi[Len(capture.Multi)]
    /\ pending = StartAfter(c, n)

Listed(acc, n) == \A c \in Indices : ListedIn(acc.captures[c], acc.pending[c], c, n)

LEMMA ListedStart ==
    ASSUME Len(KS) \in Nat
    PROVE  Listed(Empty, 0)
<1> SUFFICES ASSUME NEW c \in Indices PROVE ListedIn(NoCapture, 0, c, 0)
  BY DEF Listed, Empty
<1>1. EndMarks(c, 0) = {} /\ StartAfter(c, 0) = 0
  BY DEF EndMarks, StartAfter
<1>2. Cardinality(EndMarks(c, 0)) = 0
  BY <1>1, FS_EmptySet, Zenon
<1>3. NoCapture.Exists = FALSE /\ Len(NoCapture.Multi) = 0
  BY DEF NoCapture
<1>4. NoCapture.Exists = (EndMarks(c, 0) # {})
  BY <1>1, <1>3, Zenon
<1> QED
  BY <1>1, <1>2, <1>3, <1>4, Zenon DEF ListedIn

LEMMA ListedStep ==
    ASSUME Bounds, NEW n \in Nat, n + 1 <= Len(KS), NEW acc \in Accumulator, Listed(acc, n)
    PROVE  Listed(apply(acc, KS[n + 1]), n + 1)
<1> DEFINE a == KS[n + 1]
           new == apply(acc, a)
           pair == [S |-> acc.pending[a.Index], E |-> a.DP]
<1>1. n + 1 \in 1 .. Len(KS) /\ (n + 1) - 1 = n
  BY Marks
<1>2. a.Index \in Indices /\ a.IsEnd \in BOOLEAN /\ a.DP \in U64 /\ 0 \in U64
  BY <1>1, Marks, SMTT(40)
<1>3. /\ \A c \in Indices : c # a.Index =>
            new.captures[c] = acc.captures[c] /\ new.pending[c] = acc.pending[c]
      /\ a.IsEnd => new.pending[a.Index] = 0
      /\ ~ a.IsEnd => new.captures = acc.captures /\ new.pending[a.Index] = a.DP
      /\ pair \in Pair
  BY <1>2, Applied, ZenonT(40)
<1> SUFFICES ASSUME NEW c \in Indices PROVE ListedIn(new.captures[c], new.pending[c], c, n + 1)
  BY SMTT(40) DEF Listed
<1>4. ListedIn(acc.captures[c], acc.pending[c], c, n)
  BY DEF Listed
<1> HIDE DEF new
<1>5. CASE c # a.Index
  <2>1. EndMarks(c, n + 1) = EndMarks(c, n) /\ StartAfter(c, n + 1) = StartAfter(c, n)
    BY <1>5, EndMarksNext, StartNext, SMTT(40)
  <2> QED
    BY <1>3, <1>4, <1>5, <2>1, Zenon DEF ListedIn
<1>6. CASE c = a.Index /\ ~ a.IsEnd
  <2>1. EndMarks(c, n + 1) = EndMarks(c, n) /\ StartAfter(c, n + 1) = a.DP
    BY <1>6, EndMarksNext, StartNext, Zenon
  <2> QED
    BY <1>3, <1>4, <1>6, <2>1, ZenonT(90) DEF ListedIn
<1>7. CASE c = a.Index /\ a.IsEnd
  <2> DEFINE multi == acc.captures[c].Multi
             more == Append(multi, pair)
             x == Cardinality(EndMarks(c, n))
  <2>1. new.captures[c] = [Exists |-> TRUE, Solo |-> pair, Multi |-> more]
    BY <1>2, <1>7, AppliedEnd, Zenon DEF new
  <2>2. /\ EndMarks(c, n + 1) = EndMarks(c, n) \cup {n + 1}
        /\ Cardinality(EndMarks(c, n + 1)) = x + 1 /\ x \in Nat
        /\ StartAfter(c, n + 1) = 0
    BY <1>7, EndMarksNext, EndMarksFinite, StartNext, ZenonT(40)
  <2>3. Len(multi) = x /\ pair = PairAt(c, n + 1)
    BY <1>1, <1>4, <1>7, Zenon DEF ListedIn, PairAt
  <2>4. multi \in Seq(Pair)
    BY DEF Accumulator, Capture
  <2>5. \A k \in EndMarks(c, n) : Cardinality(EndMarks(c, k)) \in 1..x
    BY EndMarkPosition
  <2>6. \A k \in EndMarks(c, n) : multi[Cardinality(EndMarks(c, k))] = PairAt(c, k)
    BY <1>4, Zenon DEF ListedIn
  <2> HIDE DEF multi, pair, x
  <2>7. Len(more) = x + 1 /\ more[x + 1] = pair /\ \A i \in 1..x : more[i] = multi[i]
    BY <1>3, <2>2, <2>3, <2>4, SMTT(40)
  <2> DEFINE capture == [Exists |-> TRUE, Solo |-> pair, Multi |-> more]
  <2> HIDE DEF more
  <2>8. capture.Exists = TRUE /\ capture.Solo = pair /\ capture.Multi = more
    OBVIOUS
  <2>9. \A k \in EndMarks(c, n + 1) : more[Cardinality(EndMarks(c, k))] = PairAt(c, k)
    <3> TAKE k \in EndMarks(c, n + 1)
    <3>1. CASE k = n + 1
      BY <2>2, <2>3, <2>7, <3>1, SMTT(40)
    <3>2. CASE k \in EndMarks(c, n)
      BY <2>5, <2>6, <2>7, <3>2, SMTT(40)
    <3> QED
      BY <2>2, <3>1, <3>2
  <2>10. EndMarks(c, n + 1) # {}
    BY <2>2
  <2>11. (EndMarks(c, n + 1) # {}) = TRUE
    BY <2>10, Zenon
  <2>12. new.pending[c] = StartAfter(c, n + 1)
    BY <1>3, <1>7, <2>2, SMTT(40)
  <2> HIDE DEF capture
  <2>13. ListedIn(capture, new.pending[c], c, n + 1)
    BY <2>2, <2>7, <2>8, <2>9, <2>11, <2>12, Zenon DEF ListedIn
  <2> QED
    BY <2>1, <2>13, Zenon DEF capture
<1> QED
  BY <1>2, <1>5, <1>6, <1>7, SMTT(40)

LEMMA CapturesListed ==
    ASSUME Bounds, NEW c \in Indices
    PROVE  \E pending : ListedIn(captures[c], pending, c, Len(KS))
<1>1. Len(KS) \in Nat
  BY Marks
<1>2. PICK f \in [0 .. Len(KS) -> Accumulator] :
          Turns(f, Len(KS)) /\ captures = f[Len(KS)].captures
  BY CapturesTurns
<1>3. f[0] = Empty
  BY <1>1, <1>2 DEF Turns
<1>4. \A k \in 0 .. Len(KS) : Listed(f[k], k)
  <2> DEFINE T == {k \in 0 .. Len(KS) : ~ Listed(f[k], k)}
  <2>1. SUFFICES ASSUME T # {} PROVE FALSE
    OBVIOUS
  <2>2. PICK k \in T : \A u \in T : k <= u
    <3>1. T \subseteq Nat
      OBVIOUS
    <3> HIDE DEF T
    <3> QED
      BY <2>1, <3>1, LeastNat, Zenon
  <2>3. k # 0
    BY <1>1, <1>3, ListedStart
  <2> DEFINE m == k - 1
  <2>4. m \in Nat /\ m \in 0 .. Len(KS) /\ ~ k <= m /\ m + 1 = k /\ m + 1 <= Len(KS) /\ k \in 0 .. Len(KS)
    BY <1>1, <2>3
  <2>5. Listed(f[m], m) /\ f[m] \in Accumulator
    BY <2>2, <2>4
  <2>6. f[k] = apply(f[m], KS[k])
    BY <1>2, <2>3, <2>4 DEF Turns
  <2> HIDE DEF m
  <2>7. Listed(apply(f[m], KS[m + 1]), m + 1)
    BY <2>4, <2>5, ListedStep
  <2> QED
    BY <2>4, <2>6, <2>7, SMTT(40)
<1>5. Listed(f[Len(KS)], Len(KS))
  BY <1>1, <1>4
<1>6. ListedIn(captures[c], f[Len(KS)].pending[c], c, Len(KS))
  BY <1>2, <1>5 DEF Listed
<1> QED
  BY <1>6

-----------------------------------------------------------------------------
(* Match's own state. *)

\* The inductive invariant: how phase, result and ret go together, and that the
\* result is what the captures are now.
Phases ==
    /\ phase \in {"running", "returned", "panicked"}
    /\ phase # "returned" => result = "none"
    /\ phase = "panicked" => ret # "nil"
    /\ phase = "returned" => /\ R # "Running"
                             /\ result = [Success |-> R = "Success", Captures |-> captures]

LEMMA PhasesInvariant == MatchSpec => [](Machine /\ Phases)
<1>1. MatchInit => Phases
  BY SMTT(40) DEF MatchInit, Phases
<1>2. Machine /\ Phases /\ [MatchNext]_matchVars => Phases'
  <2> SUFFICES ASSUME Machine, Phases, [MatchNext]_matchVars PROVE Phases'
    OBVIOUS
  <2>1. CASE Run
    BY <2>1 DEF Run, Phases
  <2>2. CASE Panic
    BY <2>2 DEF Panic, Phases, vars
  <2>3. CASE Return
    <3>1. \A k \in DOMAIN KS : KS[k].Index \in Indices
      BY Marks DEF Machine
    <3>2. /\ phase' = "returned" /\ R # "Running" /\ UNCHANGED vars
          /\ result' = [Success |-> R = "Success", Captures |-> captures]
      BY <2>3, <3>1 DEF Return
    <3>3. P' = P /\ KS' = KS /\ R' = R
      BY <3>2 DEF vars
    <3>4. captures' = captures
      BY <3>3, SMTT(40) DEF captures, Indices, apply, NoCapture
    <3> QED
      BY <3>2, <3>3, <3>4 DEF Phases
  <2>4. CASE UNCHANGED matchVars
    <3>1. captures' = captures
      BY <2>4, SMTT(40) DEF matchVars, vars, captures, Indices, apply, NoCapture
    <3> QED
      BY <2>4, <3>1 DEF matchVars, vars, Phases
  <2> QED
    BY <2>1, <2>2, <2>3, <2>4 DEF MatchNext
<1> QED
  BY <1>1, <1>2, MachineInvariant, PTL DEF MatchSpec

LEMMA ResultFields ==
    ASSUME Phases, phase = "returned"
    PROVE  result.Success = (R = "Success") /\ result.Captures = captures /\ R # "Running"
<1>1. ASSUME NEW b, NEW c
      PROVE  [Success |-> b, Captures |-> c].Success = b /\ [Success |-> b, Captures |-> c].Captures = c
  OBVIOUS
<1>2. R # "Running" /\ result = [Success |-> R = "Success", Captures |-> captures]
  BY Zenon DEF Phases
<1> QED
  BY Zenon, <1>1, <1>2

\* The types of Match's state: a Result has one entry for each capture of the
\* program.
THEOREM MatchTypeTheorem == MatchSpec => []MatchTypeOK
<1>1. Machine /\ Phases => MatchTypeOK
  <2> SUFFICES ASSUME Machine, Phases PROVE MatchTypeOK
    OBVIOUS
  <2>1. DOMAIN captures = Indices
    BY CapturesSound
  <2>2. TypeOK
    BY DEF Machine, Bounds
  <2>3. phase = "returned" => result.Success = (R = "Success") /\ result.Captures = captures
    BY Zenon, ResultFields
  <2> QED
    BY Zenon, <2>1, <2>2, <2>3 DEF Phases, MatchTypeOK
<1> QED
  BY <1>1, PhasesInvariant, PTL

\* For every program, Match's "capture out of range" panic is dead code.
THEOREM PanicsTheorem == MatchSpec => []PanicsOnlyOnError
<1>1. Phases => PanicsOnlyOnError
  BY SMTT(40) DEF Phases, PanicsOnlyOnError
<1> QED
  BY <1>1, PhasesInvariant, PTL

\* Every capture of every Result can be sliced out of the input, and the ones
\* of a program that never rewinds do not end before they start.
THEOREM SlicingTheorem == MatchSpec => []CapturesCanBeSliced
<1>1. Machine /\ Phases => CapturesCanBeSliced
  BY CapturesSound, SMTT(40) DEF Phases, CapturesCanBeSliced, Sound
<1> QED
  BY <1>1, PhasesInvariant, PTL

\* A failed match has no captures, whatever was recorded before it failed.
THEOREM FailureTheorem == MatchSpec => []FailureHasNoCaptures
<1>1. Machine /\ Phases => FailureHasNoCaptures
  <2> SUFFICES ASSUME Machine, Phases, phase = "returned", ~ result.Success, NEW c \in Indices
               PROVE  result.Captures[c] = NoCapture
    BY DEF FailureHasNoCaptures
  <2>1. result.Success = (R = "Success") /\ result.Captures = captures /\ R # "Running"
    BY Zenon, ResultFields
  <2>2. R \in {"Failure", "Error"}
    BY Zenon, <2>1 DEF Machine, Bounds, TypeOK, ExecutionState
  <2>3. KS = <<>>
    BY <2>2 DEF Machine, NoCapturesUnlessLive, BT!NoCapturesUnlessLive
  <2> QED
    BY <2>1, <2>3, CapturesSound
<1> QED
  BY <1>1, PhasesInvariant, PTL

\* The Result of every match lists exactly the captures whose ends are on the
\* capture stack, in order, each with the latest start since the one before.
THEOREM PairsTheorem == MatchSpec => []CapturesAreThePairs
<1>1. Machine /\ Phases => CapturesAreThePairs
  <2> SUFFICES ASSUME Machine, Phases, phase = "returned", NEW c \in Indices
               PROVE  LET ends == EndMarks(c, Len(KS))
                          capture == result.Captures[c]
                      IN  /\ capture.Exists = (ends # {})
                          /\ Len(capture.Multi) = Cardinality(ends)
                          /\ \A k \in ends : capture.Multi[Cardinality(EndMarks(c, k))]
                                                = [S |-> StartAfter(c, k - 1), E |-> KS[k].DP]
                          /\ ends # {} => capture.Solo = capture.Multi[Len(capture.Multi)]
    BY Zenon DEF CapturesAreThePairs
  <2>1. result.Captures = captures
    BY Zenon, ResultFields
  <2>2. PICK pending : ListedIn(captures[c], pending, c, Len(KS))
    BY CapturesListed DEF Machine
  <2> QED
    BY <2>1, <2>2, Zenon DEF ListedIn, PairAt
<1> QED
  BY <1>1, PhasesInvariant, PTL
=============================================================================
