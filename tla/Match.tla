-------------------------------- MODULE Match --------------------------------
(***************************************************************************)
(* Program.Match (src/peggyvm/program.go): create an execution, run it to  *)
(* its end (Execution.Run) and turn its capture stack into a Result.  The  *)
(* composition of the machine (Execution) and the decoder (Bytecode).      *)
(***************************************************************************)
EXTENDS Execution, FiniteSets

VARIABLES
    phase,      \* "running", then "returned" or "panicked"
    result      \* the Result, once Match has returned

matchVars == <<vars, phase, result>>

BC == INSTANCE Bytecode

\* What Step finds at each code address of the bytecode: Op.Decode, with the
\* code offsets read as signed numbers.
DecodeAt(bytes, xp) ==
    LET op == BC!Decode(bytes, xp)
        value(m, v) == IF BC!Signed(m.Type) THEN BC!AsInt(v) ELSE BC!AsUint(v)
    IN  IF op.err = "nil"
        THEN [Code |-> op.Meta.Name, Imm0 |-> value(op.Meta.Imm0, op.Imm0),
              Imm1 |-> value(op.Meta.Imm1, op.Imm1), Imm2 |-> value(op.Meta.Imm2, op.Imm2),
              Len |-> op.Len]
        ELSE [Code |-> "BAD", Imm0 |-> 0, Imm1 |-> 0, Imm2 |-> 0, Len |-> 1]

LoadBytes(bytes, literals, byteSets, captures) ==
    [Len |-> Len(bytes), Ops |-> [xp \in 0 .. Len(bytes) - 1 |-> DecodeAt(bytes, xp)],
     Literals |-> literals, ByteSets |-> byteSets, Captures |-> captures]

-----------------------------------------------------------------------------

NoCapture == [Exists |-> FALSE, Solo |-> [S |-> 0, E |-> 0], Multi |-> <<>>]

\* Faulty variant: the start of the previous capture is not cleared.
apply_KeepsPending(acc, a) ==
    LET pair == [S |-> acc.pending[a.Index], E |-> a.DP]
    IN  IF a.IsEnd
        THEN [acc EXCEPT !.captures[a.Index] =
                [Exists |-> TRUE, Solo |-> pair, Multi |-> Append(@.Multi, pair)]]
        ELSE [acc EXCEPT !.pending[a.Index] = a.DP]

\* One turn of Match's loop over the capture stack.
apply(acc, a) ==
    LET pair == [S |-> acc.pending[a.Index], E |-> a.DP]
    IN  IF a.IsEnd
        THEN [captures |-> [acc.captures EXCEPT ![a.Index] =
                [Exists |-> TRUE, Solo |-> pair, Multi |-> Append(@.Multi, pair)]],
              pending |-> [acc.pending EXCEPT ![a.Index] = 0]]
        ELSE [acc EXCEPT !.pending[a.Index] = a.DP]

Indices == 0 .. P.Captures - 1

captures ==
    LET after[k \in 0 .. Len(KS)] ==
            IF k = 0 THEN [captures |-> [c \in Indices |-> NoCapture],
                           pending |-> [c \in Indices |-> 0]]
            ELSE apply(after[k - 1], KS[k])
    IN  after[Len(KS)].captures

-----------------------------------------------------------------------------

MatchInit ==
    /\ Init
    /\ phase = "running"
    /\ result = "none"

\* Execution.Run: Step, until the machine halts or Step returns an error.
Run ==
    /\ phase = "running"
    /\ R = "Running"
    /\ ret = "nil"
    /\ Step
    /\ UNCHANGED <<phase, result>>

\* "panic(err)", or the panic of addOffset.
Panic ==
    /\ phase = "running"
    /\ ret # "nil"
    /\ phase' = "panicked"
    /\ UNCHANGED <<vars, result>>

\* The loop over x.KS, which panics for an index that is out of range.
Return ==
    /\ phase = "running"
    /\ R # "Running"
    /\ ret = "nil"
    /\ IF \A k \in DOMAIN KS : KS[k].Index \in Indices
       THEN /\ phase' = "returned"
            /\ result' = [Success |-> R = "Success", Captures |-> captures]
       ELSE /\ phase' = "panicked"
            /\ UNCHANGED result
    /\ UNCHANGED vars

MatchNext == Run \/ Panic \/ Return

\* Run's loop and Match never wait for anything.
MatchSpec == MatchInit /\ [][MatchNext]_matchVars /\ WF_matchVars(MatchNext)

-----------------------------------------------------------------------------
(* Properties. *)

\* The type of the state: the machine's, with Match's phase and Result.
MatchTypeOK ==
    /\ TypeOK
    /\ phase \in {"running", "returned", "panicked"}
    /\ phase # "returned" => result = "none"
    /\ phase = "returned" =>
          /\ result.Success \in BOOLEAN
          /\ DOMAIN result.Captures = Indices

\* Match panics only for a reason that Step gave it: an error, or a jump out of
\* the address space.  Its own "capture out of range" panic is dead code, since
\* Step has checked every index it recorded.
PanicsOnlyOnError == phase = "panicked" => ret # "nil"

\* The end marks of capture c among the first n marks of the capture stack.
EndMarks(c, n) == {k \in 1..n : KS[k].Index = c /\ KS[k].IsEnd}

\* Where a capture c that ends after n marks has started: at the latest start
\* mark of c since its previous end, or at the start of the input.
StartAfter(c, n) ==
    LET starts == {j \in 1..n : /\ KS[j].Index = c /\ ~ KS[j].IsEnd
                                /\ \A e \in EndMarks(c, n) : e < j}
    IN  IF starts = {} THEN 0 ELSE KS[CHOOSE j \in starts : \A i \in starts : i <= j].DP

\* The Result lists each capture's matches in the order in which they ended,
\* each with its own start, whatever else is recorded in between; Solo is the
\* last one.
CapturesAreThePairs ==
    phase = "returned" =>
        \A c \in Indices :
            LET ends == EndMarks(c, Len(KS))
                capture == result.Captures[c]
            IN  /\ capture.Exists = (ends # {})
                /\ Len(capture.Multi) = Cardinality(ends)
                /\ \A k \in ends : capture.Multi[Cardinality(EndMarks(c, k))]
                                      = [S |-> StartAfter(c, k - 1), E |-> KS[k].DP]
                /\ ends # {} => capture.Solo = capture.Multi[Len(capture.Multi)]

\* The caller may slice the input with any capture of the Result: it lies in
\* the input, and does not end before it starts if the program never rewinds.
CapturesCanBeSliced ==
    phase = "returned" =>
        \A c \in Indices : \A i \in DOMAIN result.Captures[c].Multi :
            LET pair == result.Captures[c].Multi[i]
            IN  /\ pair.S <= Len(I) /\ pair.E <= Len(I)
                /\ RewindFree(P) => pair.S <= pair.E

\* A match that did not succeed reports no captures at all.
FailureHasNoCaptures ==
    phase = "returned" /\ ~ result.Success =>
        \A c \in Indices : result.Captures[c] = NoCapture

\* Match comes to an end.
MatchReturns == <>(phase # "running")
=============================================================================
