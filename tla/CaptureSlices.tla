---------------------------- MODULE CaptureSlices ----------------------------
(***************************************************************************)
(* The capture stack as the Go slice it is (src/peggyvm/execution.go).     *)
(* CHOICE and PCOMMIT put the slice x.KS in a frame without copying it, a  *)
(* backtrack puts it back, and append writes to the array that all of them *)
(* share, unless it is full.  Execution, whose steps are taken here,       *)
(* treats KS as a value; the slices go along with each step.               *)
(***************************************************************************)
EXTENDS Execution

CONSTANT Spare      \* how many unused cells a new array may have

ASSUME SpareAssumption == Spare \subseteq Nat

VARIABLES
    arrays,     \* the memory: the cells of each array
    ks,         \* the slice x.KS: an array and a length
    frames      \* the slices fr.KS of the frames of CS

sliceVars == <<arrays, ks, frames>>

\* No more arrays are in use than there are slices, so one is always free.
Array == 1 .. MaxCS + 3

nil == [array |-> 0, len |-> 0]

\* The cells that a slice shows.
view(mem, s) == [k \in 1 .. s.len |-> mem[s.array][k]]

Unused == [Index |-> 0, IsEnd |-> FALSE, DP |-> 0]

\* Program.Exec: "make([]Assignment, 0, 2*len(p.Captures))".
SliceInit ==
    /\ Init
    /\ arrays = [a \in Array \cup {0} |->
                    IF a = 1 THEN [k \in 1 .. 2 * P.Captures |-> Unused] ELSE <<>>]
    /\ ks = [array |-> 1, len |-> 0]
    /\ frames = <<>>

-----------------------------------------------------------------------------
(* Go's append: in place while there is room, else into a larger array. *)

hasRoom(mem, s) == s.len < Len(mem[s.array])

inPlace(mem, s, a) ==
    [arrays |-> [mem EXCEPT ![s.array] = [@ EXCEPT ![s.len + 1] = a]],
     slice |-> [array |-> s.array, len |-> s.len + 1]]

moved(mem, s, a, new, cap) ==
    [arrays |-> [mem EXCEPT ![new] = [k \in 1 .. cap |->
                    IF k <= s.len THEN mem[s.array][k] ELSE IF k = s.len + 1 THEN a ELSE Unused]],
     slice |-> [array |-> new, len |-> s.len + 1]]

InUse(s) == {ks.array, s.array} \cup {frames[i].array : i \in DOMAIN frames}

\* The next array to be allocated.
Fresh(s) ==
    {n \in Array \ InUse(s) : \A m \in Array \ InUse(s) : n <= m}

\* How much larger than needed an array gets is up to the runtime.
capacities(s) == {s.len + 1 + n : n \in Spare}

append(mem, s, a) ==
    IF hasRoom(mem, s) THEN {inPlace(mem, s, a)}
    ELSE {moved(mem, s, a, new, cap) : new \in Fresh(s), cap \in capacities(s)}

-----------------------------------------------------------------------------
(* What a step does with slices. *)

cut == SubSeq(frames, 1, Len(CS'))

\* CHOICE and PCOMMIT: "KS: x.KS" and "fr.KS = x.KS".
saves == frames' = Append(SubSeq(frames, 1, Len(CS') - 1), ks)

keeps == frames' = cut /\ UNCHANGED <<arrays, ks>>

\* "x.KS = nil"
discards == ks' = nil /\ frames' = cut /\ UNCHANGED arrays

\* "x.KS = fr.KS", in fail and in BCOMMIT.
restores == ks' = frames[Len(CS') + 1] /\ frames' = cut /\ UNCHANGED arrays

records1(a) ==
    \E r \in append(arrays, ks, a) : arrays' = r.arrays /\ ks' = r.slice /\ UNCHANGED frames

\* Faulty variant: the second append starts from the old x.KS.
records2_SameBase(a, b) ==
    \E r \in append(arrays, ks, a) : \E s \in append(r.arrays, ks, b) :
        arrays' = s.arrays /\ ks' = s.slice /\ UNCHANGED frames

records2(a, b) ==
    \E r \in append(arrays, ks, a) : \E s \in append(r.arrays, r.slice, b) :
        arrays' = s.arrays /\ ks' = s.slice /\ UNCHANGED frames

halts == R = "Running" /\ R' \in {"Failure", "Error"}

LeavesCaptures ==
    \/ StepHalted \/ StepEOF \/ StepBadOp \/ NOP \/ COMMIT \/ JMP \/ RET \/ TANYB \/ TSAMEB
    \/ TLITB \/ TMATCHB \/ SPANB \/ RWNDB \/ GIVEUP \/ END

MayFail == FAIL \/ ANYB \/ SAMEB \/ LITB \/ MATCHB \/ FAIL2X

SliceNext ==
    \/ Step /\ halts /\ discards
    \/ LeavesCaptures /\ ~ halts /\ keeps
    \/ MayFail /\ ~ halts /\ Len(CS') = Len(CS) /\ keeps
    \/ MayFail /\ ~ halts /\ Len(CS') < Len(CS) /\ restores
    \/ (CHOICE \/ PCOMMIT) /\ ~ halts /\ ret' = "nil" /\ saves /\ UNCHANGED <<arrays, ks>>
    \/ (CHOICE \/ PCOMMIT) /\ ~ halts /\ ret' = "panic" /\ keeps
    \/ CALL /\ frames' = Append(frames, nil) /\ UNCHANGED <<arrays, ks>>
    \/ BCOMMIT /\ ~ halts /\ restores
    \/ (BCAP \/ ECAP) /\ ~ halts /\ records1(KS'[Len(KS')])
    \/ FCAP /\ ~ halts /\ records2(KS'[Len(KS') - 1], KS'[Len(KS')])

SliceSpec == SliceInit /\ [][SliceNext]_<<vars, sliceVars>>

-----------------------------------------------------------------------------
(* Properties. *)

\* The slice x.KS shows the captures that the machine has recorded, and the
\* slice of each frame those it saved: no append ever writes to a cell that
\* another slice still shows, although all of them may share one array.
SlicesShowTheCaptures ==
    /\ view(arrays, ks) = KS
    /\ \A i \in DOMAIN CS : view(arrays, frames[i]) = CS[i].KS
=============================================================================
