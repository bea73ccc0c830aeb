------------------------------- MODULE Ranges -------------------------------
(***************************************************************************)
(* byteset.Ranges (src/byteset/range.go): coalesceRanges, which brings a   *)
(* list of byte ranges into the form that mRange.Match's binary search     *)
(* relies on, and mRange.ForEach, which enumerates the result.             *)
(***************************************************************************)
EXTENDS Integers, Sequences

CONSTANTS
    MaxByte,    \* the largest byte
    Lists       \* the lists of ranges that Ranges may be called with

Byte == 0..MaxByte
Range == [Lo : Byte, Hi : Byte]

ASSUME MaxByteAssumption == MaxByte \in Nat
ASSUME ListsAssumption == \A l \in Lists : l \in Seq(Range)

VARIABLES
    pc,         \* "filter", "merge", "start", "foreach", "returned"
    a,          \* the given ranges
    b,          \* those with Lo <= Hi, sorted by Lo
    k,          \* position in b, then in c
    c,          \* the merged ranges, at last m.Ranges
    x,          \* the counter of ForEach's inner loop, a uint
    calls       \* the bytes ForEach has called f with

vars == <<pc, a, b, k, c, x, calls>>

Init ==
    /\ pc = "filter"
    /\ a \in Lists
    /\ b = <<>>
    /\ k = 1
    /\ c = <<>>
    /\ x = 0
    /\ calls = <<>>

-----------------------------------------------------------------------------
(* coalesceRanges. *)

\* A list of the ranges of a with Lo <= Hi, sorted by Lo: a rearrangement given
\* by the injection p.  sort.Sort is not stable, so ranges with the same Lo may
\* end up in any order.
SortedBy(p, s) ==
    /\ \A i, j \in DOMAIN p : p[i] = p[j] => i = j
    /\ {p[i] : i \in DOMAIN p} = {i \in DOMAIN a : a[i].Lo <= a[i].Hi}
    /\ s = [i \in DOMAIN p |-> a[p[i]]]
    /\ \A i, j \in DOMAIN s : i < j => s[i].Lo <= s[j].Lo

\* With fewer than two ranges there is nothing to merge.
FilterAndSort ==
    /\ pc = "filter"
    /\ \E n \in 0 .. Len(a) : \E p \in [1..n -> 1 .. Len(a)] :
          LET s == [i \in 1..n |-> a[p[i]]]
          IN  /\ SortedBy(p, s)
              /\ b' = s
              /\ \/ n < 2 /\ c' = s /\ pc' = "start"
                 \/ n >= 2 /\ c' = c /\ pc' = "merge"
    /\ UNCHANGED <<a, k, x, calls>>

\* lastHi and have of the loop.
have == c # <<>>
lastHi == c[Len(c)].Hi

\* Faulty variant: every overlap extends the last range, even to a smaller Hi.
contained_Never(r) == FALSE

contained(r) == have /\ lastHi >= r.Hi

\* Faulty variant: only a proper overlap is merged.
overlaps_Strict(r) == have /\ lastHi > r.Lo

overlaps(r) == have /\ lastHi >= r.Lo

\* One turn of the loop over b.
Merge ==
    /\ pc = "merge"
    /\ k <= Len(b)
    /\ LET r == b[k]
       IN  \/ contained(r) /\ UNCHANGED c
           \/ /\ ~ contained(r) /\ overlaps(r)
              /\ c' = [c EXCEPT ![Len(c)].Hi = r.Hi]
           \/ /\ ~ contained(r) /\ ~ overlaps(r)
              /\ c' = Append(c, r)
    /\ k' = k + 1
    /\ UNCHANGED <<pc, a, b, x, calls>>

Merged ==
    /\ pc = "merge"
    /\ k > Len(b)
    /\ pc' = "start"
    /\ UNCHANGED <<a, b, k, c, x, calls>>

-----------------------------------------------------------------------------
(* mRange.ForEach. *)

\* Enter range i of the outer loop, or return.
Enter(i) ==
    /\ k' = i
    /\ \/ i <= Len(c) /\ pc' = "foreach" /\ x' = c[i].Lo
       \/ i > Len(c) /\ pc' = "returned" /\ UNCHANGED x

Start == pc = "start" /\ Enter(1) /\ UNCHANGED <<a, b, c, calls>>

\* Faulty variant: the counter is a byte.
increment_Byte == (x + 1) % (MaxByte + 1)

increment == x + 1

inRange == x <= c[k].Hi

Call ==
    /\ pc = "foreach"
    /\ inRange
    /\ calls' = Append(calls, x)
    /\ x' = increment
    /\ UNCHANGED <<pc, a, b, k, c>>

NextRange ==
    /\ pc = "foreach"
    /\ ~ inRange
    /\ Enter(k + 1)
    /\ UNCHANGED <<a, b, c, calls>>

Next == FilterAndSort \/ Merge \/ Merged \/ Start \/ Call \/ NextRange

Spec == Init /\ [][Next]_vars

-----------------------------------------------------------------------------
(* mRange.Match. *)

\* One turn of the loop of sort.Search, for the least index with Hi >= byte.
halve(s, byte) ==
    LET h == (s.i + s.j) \div 2
    IN  IF s.i >= s.j THEN s
        ELSE IF c[h + 1].Hi >= byte THEN [i |-> s.i, j |-> h]
        ELSE [i |-> h + 1, j |-> s.j]

\* sort.Search(len(m.Ranges), Hi >= byte), from 0.  Every turn of the loop
\* brings i and j closer, so len(m.Ranges) turns are enough.
Search(byte) ==
    LET turn[t \in 0 .. Len(c)] ==
            IF t = 0 THEN [i |-> 0, j |-> Len(c)] ELSE halve(turn[t - 1], byte)
    IN  turn[Len(c)].i

\* Faulty variant: only the upper end is compared.
Match_NoLo(byte) == Search(byte) < Len(c)

Match(byte) ==
    LET i == Search(byte)
    IN  i < Len(c) /\ c[i + 1].Lo <= byte /\ byte <= c[i + 1].Hi

-----------------------------------------------------------------------------
(* Properties. *)

Finished == pc \in {"start", "foreach", "returned"}

\* The type of the state; ForEach's counter passes the last byte by one.
TypeOK ==
    /\ pc \in {"filter", "merge", "start", "foreach", "returned"}
    /\ a \in Seq(Range) /\ b \in Seq(Range) /\ c \in Seq(Range)
    /\ k \in 1 .. Len(b) + 1
    /\ x \in 0 .. MaxByte + 1
    /\ calls \in Seq(Byte)

\* What coalesceRanges "has to guarantee" for Match: no range is empty, and
\* each ends before the next one starts.  It holds of what has been merged so
\* far, at every turn of the loop and for every order of ties in the sort.
Coalesced ==
    /\ \A i \in DOMAIN c : c[i].Lo <= c[i].Hi
    /\ \A i, j \in DOMAIN c : i < j => c[i].Hi < c[j].Lo

Covers(s, n, byte) == \E i \in 1..n : s[i].Lo <= byte /\ byte <= s[i].Hi

\* Merging loses no byte and adds none.
SameBytes ==
    Finished => \A byte \in Byte : Covers(c, Len(c), byte) <=> Covers(a, Len(a), byte)

\* The binary search finds exactly the bytes of the given ranges.
MatchIsMembership ==
    Finished => \A byte \in Byte : Match(byte) <=> Covers(a, Len(a), byte)

Given == {byte \in Byte : Covers(a, Len(a), byte)}

Contract == INSTANCE ForEach WITH set <- Given, returned <- pc = "returned"

\* ForEach calls f once for each byte of the given ranges, in ascending order,
\* and with no byte again, even after the largest there is.
ImplementsForEach == Contract!Spec

\* "we also coalesce adjacent-but-non-overlapping ranges into a single range".
AdjacentCoalesced ==
    Finished => \A i \in 1 .. Len(c) - 1 : c[i].Hi + 1 < c[i + 1].Lo
=============================================================================
