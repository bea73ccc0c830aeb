---------------------------- MODULE Ranges_proofs ----------------------------
(***************************************************************************)
(* For lists of ranges of any length: coalesceRanges does what             *)
(* mRange.Match relies on (the merged ranges are not empty, do not         *)
(* overlap, are sorted, and cover the bytes of the given ones), the binary *)
(* search of Match finds exactly those bytes, and ForEach enumerates them. *)
(***************************************************************************)
EXTENDS Ranges, TLAPS, WellFoundedInduction

In(r, byte) == r.Lo <= byte /\ byte <= r.Hi

LEMMA CoversIn ==
    ASSUME NEW s, NEW n, NEW byte
    PROVE  Covers(s, n, byte) <=> \E i \in 1..n : In(s[i], byte)
  BY DEF Covers, In

\* b holds the ranges of a, and c those of b up to k.
Filtered ==
    /\ \A i \in DOMAIN b : b[i].Lo <= b[i].Hi
    /\ \A i, j \in DOMAIN b : i < j => b[i].Lo <= b[j].Lo
    /\ \A byte \in Byte : Covers(b, Len(b), byte) <=> Covers(a, Len(a), byte)

SoFar ==
    /\ \A byte \in Byte : Covers(c, Len(c), byte) <=> Covers(b, k - 1, byte)
    /\ \A i \in DOMAIN c : \A j \in k .. Len(b) : c[i].Lo <= b[j].Lo

Types ==
    /\ pc \in {"filter", "merge", "start", "foreach", "returned"}
    /\ a \in Seq(Range) /\ b \in Seq(Range) /\ c \in Seq(Range)
    /\ pc = "merge" => k \in 1 .. Len(b) + 1

\* The inductive invariant.
IInv ==
    /\ Types
    /\ Coalesced
    /\ pc = "filter" => c = <<>> /\ k = 1
    /\ pc = "merge" => Filtered /\ SoFar
    /\ SameBytes

LEMMA RangeType == \A r \in Range : r.Lo \in Int /\ r.Hi \in Int
  BY MaxByteAssumption DEF Range, Byte

LEMMA LastOrBefore ==
    ASSUME NEW n \in Nat
    PROVE  /\ \A i \in 1..n : (i = n \/ i < n) /\ n \in 1..n
           /\ \A i, j \in 1..n : i < j => i # n
  OBVIOUS

LEMMA InitIInv == Init => IInv
<1> SUFFICES ASSUME Init PROVE IInv
  OBVIOUS
<1>1. a \in Seq(Range)
  BY ListsAssumption DEF Init
<1> QED
  BY <1>1 DEF Init, IInv, Types, Coalesced, SameBytes, Finished

LEMMA FilterStep == IInv /\ FilterAndSort => IInv'
<1> SUFFICES ASSUME IInv, FilterAndSort PROVE IInv'
  OBVIOUS
<1>1. PICK n \in 0 .. Len(a) : \E p \in [1..n -> 1 .. Len(a)] :
          LET s == [i \in 1..n |-> a[p[i]]]
          IN  /\ SortedBy(p, s)
              /\ b' = s
              /\ \/ n < 2 /\ c' = s /\ pc' = "start"
                 \/ n >= 2 /\ c' = c /\ pc' = "merge"
  BY Zenon DEF FilterAndSort
<1>2. PICK p \in [1..n -> 1 .. Len(a)] :
          LET s == [i \in 1..n |-> a[p[i]]]
          IN  /\ SortedBy(p, s)
              /\ b' = s
              /\ \/ n < 2 /\ c' = s /\ pc' = "start"
                 \/ n >= 2 /\ c' = c /\ pc' = "merge"
  BY <1>1, Zenon
<1> DEFINE s == [i \in 1..n |-> a[p[i]]]
<1>3. a \in Seq(Range) /\ Len(a) \in Nat /\ n \in Nat /\ a' = a /\ k' = k /\ c = <<>> /\ k = 1
      /\ DOMAIN a = 1 .. Len(a)
  BY DEF IInv, Types, FilterAndSort
<1>4. \A i \in 1..n : a[p[i]] \in Range
  BY <1>3
<1>5. s \in Seq(Range) /\ Len(s) = n /\ DOMAIN s = 1..n
  BY <1>3, <1>4
<1>6. /\ {p[i] : i \in 1..n} = {i \in 1 .. Len(a) : a[i].Lo <= a[i].Hi}
      /\ \A i, j \in 1..n : i < j => s[i].Lo <= s[j].Lo
  BY <1>2, <1>3, <1>5, Zenon DEF SortedBy
<1>7. \A i \in 1..n : s[i].Lo <= s[i].Hi
  BY <1>6
<1>8. \A byte \in Byte : Covers(s, n, byte) <=> Covers(a, Len(a), byte)
  <2> SUFFICES ASSUME NEW byte \in Byte PROVE Covers(s, n, byte) <=> Covers(a, Len(a), byte)
    OBVIOUS
  <2>0. byte \in Int
    BY MaxByteAssumption DEF Byte
  <2>1. ASSUME NEW i \in 1..n, In(s[i], byte) PROVE Covers(a, Len(a), byte)
    BY <2>1, CoversIn
  <2>2. ASSUME NEW j \in 1 .. Len(a), In(a[j], byte) PROVE Covers(s, n, byte)
    <3>1. a[j].Lo \in Int /\ a[j].Hi \in Int
      BY <1>3, RangeType
    <3>2. a[j].Lo <= a[j].Hi
      BY <2>0, <2>2, <3>1 DEF In
    <3>3. PICK i \in 1..n : p[i] = j
      BY <3>2, <1>6
    <3> QED
      BY <3>3, <2>2, CoversIn
  <2> QED
    BY <2>1, <2>2, CoversIn
<1>9. CASE n < 2 /\ c' = s /\ pc' = "start"
  <2>1. Coalesced'
    BY <1>9, <1>5, <1>7, <1>3 DEF Coalesced
  <2>2. SameBytes'
    BY <1>9, <1>5, <1>8, <1>3 DEF SameBytes
  <2> QED
    BY <2>1, <2>2, <1>9, <1>2, <1>3, <1>5 DEF IInv, Types
<1>10. CASE n >= 2 /\ c' = c /\ pc' = "merge"
  <2>1. b' = s
    BY <1>2
  <2>2. Filtered'
    BY <2>1, <1>3, <1>5, <1>6, <1>7, <1>8, Zenon DEF Filtered
  <2>3. SoFar'
    BY <1>10, <1>3 DEF SoFar, Covers
  <2>4. Types' /\ Coalesced' /\ SameBytes'
    BY <1>10, <1>3, <1>5, <2>1 DEF Types, Coalesced, SameBytes, Finished
  <2> QED
    BY <2>2, <2>3, <2>4, <1>10 DEF IInv
<1> QED
  BY <1>2, <1>9, <1>10

LEMMA MergeStep == IInv /\ Merge => IInv'
<1> SUFFICES ASSUME IInv, Merge PROVE IInv'
  OBVIOUS
<1> DEFINE r == b[k]
           l == Len(c)
<1>1. /\ a \in Seq(Range) /\ b \in Seq(Range) /\ c \in Seq(Range)
      /\ k \in 1 .. Len(b) /\ Len(b) \in Nat /\ l \in Nat
      /\ DOMAIN c = 1..l /\ DOMAIN b = 1 .. Len(b)
      /\ pc = "merge" /\ k' = k + 1 /\ UNCHANGED <<pc, a, b>>
  BY DEF IInv, Types, Merge
<1>2. r \in Range /\ r.Lo \in Int /\ r.Hi \in Int /\ r.Lo <= r.Hi
  BY <1>1, RangeType DEF IInv, Filtered
<1>3. \A i \in 1..l : c[i] \in Range /\ c[i].Lo \in Int /\ c[i].Hi \in Int /\ c[i].Lo <= r.Lo
                      /\ c[i].Lo <= c[i].Hi
  <2>1. \A i \in 1..l : c[i] \in Range
    BY <1>1
  <2>2. \A i \in 1..l : c[i].Lo <= r.Lo /\ c[i].Lo <= c[i].Hi
    BY <1>1 DEF IInv, SoFar, Coalesced
  <2> QED
    BY <2>1, <2>2, RangeType
<1>c. /\ \A i \in 1..l : (i = l \/ i < l) /\ l \in 1..l
      /\ \A i, j \in 1..l : i < j => i # l
  <2>1. l \in Nat
    BY <1>1
  <2> HIDE DEF l
  <2> QED
    BY <2>1, LastOrBefore
<1>a. \A i, j \in 1..l : i < j => c[i].Hi < c[j].Lo
  BY <1>1 DEF IInv, Coalesced
<1>4. \A byte \in Byte : Covers(b, k, byte) <=> Covers(b, k - 1, byte) \/ In(r, byte)
  BY <1>1 DEF Covers, In
<1>5. \A j \in k + 1 .. Len(b) : r.Lo <= b[j].Lo
  BY <1>1 DEF IInv, Filtered
<1>6. Filtered' /\ SameBytes'
  BY <1>1 DEF IInv, Filtered, SameBytes, Finished
<1>b. \A byte \in Byte : byte \in Int
  BY MaxByteAssumption DEF Byte
<1>7. CASE contained(r) /\ UNCHANGED c
  <2>1. l > 0 /\ c[l].Hi >= r.Hi
    BY <1>7, <1>1 DEF contained, have, lastHi
  <2>2. \A byte \in Byte : In(r, byte) => Covers(c, l, byte)
    BY SMTT(40), <2>1, <1>1, <1>2, <1>3, <1>b DEF In, Covers
  <2>3. SoFar'
    <3>1. \A byte \in Byte : Covers(c, l, byte) <=> Covers(b, k, byte)
      BY <2>2, <1>1, <1>4 DEF IInv, SoFar
    <3>2. \A i \in 1..l : \A j \in k + 1 .. Len(b) : c[i].Lo <= b[j].Lo
      BY <1>1 DEF IInv, SoFar
    <3> QED
      BY <3>1, <3>2, <1>1, <1>7 DEF SoFar
  <2> QED
    BY <2>3, <1>1, <1>6, <1>7 DEF IInv, Types, Coalesced
<1>8. CASE /\ ~ contained(r) /\ overlaps(r)
           /\ c' = [c EXCEPT ![Len(c)].Hi = r.Hi]
  <2>1. l > 0 /\ c[l].Hi < r.Hi /\ r.Lo <= c[l].Hi
    BY SMTT(40), <1>8, <1>1, <1>2, <1>3 DEF contained, overlaps, have, lastHi
  <2>2. c' \in Seq(Range) /\ Len(c') = l /\ DOMAIN c' = 1..l
    <3>1. [c[l] EXCEPT !.Hi = r.Hi] \in Range
      BY SMTT(40), <2>1, <1>1, <1>2, <1>3 DEF Range
    <3> QED
      BY <3>1, <2>1, <1>1, <1>8
  <2>3. /\ \A i \in 1..l : i # l => c'[i] = c[i]
        /\ c'[l].Lo = c[l].Lo /\ c'[l].Hi = r.Hi
    BY <2>1, <1>1, <1>3, <1>8 DEF Range
  <2>4. Coalesced'
    <3>1. \A i \in 1..l : c'[i].Lo = c[i].Lo
      BY ZenonT(40), <2>3, <1>1
    <3>2. \A i \in 1..l : i # l => c'[i].Hi = c[i].Hi
      BY ZenonT(40), <2>3, <1>1
    <3>3. \A i \in 1..l : c'[i].Lo <= c'[i].Hi
      <4> SUFFICES ASSUME NEW i \in 1..l PROVE c'[i].Lo <= c'[i].Hi
        OBVIOUS
      <4>1. CASE i = l
        BY <4>1, <2>1, <2>3, <1>2, <1>3, <1>c
      <4>2. CASE i # l
        BY <4>2, <3>1, <3>2, <1>3
      <4> QED
        BY <4>1, <4>2
    <3>4. \A i, j \in 1..l : i < j => c'[i].Hi < c'[j].Lo
      <4> SUFFICES ASSUME NEW i \in 1..l, NEW j \in 1..l, i < j PROVE c'[i].Hi < c'[j].Lo
        OBVIOUS
      <4>1. i # l
        BY <1>c
      <4> QED
        BY <4>1, <3>1, <3>2, <1>a
    <3> QED
      BY <3>3, <3>4, <2>2 DEF Coalesced
  <2>5. \A byte \in Byte : Covers(c', l, byte) <=> Covers(c, l, byte) \/ In(r, byte)
    <3> SUFFICES ASSUME NEW byte \in Byte
                 PROVE  Covers(c', l, byte) <=> Covers(c, l, byte) \/ In(r, byte)
      OBVIOUS
    <3>1. In(c'[l], byte) <=> In(c[l], byte) \/ In(r, byte)
      BY <2>1, <2>3, <1>2, <1>3, <1>b DEF In
    <3>2. \A i \in 1..l : i # l => c'[i] = c[i]
      BY <2>3
    <3>3. l \in 1..l
      BY <2>1, <1>1
    <3>4. (\E i \in 1..l : In(c'[i], byte)) <=> (\E i \in 1..l : In(c[i], byte)) \/ In(r, byte)
      BY <3>1, <3>2, <3>3
    <3> QED
      BY <3>4, CoversIn
  <2>6. SoFar'
    <3>1. \A byte \in Byte : Covers(c', l, byte) <=> Covers(b, k, byte)
      BY <2>5, <1>1, <1>4 DEF IInv, SoFar
    <3>2. \A i \in 1..l : c'[i].Lo = c[i].Lo
      BY ZenonT(40), <2>3, <1>1
    <3>3. \A i \in 1..l : \A j \in k + 1 .. Len(b) : c'[i].Lo <= b[j].Lo
      BY <3>2, <1>1 DEF IInv, SoFar
    <3>4. k' - 1 = k /\ Len(c') = l /\ DOMAIN c' = 1..l /\ b' = b /\ k' = k + 1
      BY <2>2, <1>1
    <3> QED
      BY <3>1, <3>3, <3>4 DEF SoFar
  <2> QED
    BY <2>2, <2>4, <2>6, <1>1, <1>6 DEF IInv, Types
<1>9. CASE ~ contained(r) /\ ~ overlaps(r) /\ c' = Append(c, r)
  <2>1. l > 0 => c[l].Hi < r.Lo
    BY <1>9, <1>1, <1>2, <1>3 DEF overlaps, have, lastHi
  <2>2. c' \in Seq(Range) /\ Len(c') = l + 1 /\ DOMAIN c' = 1 .. l + 1
    BY <1>1, <1>2, <1>9
  <2>3. (\A i \in 1..l : c'[i] = c[i]) /\ c'[l + 1] = r
    BY <1>1, <1>2, <1>9
  <2>4. \A i \in 1..l : c[i].Hi < r.Lo
    <3> SUFFICES ASSUME NEW i \in 1..l PROVE c[i].Hi < r.Lo
      OBVIOUS
    <3>1. i = l \/ c[i].Hi < c[l].Lo
      BY <1>a, <1>c
    <3> QED
      BY <3>1, <2>1, <1>1, <1>2, <1>3
  <2>5. Coalesced'
    <3>1. \A i \in 1 .. l + 1 : c'[i].Lo <= c'[i].Hi
      BY <2>3, <1>1, <1>2, <1>3
    <3>2. \A i, j \in 1 .. l + 1 : i < j => i \in 1..l /\ (j \in 1..l \/ j = l + 1)
      BY <1>1
    <3>3. \A i, j \in 1 .. l + 1 : i < j => c'[i].Hi < c'[j].Lo
      BY <3>2, <2>3, <2>4, <1>a
    <3> QED
      BY <3>1, <3>3, <2>2 DEF Coalesced
  <2>6. \A byte \in Byte : Covers(c', l + 1, byte) <=> Covers(c, l, byte) \/ In(r, byte)
    <3> SUFFICES ASSUME NEW byte \in Byte
                 PROVE  Covers(c', l + 1, byte) <=> Covers(c, l, byte) \/ In(r, byte)
      OBVIOUS
    <3>1. In(c'[l + 1], byte) <=> In(r, byte)
      BY <2>3
    <3>2. \A i \in 1..l : In(c'[i], byte) <=> In(c[i], byte)
      BY <2>3
    <3> QED
      BY SMTT(40), <3>1, <3>2, <1>1, CoversIn
  <2>7. SoFar'
    <3>1. \A byte \in Byte : Covers(c', l + 1, byte) <=> Covers(b, k, byte)
      BY <2>6, <1>1, <1>4 DEF IInv, SoFar
    <3>2. \A i \in 1..l : \A j \in k + 1 .. Len(b) : c[i].Lo <= b[j].Lo
      BY <1>1 DEF IInv, SoFar
    <3> QED
      BY <3>1, <3>2, <2>2, <2>3, <1>1, <1>5 DEF SoFar
  <2> QED
    BY <2>2, <2>5, <2>7, <1>1, <1>6 DEF IInv, Types
<1> QED
  BY <1>7, <1>8, <1>9 DEF Merge

LEMMA OtherSteps == IInv /\ (Merged \/ Start \/ Call \/ NextRange \/ UNCHANGED vars) => IInv'
<1> SUFFICES ASSUME IInv, Merged \/ Start \/ Call \/ NextRange \/ UNCHANGED vars PROVE IInv'
  OBVIOUS
<1>1. UNCHANGED <<a, b, c>>
  BY DEF Merged, Start, Call, NextRange, vars
<1>2. CASE Merged
  <2>1. k = Len(b) + 1 /\ Len(b) \in Nat
    BY <1>2 DEF Merged, IInv, Types
  <2>2. \A byte \in Byte : Covers(c, Len(c), byte) <=> Covers(a, Len(a), byte)
    BY <1>2, <2>1 DEF Merged, IInv, SoFar, Filtered
  <2> QED
    BY <2>2, <1>1, <1>2 DEF Merged, IInv, Types, Coalesced, SameBytes
<1>3. CASE Start \/ Call \/ NextRange
  BY <1>1, <1>3 DEF Start, Call, NextRange, Enter, IInv, Types, Coalesced, SameBytes, Finished
<1>4. CASE UNCHANGED vars
  BY <1>4 DEF vars, IInv, Types, Coalesced, SameBytes, Finished, Filtered, SoFar
<1> QED
  BY <1>2, <1>3, <1>4

LEMMA RangesInvariant == Spec => []IInv
<1>1. Init => IInv
  BY InitIInv
<1>2. IInv /\ [Next]_vars => IInv'
  BY FilterStep, MergeStep, OtherSteps DEF Next
<1> QED
  BY <1>1, <1>2, PTL DEF Spec

\* coalesceRanges keeps the guarantees that its comment lists and Match's
\* binary search relies on, for any list of ranges and any unstable sort.
THEOREM CoalescedTheorem == Spec => []Coalesced
<1>1. IInv => Coalesced
  BY DEF IInv
<1> QED
  BY <1>1, RangesInvariant, PTL

\* The merged ranges cover exactly the bytes of the given ranges.
THEOREM SameBytesTheorem == Spec => []SameBytes
<1>1. IInv => SameBytes
  BY DEF IInv
<1> QED
  BY <1>1, RangesInvariant, PTL

-----------------------------------------------------------------------------
(* The binary search. *)

\* Every nonempty set of naturals has a least element.
LEMMA LeastNat ==
    ASSUME NEW T, T \subseteq Nat, T # {}
    PROVE  \E n \in T : \A m \in T : n <= m
<1> DEFINE R == {ss \in Nat \X Nat : ss[1] < ss[2]}
<1>1. IsWellFoundedOn(R, Nat)
  BY NatLessThanWellFounded DEF OpToRel
<1> HIDE DEF R
<1>2. PICK n \in T : \A m \in T : ~ (<<m, n>> \in R)
  BY <1>1, WFMin, Zenon
<1>3. \A m \in T : m \in Nat /\ n \in Nat /\ ~ m < n
  BY <1>2, Zenon DEF R
<1> QED
  BY <1>3

Bounds == [i : 0 .. Len(c), j : 0 .. Len(c)]

Whole == [i |-> 0, j |-> Len(c)]

\* f gives the bounds after each of the first m turns.
Turns(f, m, byte) ==
    \A t \in 0 .. Len(c) : t <= m => f[t] = IF t = 0 THEN Whole ELSE halve(f[t - 1], byte)

\* A turn keeps the bounds within the list, and brings them closer.
LEMMA Halving ==
    ASSUME Len(c) \in Nat, NEW s \in Bounds, NEW byte
    PROVE  /\ halve(s, byte) \in Bounds
           /\ s.i < s.j => /\ (s.i + s.j) \div 2 \in s.i .. s.j - 1
                           /\ halve(s, byte).j - halve(s, byte).i < s.j - s.i
<1>1. s.i \in 0 .. Len(c) /\ s.j \in 0 .. Len(c)
  BY DEF Bounds
<1>2. CASE s.i >= s.j
  BY <1>1, <1>2 DEF halve
<1>3. CASE s.i < s.j
  <2> DEFINE h == (s.i + s.j) \div 2
  <2>1. h \in s.i .. s.j - 1
    BY <1>1, <1>3
  <2> HIDE DEF h
  <2>2. /\ [i |-> s.i, j |-> h] \in Bounds /\ [i |-> h + 1, j |-> s.j] \in Bounds
    BY <1>1, <2>1 DEF Bounds
  <2>3. halve(s, byte) \in {[i |-> s.i, j |-> h], [i |-> h + 1, j |-> s.j]}
    BY <1>1, <1>3 DEF halve, h
  <2>4. halve(s, byte).j - halve(s, byte).i < s.j - s.i
    BY <1>1, <2>1, <2>3
  <2> QED
    BY <2>1, <2>2, <2>3, <2>4 DEF h
<1> QED
  BY <1>1, <1>2, <1>3

\* The recursion that defines Search has a solution.
LEMMA TurnsExist ==
    ASSUME Len(c) \in Nat, NEW byte
    PROVE  \A m \in Nat : \E f \in [0 .. Len(c) -> Bounds] : Turns(f, m, byte)
<1> DEFINE T == {m \in Nat : ~ \E f \in [0 .. Len(c) -> Bounds] : Turns(f, m, byte)}
<1>1. SUFFICES ASSUME T # {} PROVE FALSE
  OBVIOUS
<1>2. PICK m \in T : \A n \in T : m <= n
  <2>1. T \subseteq Nat
    OBVIOUS
  <2> HIDE DEF T
  <2> QED
    BY <1>1, <2>1, LeastNat, Zenon
<1>3. Whole \in Bounds
  BY DEF Whole, Bounds
<1>4. m # 0
  <2> DEFINE f == [t \in 0 .. Len(c) |-> Whole]
  <2>1. f \in [0 .. Len(c) -> Bounds] /\ \A t \in 0 .. Len(c) : f[t] = Whole
    BY <1>3
  <2> HIDE DEF f
  <2>2. Turns(f, 0, byte)
    BY <2>1 DEF Turns
  <2> QED
    BY <2>1, <2>2
<1>5. m - 1 \in Nat /\ m \in Nat /\ ~ m <= m - 1
  BY <1>4
<1>6. PICK f \in [0 .. Len(c) -> Bounds] : Turns(f, m - 1, byte)
  BY <1>2, <1>5
<1>7. CASE m > Len(c)
  <2>1. Turns(f, m, byte)
    BY <1>5, <1>6, <1>7 DEF Turns
  <2> QED
    BY <2>1
<1>8. CASE m <= Len(c)
  <2> DEFINE s == halve(f[m - 1], byte)
             g == [f EXCEPT ![m] = s]
  <2>1. m \in 0 .. Len(c) /\ m - 1 \in 0 .. Len(c)
    BY <1>5, <1>8
  <2>2. s \in Bounds
    BY <2>1, Halving
  <2>3. /\ g \in [0 .. Len(c) -> Bounds] /\ g[m] = s
        /\ \A t \in 0 .. Len(c) : t # m => g[t] = f[t]
    BY <2>1, <2>2
  <2>4. Turns(g, m, byte)
    <3> SUFFICES ASSUME NEW t \in 0 .. Len(c), t <= m
                 PROVE  g[t] = IF t = 0 THEN Whole ELSE halve(g[t - 1], byte)
      BY DEF Turns
    <3> HIDE DEF g
    <3>1. t - 1 # m
      BY <1>5
    <3>2. CASE t = m
      <4>1. g[m - 1] = f[m - 1]
        BY <2>1, <2>3, <1>5
      <4> QED
        BY <3>2, <4>1, <2>3, <1>4
    <3>3. CASE t # m
      <4>1. t <= m - 1 /\ g[t] = f[t]
        BY <3>3, <1>5, <2>3
      <4>2. f[t] = IF t = 0 THEN Whole ELSE halve(f[t - 1], byte)
        BY <4>1, <1>6 DEF Turns
      <4>3. t # 0 => t - 1 \in 0 .. Len(c) /\ g[t - 1] = f[t - 1]
        BY <3>1, <2>3
      <4> QED
        BY <4>1, <4>2, <4>3
    <3> QED
      BY <3>2, <3>3
  <2> QED
    BY <2>3, <2>4, Zenon
<1> QED
  BY <1>5, <1>7, <1>8

\* What Search is: the bounds after Len(c) turns.
LEMMA SearchTurns ==
    ASSUME Len(c) \in Nat, NEW byte
    PROVE  \E f \in [0 .. Len(c) -> Bounds] : Turns(f, Len(c), byte) /\ Search(byte) = f[Len(c)].i
<1> DEFINE rhs(f) == [t \in 0 .. Len(c) |-> IF t = 0 THEN Whole ELSE halve(f[t - 1], byte)]
           turn == CHOOSE f : f = rhs(f)
<1>1. Search(byte) = turn[Len(c)].i
  BY DEF Search, Whole
<1>2. PICK f \in [0 .. Len(c) -> Bounds] : Turns(f, Len(c), byte)
  BY TurnsExist
<1>3. \A t \in 0 .. Len(c) : f[t] = IF t = 0 THEN Whole ELSE halve(f[t - 1], byte)
  BY <1>2 DEF Turns
<1>4. f = rhs(f)
  BY <1>3
<1>5. turn = rhs(turn)
  BY <1>4, Zenon
<1> HIDE DEF turn
<1>6. \A t \in 0 .. Len(c) : turn[t] = IF t = 0 THEN Whole ELSE halve(turn[t - 1], byte)
  BY <1>5
<1>7. \A t \in 0 .. Len(c) : turn[t] = f[t]
  <2> DEFINE T == {t \in 0 .. Len(c) : turn[t] # f[t]}
  <2>1. SUFFICES ASSUME T # {} PROVE FALSE
    OBVIOUS
  <2>2. PICK t \in T : \A u \in T : t <= u
    <3>1. T \subseteq Nat
      OBVIOUS
    <3> HIDE DEF T
    <3> QED
      BY <2>1, <3>1, LeastNat, Zenon
  <2>3. t # 0
    BY <1>3, <1>6
  <2>4. t - 1 \in 0 .. Len(c) /\ ~ t <= t - 1
    BY <2>3
  <2>5. turn[t - 1] = f[t - 1]
    BY <2>2, <2>4
  <2> QED
    BY <1>3, <1>6, <2>3, <2>5
<1>8. turn[Len(c)] = f[Len(c)]
  BY <1>7
<1> QED
  BY <1>1, <1>2, <1>8

\* Below i every range ends before byte, and from j on none does; after t turns
\* the bounds have met or are at least t closer.
Located(s, t, byte) ==
    /\ s.i <= s.j
    /\ s.j - s.i <= Len(c) - t \/ s.i = s.j
    /\ \A n \in 1 .. s.i : c[n].Hi < byte
    /\ \A n \in s.j + 1 .. Len(c) : c[n].Hi >= byte

\* A turn keeps to the right place.
LEMMA HalveLocates ==
    ASSUME IInv, NEW byte \in Byte, NEW t \in Nat, NEW s \in Bounds, Located(s, t, byte)
    PROVE  Located(halve(s, byte), t + 1, byte)
<1>1. /\ c \in Seq(Range) /\ Len(c) \in Nat /\ DOMAIN c = 1 .. Len(c) /\ byte \in Int
      /\ s.i \in 0 .. Len(c) /\ s.j \in 0 .. Len(c)
  BY MaxByteAssumption DEF IInv, Types, Bounds, Byte
<1>2. \A n \in 1 .. Len(c) : c[n].Lo \in Int /\ c[n].Hi \in Int
  BY <1>1, RangeType
<1>3. \A m, n \in 1 .. Len(c) : m <= n => c[m].Hi <= c[n].Hi
  <2>1. \A m, n \in 1 .. Len(c) : m < n => c[m].Hi < c[n].Lo /\ c[n].Lo <= c[n].Hi
    BY <1>1 DEF IInv, Coalesced
  <2> QED
    BY <1>2, <2>1
<1>4. CASE s.i >= s.j
  BY <1>1, <1>4 DEF halve, Located
<1>5. CASE s.i < s.j
  <2> DEFINE h == (s.i + s.j) \div 2
  <2>1. h \in s.i .. s.j - 1 /\ h + 1 \in 1 .. Len(c)
    BY <1>1, <1>5, Halving, SMTT(40)
  <2>2. halve(s, byte).j - halve(s, byte).i < s.j - s.i
    BY <1>1, <1>5, Halving
  <2>3. halve(s, byte) = IF c[h + 1].Hi >= byte THEN [i |-> s.i, j |-> h] ELSE [i |-> h + 1, j |-> s.j]
    BY <1>1, <1>5 DEF halve
  <2> HIDE DEF h
  <2>4. CASE c[h + 1].Hi >= byte
    <3>1. halve(s, byte).i = s.i /\ halve(s, byte).j = h
      BY <2>3, <2>4
    <3>2. \A n \in h + 1 .. Len(c) : c[n].Hi >= byte
      BY <1>1, <1>2, <1>3, <2>1, <2>4
    <3> QED
      BY <1>1, <1>5, <2>1, <2>2, <3>1, <3>2 DEF Located
  <2>5. CASE ~ c[h + 1].Hi >= byte
    <3>1. halve(s, byte).i = h + 1 /\ halve(s, byte).j = s.j
      BY <2>3, <2>5
    <3>2. \A n \in 1 .. h + 1 : c[n].Hi < byte
      BY <1>1, <1>2, <1>3, <2>1, <2>5
    <3> QED
      BY <1>1, <1>5, <2>1, <2>2, <3>1, <3>2 DEF Located
  <2> QED
    BY <2>4, <2>5
<1> QED
  BY <1>1, <1>4, <1>5

\* The search finds the first range that does not end before byte.
LEMMA SearchFinds ==
    ASSUME IInv, NEW byte \in Byte
    PROVE  /\ Search(byte) \in 0 .. Len(c)
           /\ \A n \in 1 .. Search(byte) : c[n].Hi < byte
           /\ \A n \in Search(byte) + 1 .. Len(c) : c[n].Hi >= byte
<1>1. Len(c) \in Nat
  BY DEF IInv, Types
<1>2. PICK f \in [0 .. Len(c) -> Bounds] : Turns(f, Len(c), byte) /\ Search(byte) = f[Len(c)].i
  BY <1>1, SearchTurns
<1>3. /\ f[0] = Whole
      /\ \A t \in 0 .. Len(c) : t # 0 => f[t] = halve(f[t - 1], byte)
  BY <1>1, <1>2 DEF Turns
<1>4. Located(f[0], 0, byte)
  BY <1>1, <1>3 DEF Located, Whole
<1>5. \A t \in 0 .. Len(c) : Located(f[t], t, byte)
  <2> DEFINE T == {t \in 0 .. Len(c) : ~ Located(f[t], t, byte)}
  <2>1. SUFFICES ASSUME T # {} PROVE FALSE
    OBVIOUS
  <2>2. PICK t \in T : \A u \in T : t <= u
    <3>1. T \subseteq Nat
      OBVIOUS
    <3> HIDE DEF T
    <3> QED
      BY <2>1, <3>1, LeastNat, Zenon
  <2>3. t # 0
    BY <1>4
  <2>4. t - 1 \in 0 .. Len(c) /\ t - 1 \in Nat /\ ~ t <= t - 1 /\ (t - 1) + 1 = t
    BY <2>3
  <2>5. Located(f[t - 1], t - 1, byte)
    BY <2>2, <2>4
  <2>6. f[t - 1] \in Bounds
    BY <2>4
  <2>7. Located(halve(f[t - 1], byte), (t - 1) + 1, byte)
    BY <2>4, <2>5, <2>6, HalveLocates
  <2> QED
    BY <1>3, <2>3, <2>4, <2>7
<1>6. f[Len(c)] \in Bounds /\ Located(f[Len(c)], Len(c), byte)
  BY <1>1, <1>5
<1>7. f[Len(c)].i = f[Len(c)].j /\ f[Len(c)].i \in 0 .. Len(c)
  BY <1>1, <1>6 DEF Located, Bounds
<1> QED
  BY <1>2, <1>6, <1>7 DEF Located

\* Match answers for the given ranges, of any number: its binary search relies
\* on what coalesceRanges guarantees, and finds the one range that could hold
\* the byte.
THEOREM MatchTheorem == Spec => []MatchIsMembership
<1>1. IInv => MatchIsMembership
  <2> SUFFICES ASSUME IInv, Finished, NEW byte \in Byte
               PROVE  Match(byte) <=> Covers(a, Len(a), byte)
    BY DEF MatchIsMembership
  <2>1. Covers(a, Len(a), byte) <=> Covers(c, Len(c), byte)
    BY DEF IInv, SameBytes
  <2> DEFINE n == Search(byte)
  <2>2. /\ c \in Seq(Range) /\ Len(c) \in Nat /\ DOMAIN c = 1 .. Len(c) /\ byte \in Int
    BY MaxByteAssumption DEF IInv, Types, Byte
  <2>3. /\ n \in 0 .. Len(c)
        /\ \A m \in 1 .. n : c[m].Hi < byte
        /\ \A m \in n + 1 .. Len(c) : c[m].Hi >= byte
    BY SearchFinds
  <2>4. Match(byte) <=> n < Len(c) /\ In(c[n + 1], byte)
    BY DEF Match, In
  <2> HIDE DEF n
  <2>5. \A m \in 1 .. Len(c) : c[m].Lo \in Int /\ c[m].Hi \in Int
    BY <2>2, RangeType
  <2>6. ASSUME NEW m \in 1 .. Len(c), In(c[m], byte) PROVE m = n + 1 /\ n < Len(c)
    <3>1. ~ m \in 1 .. n
      BY <2>2, <2>3, <2>5, <2>6 DEF In
    <3>2. CASE m > n + 1
      <4>1. n + 1 \in 1 .. Len(c) /\ n + 1 < m
        BY <2>2, <2>3, <3>2
      <4>2. c[n + 1].Hi < c[m].Lo /\ c[n + 1].Hi >= byte
        BY <2>2, <2>3, <4>1 DEF IInv, Coalesced
      <4> QED
        BY <2>2, <2>5, <2>6, <4>1, <4>2 DEF In
    <3> QED
      BY <2>2, <2>3, <3>1, <3>2
  <2>7. Covers(c, Len(c), byte) <=> \E m \in 1 .. Len(c) : In(c[m], byte)
    BY CoversIn
  <2>8. n < Len(c) => n + 1 \in 1 .. Len(c)
    BY <2>2, <2>3
  <2> QED
    BY <2>1, <2>4, <2>6, <2>7, <2>8
<1> QED
  BY <1>1, RangesInvariant, PTL

-----------------------------------------------------------------------------
(* ForEach. *)

Called == Contract!Called

\* Those of the given bytes that are below y.
Below(y) == {byte \in Given : byte < y}

\* The merged list is no longer than the one it was made from, and ForEach has
\* called f with what is below its counter.
Enum ==
    /\ pc = "filter" => b = <<>> /\ k = 1
    /\ pc = "merge" => Len(c) <= k - 1
    /\ pc \in {"filter", "merge", "start"} => calls = <<>> /\ x = 0
    /\ Finished => Len(c) <= Len(b) /\ k \in 1 .. Len(b) + 1
    /\ pc = "foreach" => /\ k \in 1 .. Len(c)
                         /\ x \in c[k].Lo .. c[k].Hi + 1
                         /\ Called = Below(x)
    /\ pc = "returned" => Called = Given /\ x \in 0 .. MaxByte + 1
    /\ calls \in Seq(Byte)

\* Facts about the finished list that ForEach's steps rest on.
LEMMA FinishedList ==
    ASSUME IInv, Finished
    PROVE  /\ c \in Seq(Range) /\ Len(c) \in Nat /\ DOMAIN c = 1 .. Len(c)
           /\ \A n \in 1 .. Len(c) : c[n].Lo \in Byte /\ c[n].Hi \in Byte /\ c[n].Lo <= c[n].Hi
           /\ \A m, n \in 1 .. Len(c) : m < n => c[m].Hi < c[n].Lo
           /\ \A byte \in Byte : byte \in Int
           /\ Given = {byte \in Byte : \E n \in 1 .. Len(c) : In(c[n], byte)}
<1>1. c \in Seq(Range) /\ Len(c) \in Nat /\ DOMAIN c = 1 .. Len(c)
  BY DEF IInv, Types
<1>2. \A n \in 1 .. Len(c) : c[n].Lo \in Byte /\ c[n].Hi \in Byte
  <2>1. \A r \in Range : r.Lo \in Byte /\ r.Hi \in Byte
    BY DEF Range
  <2>2. \A n \in 1 .. Len(c) : c[n] \in Range
    BY <1>1
  <2> QED
    BY <2>1, <2>2
<1>3. \A byte \in Byte : byte \in Int
  BY MaxByteAssumption DEF Byte
<1>4. Given = {byte \in Byte : Covers(c, Len(c), byte)}
  BY DEF IInv, SameBytes, Given
<1>5. Given = {byte \in Byte : \E n \in 1 .. Len(c) : In(c[n], byte)}
  BY <1>4, CoversIn
<1> QED
  BY <1>1, <1>2, <1>3, <1>5, Zenon DEF IInv, Coalesced

\* Entering range n when everything below it has been called.
LEMMA Entering ==
    ASSUME IInv, Finished, Len(c) <= Len(b), b \in Seq(Range), NEW n \in 1 .. Len(c) + 1, Enter(n),
           UNCHANGED <<a, b, c, calls>>, calls \in Seq(Byte),
           x \in 0 .. MaxByte + 1,
           \A y \in Given : y \in Called <=> \E m \in 1 .. n - 1 : In(c[m], y),
           Called \subseteq Given
    PROVE  Enum'
<1>1. /\ c \in Seq(Range) /\ Len(c) \in Nat /\ DOMAIN c = 1 .. Len(c)
      /\ \A m \in 1 .. Len(c) : c[m].Lo \in Byte /\ c[m].Hi \in Byte /\ c[m].Lo <= c[m].Hi
      /\ \A l, m \in 1 .. Len(c) : l < m => c[l].Hi < c[m].Lo
      /\ \A byte \in Byte : byte \in Int
      /\ Given = {byte \in Byte : \E m \in 1 .. Len(c) : In(c[m], byte)}
  BY FinishedList
<1>2. Len(b) \in Nat /\ k' = n /\ k' \in 1 .. Len(b) + 1
  BY <1>1 DEF Enter
<1>3. Given' = Given /\ Called' = Called /\ Below(c[n].Lo)' = Below(c[n].Lo)
  BY DEF Given, Below, Called, Contract!Called, Covers
<1>4. CASE n <= Len(c) /\ pc' = "foreach" /\ x' = c[n].Lo
  <2>1. n \in 1 .. Len(c)
    BY <1>1, <1>4
  <2>2. ASSUME NEW y \in Given PROVE (y < c[n].Lo) <=> \E m \in 1 .. n - 1 : In(c[m], y)
    <3>1. PICK m \in 1 .. Len(c) : In(c[m], y)
      BY <1>1
    <3>2. y \in Int
      BY <1>1
    <3>3. ASSUME NEW l \in 1 .. n - 1, In(c[l], y) PROVE y < c[n].Lo
      <4>1. l \in 1 .. Len(c) /\ l < n
        BY <1>1, <2>1
      <4>2. c[l].Hi < c[n].Lo /\ c[l].Hi \in Int /\ c[n].Lo \in Int
        BY <1>1, <2>1, <4>1
      <4> QED
        BY <3>2, <3>3, <4>2 DEF In
    <3>4. CASE m < n
      <4>1. m \in 1 .. n - 1
        BY <1>1, <3>4
      <4> QED
        BY <3>1, <3>3, <4>1
    <3>5. CASE m >= n
      <4>1. c[n].Lo <= c[m].Lo
        <5>1. m = n \/ c[n].Hi < c[m].Lo
          BY <1>1, <2>1, <3>5
        <5> QED
          BY <1>1, <2>1, <5>1
      <4>2. c[n].Lo \in Int /\ c[m].Lo \in Int
        BY <1>1, <2>1
      <4>3. ~ y < c[n].Lo
        BY <3>1, <3>2, <4>1, <4>2 DEF In
      <4> QED
        BY <3>3, <4>3
    <3> QED
      BY <1>1, <2>1, <3>4, <3>5
  <2>3. Called = Below(c[n].Lo)
    BY <2>2 DEF Below
  <2>4. Called' = Below(x)'
    BY <1>3, <1>4, <2>3 DEF Below
  <2>5. x' \in c'[k'].Lo .. c'[k'].Hi + 1
    BY <1>1, <1>2, <1>4, <2>1
  <2> QED
    BY <1>1, <1>2, <1>4, <2>1, <2>4, <2>5 DEF Enum, Finished
<1>5. CASE n > Len(c) /\ pc' = "returned" /\ UNCHANGED x
  <2>1. n - 1 = Len(c)
    BY <1>1, <1>5
  <2>2. Called = Given
    BY <1>1, <2>1
  <2> QED
    BY <1>1, <1>2, <1>3, <1>5, <2>2 DEF Enum, Finished
<1> QED
  BY <1>4, <1>5 DEF Enter

LEMMA EnumInit == Init => Enum
<1> SUFFICES ASSUME Init PROVE Enum
  OBVIOUS
<1> QED
  BY DEF Init, Enum, Finished

LEMMA EnumMerging == IInv /\ Enum /\ (FilterAndSort \/ Merge \/ Merged) => Enum'
<1> SUFFICES ASSUME IInv, Enum, FilterAndSort \/ Merge \/ Merged PROVE Enum'
  OBVIOUS
<1>1. /\ a \in Seq(Range) /\ b \in Seq(Range) /\ c \in Seq(Range)
      /\ Len(a) \in Nat /\ Len(b) \in Nat /\ Len(c) \in Nat
  BY DEF IInv, Types
<1>2. CASE FilterAndSort
  <2>1. PICK n \in 0 .. Len(a) : \E p \in [1..n -> 1 .. Len(a)] :
            LET s == [i \in 1..n |-> a[p[i]]]
            IN  /\ b' = s
                /\ \/ n < 2 /\ c' = s /\ pc' = "start"
                   \/ n >= 2 /\ c' = c /\ pc' = "merge"
    BY SMTT(40), <1>2 DEF FilterAndSort
  <2>2. PICK p \in [1..n -> 1 .. Len(a)] :
            LET s == [i \in 1..n |-> a[p[i]]]
            IN  /\ b' = s
                /\ \/ n < 2 /\ c' = s /\ pc' = "start"
                   \/ n >= 2 /\ c' = c /\ pc' = "merge"
    BY <2>1
  <2>3. Len(b') = n /\ n \in Nat
    <3>1. \A i \in 1..n : a[p[i]] \in Range
      BY <1>1
    <3> QED
      BY <1>1, <2>2, <3>1
  <2>4. c = <<>> /\ k = 1 /\ pc = "filter" /\ calls = <<>> /\ x = 0 /\ UNCHANGED <<k, x, calls>>
    BY <1>2 DEF FilterAndSort, IInv, Enum
  <2>5. CASE c' = b' /\ pc' = "start"
    BY <2>3, <2>4, <2>5 DEF Enum, Finished
  <2>6. CASE c' = c /\ pc' = "merge"
    BY <2>3, <2>4, <2>6 DEF Enum, Finished
  <2> QED
    BY <2>2, <2>5, <2>6
<1>3. CASE Merge
  <2>1. pc = "merge" /\ pc' = "merge" /\ Len(c) <= k - 1 /\ k' = k + 1 /\ calls = <<>> /\ x = 0
        /\ UNCHANGED <<x, calls>> /\ k \in 1 .. Len(b)
    BY <1>1, <1>3 DEF Merge, Enum, IInv, Types
  <2>2. Len(c') <= Len(c) + 1
    <3>1. CASE UNCHANGED c
      BY <1>1, <3>1
    <3>2. CASE c' = [c EXCEPT ![Len(c)].Hi = b[k].Hi]
      <4>1. DOMAIN c' = 1 .. Len(c)
        BY <1>1, <3>2
      <4>2. c' \in Seq(Range)
        BY <1>3, MergeStep DEF IInv, Types
      <4> QED
        BY <1>1, <4>1, <4>2
    <3>3. CASE c' = Append(c, b[k])
      BY <1>1, <3>3
    <3> QED
      BY <1>3, <3>1, <3>2, <3>3 DEF Merge
  <2>3. Len(c') \in Nat
    BY <1>3, MergeStep DEF IInv, Types
  <2> QED
    BY <1>1, <2>1, <2>2, <2>3 DEF Enum, Finished
<1>4. CASE Merged
  <2>1. k = Len(b) + 1 /\ Len(c) <= k - 1 /\ calls = <<>> /\ x = 0 /\ pc' = "start"
        /\ UNCHANGED <<b, k, c, x, calls>>
    BY <1>1, <1>4 DEF Merged, Enum, IInv, Types
  <2> QED
    BY <1>1, <2>1 DEF Enum, Finished
<1> QED
  BY <1>2, <1>3, <1>4

LEMMA EnumStart == IInv /\ Enum /\ Start => Enum'
<1> SUFFICES ASSUME IInv, Enum, Start PROVE Enum'
  OBVIOUS
<1>1. Finished /\ calls = <<>> /\ x = 0 /\ Len(c) <= Len(b) /\ Enter(1) /\ UNCHANGED <<a, b, c, calls>>
      /\ calls \in Seq(Byte) /\ b \in Seq(Range)
  BY DEF Start, Enum, Finished, IInv, Types
<1>2. Called = {}
  BY <1>1 DEF Called, Contract!Called
<1>3. 1 \in 1 .. Len(c) + 1 /\ x \in 0 .. MaxByte + 1 /\ 1 .. 1 - 1 = {}
  BY <1>1, MaxByteAssumption DEF IInv, Types
<1>4. /\ \A y \in Given : y \in Called <=> \E m \in 1 .. 1 - 1 : In(c[m], y)
      /\ Called \subseteq Given
  BY <1>2, <1>3
<1> QED
  BY <1>1, <1>3, <1>4, Entering

\* A call of f is the call the contract asks for next.
LEMMA EnumCall == IInv /\ Enum /\ Call => Enum' /\ Contract!Call(x)
<1> SUFFICES ASSUME IInv, Enum, Call PROVE Enum' /\ Contract!Call(x)
  OBVIOUS
<1>1. /\ pc = "foreach" /\ Finished /\ k \in 1 .. Len(c) /\ x \in c[k].Lo .. c[k].Hi + 1
      /\ Called = Below(x) /\ calls \in Seq(Byte) /\ x <= c[k].Hi
      /\ calls' = Append(calls, x) /\ x' = x + 1 /\ UNCHANGED <<pc, a, b, k, c>>
  BY DEF Call, Enum, Finished, inRange, increment
<1>2. /\ \A n \in 1 .. Len(c) : c[n].Lo \in Byte /\ c[n].Hi \in Byte /\ c[n].Lo <= c[n].Hi
      /\ \A byte \in Byte : byte \in Int
      /\ Given = {byte \in Byte : \E n \in 1 .. Len(c) : In(c[n], byte)}
  BY <1>1, FinishedList
<1>3. x \in Byte /\ x \in Given /\ c[k].Lo <= x
  <2>1. c[k].Lo \in Byte /\ c[k].Hi \in Byte
    BY <1>1, <1>2
  <2>2. x \in Byte /\ c[k].Lo <= x
    BY <1>1, <1>2, <2>1, MaxByteAssumption DEF Byte
  <2> QED
    BY <1>1, <1>2, <2>2 DEF In
<1>4. Called' = Called \cup {x}
  <2>1. DOMAIN calls = 1 .. Len(calls) /\ DOMAIN calls' = 1 .. Len(calls) + 1 /\ Len(calls) \in Nat
    BY <1>1, <1>3
  <2>2. (\A i \in 1 .. Len(calls) : calls'[i] = calls[i]) /\ calls'[Len(calls) + 1] = x
    BY <1>1, <1>3
  <2> QED
    BY <2>1, <2>2 DEF Called, Contract!Called
<1>5. Given' = Given
  BY <1>1 DEF Given, Covers
<1>6. Called' = Below(x)'
  <2>1. \A y \in Given : y < x + 1 <=> y < x \/ y = x
    BY <1>2, <1>3
  <2> QED
    BY <1>1, <1>3, <1>4, <1>5, <2>1, Zenon DEF Below
<1>7. x' \in c'[k'].Lo .. c'[k'].Hi + 1
  <2>1. c[k].Lo \in Int /\ c[k].Hi \in Int
    BY <1>1, <1>2
  <2> QED
    BY <1>1, <2>1
<1>8. Enum'
  <2>1. calls' \in Seq(Byte)
    BY <1>1, <1>3
  <2> QED
    BY <1>1, <1>6, <1>7, <2>1 DEF Enum, Finished
<1>9. Contract!Call(x)
  <2>1. x \notin Called /\ \A y \in Given : y < x => y \in Called
    BY <1>1, <1>2, <1>3 DEF Below
  <2> QED
    BY <1>1, <1>3, <1>5, <2>1 DEF Contract!Call, Called
<1> QED
  BY <1>8, <1>9

LEMMA EnumNextRange == IInv /\ Enum /\ NextRange => Enum'
<1> SUFFICES ASSUME IInv, Enum, NextRange PROVE Enum'
  OBVIOUS
<1>1. /\ pc = "foreach" /\ Finished /\ k \in 1 .. Len(c) /\ x \in c[k].Lo .. c[k].Hi + 1
      /\ Called = Below(x) /\ calls \in Seq(Byte) /\ ~ x <= c[k].Hi /\ Len(c) <= Len(b)
      /\ Enter(k + 1) /\ UNCHANGED <<a, b, c, calls>> /\ b \in Seq(Range)
  BY DEF NextRange, Enum, Finished, inRange, IInv, Types
<1>2. /\ Len(c) \in Nat
      /\ \A n \in 1 .. Len(c) : c[n].Lo \in Byte /\ c[n].Hi \in Byte /\ c[n].Lo <= c[n].Hi
      /\ \A m, n \in 1 .. Len(c) : m < n => c[m].Hi < c[n].Lo
      /\ \A byte \in Byte : byte \in Int
      /\ Given = {byte \in Byte : \E n \in 1 .. Len(c) : In(c[n], byte)}
  BY <1>1, FinishedList, Zenon
<1>3. c[k].Hi \in Byte /\ c[k].Hi \in Int /\ c[k].Lo \in Int /\ x = c[k].Hi + 1
  BY <1>1, <1>2
<1>4. k + 1 \in 1 .. Len(c) + 1 /\ x \in 0 .. MaxByte + 1 /\ (k + 1) - 1 = k
  BY <1>1, <1>2, <1>3, MaxByteAssumption DEF Byte
<1>5. ASSUME NEW y \in Given PROVE y < x <=> \E m \in 1 .. k : In(c[m], y)
  <2>1. PICK n \in 1 .. Len(c) : In(c[n], y)
    BY <1>2
  <2>2. y \in Int /\ c[n].Lo \in Int /\ c[n].Hi \in Int
    BY <1>2
  <2>3. ASSUME NEW m \in 1 .. k, In(c[m], y) PROVE y < x
    <3>1. m \in 1 .. Len(c)
      BY <1>1, <1>2
    <3>2. m = k \/ c[m].Hi < c[k].Lo
      BY <1>1, <1>2, <3>1
    <3>3. c[m].Hi \in Int /\ c[k].Lo <= c[k].Hi
      BY <1>1, <1>2, <3>1, SMTT(40)
    <3> QED
      BY <1>3, <2>2, <2>3, <3>2, <3>3, SMTT(40) DEF In
  <2>4. CASE n <= k
    <3>1. n \in 1 .. k
      BY <1>1, <1>2, <2>4
    <3> QED
      BY <2>1, <2>3, <3>1
  <2>5. CASE n > k
    <3>1. c[k].Hi < c[n].Lo
      BY <1>1, <1>2, <2>5
    <3>2. ~ y < x
      BY <1>3, <2>1, <2>2, <3>1 DEF In
    <3> QED
      BY <2>3, <3>2
  <2> QED
    BY <1>1, <1>2, <2>4, <2>5
<1>6. /\ \A y \in Given : y \in Called <=> \E m \in 1 .. (k + 1) - 1 : In(c[m], y)
      /\ Called \subseteq Given
  BY <1>1, <1>4, <1>5 DEF Below
<1> QED
  BY <1>1, <1>4, <1>6, Entering, SMTT(40)

LEMMA EnumInvariant == Spec => [](IInv /\ Enum)
<1>1. Init => Enum
  BY EnumInit
<1>2. IInv /\ Enum /\ [Next]_vars => Enum'
  <2>1. IInv /\ Enum /\ UNCHANGED vars => Enum'
    BY SMTT(40) DEF vars, Enum, Finished, Called, Contract!Called, Below, Given, Covers
  <2> QED
    BY <2>1, EnumMerging, EnumStart, EnumCall, EnumNextRange DEF Next
<1> QED
  BY <1>1, <1>2, RangesInvariant, PTL DEF Spec

\* Types: the counter of ForEach passes the largest byte by one at most, the
\* position never the end of the list.
THEOREM RangesTypeTheorem == Spec => []TypeOK
<1>1. IInv /\ Enum => TypeOK
  <2> SUFFICES ASSUME IInv, Enum PROVE TypeOK
    OBVIOUS
  <2>1. Types /\ Len(b) \in Nat /\ pc \in {"filter", "merge", "start", "foreach", "returned"}
    BY DEF IInv, Types
  <2>2. k \in 1 .. Len(b) + 1
    BY <2>1 DEF Types, Enum, Finished
  <2>3. x \in 0 .. MaxByte + 1
    <3>1. CASE pc = "foreach"
      <4>1. c[k].Lo \in Byte /\ c[k].Hi \in Byte /\ x \in c[k].Lo .. c[k].Hi + 1
        BY <3>1, FinishedList DEF Enum, Finished
      <4> QED
        BY <4>1, MaxByteAssumption DEF Byte
    <3> QED
      BY <2>1, <3>1, MaxByteAssumption DEF Enum
  <2> QED
    BY <2>1, <2>2, <2>3 DEF TypeOK, Types, Enum
<1> QED
  BY <1>1, EnumInvariant, PTL

\* mRange.ForEach implements the contract of interface.go for any list of
\* ranges: f is called once for each byte of them, in ascending order.
THEOREM RangesForEachTheorem == Spec => ImplementsForEach
<1>1. Init => Contract!Init
  BY DEF Init, Contract!Init
<1>2. IInv /\ Enum /\ (IInv /\ Enum)' /\ [Next]_vars
        => [Contract!Next]_<<Given, calls, pc = "returned">>
  <2> SUFFICES ASSUME IInv, Enum, IInv', Enum', [Next]_vars
               PROVE  [Contract!Next]_<<Given, calls, pc = "returned">>
    OBVIOUS
  <2>1. Given' = Given
    BY DEF Next, FilterAndSort, Merge, Merged, Start, Call, NextRange, vars, Given, Covers
  <2>2. CASE FilterAndSort \/ Merge \/ Merged \/ UNCHANGED vars
    BY <2>1, <2>2, Zenon DEF FilterAndSort, Merge, Merged, vars
  <2>3. CASE Start \/ NextRange
    <3>1. pc # "returned" /\ calls' = calls
      BY <2>3 DEF Start, NextRange
    <3>2. CASE pc' = "returned"
      <4>1. Called' = Given' /\ Called' = Called
        BY <3>1, <3>2 DEF Enum, Called, Contract!Called
      <4> QED
        BY <2>1, <3>1, <3>2, <4>1 DEF Contract!Next, Contract!Return, Called
    <3> QED
      BY <2>1, <3>1, <3>2
  <2>4. CASE Call
    <3>1. Contract!Call(x)
      BY <2>4, EnumCall
    <3> QED
      BY <3>1 DEF Contract!Next, Contract!Call
  <2> QED
    BY <2>2, <2>3, <2>4 DEF Next
<1> QED
  BY <1>1, <1>2, EnumInvariant, PTL DEF Spec, ImplementsForEach, Contract!Spec
=============================================================================
