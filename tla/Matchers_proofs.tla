-------------------------- MODULE Matchers_proofs ---------------------------
(***************************************************************************)
(* What Match and ForEach of module Matchers compute, for bit sets of any  *)
(* size and any number of matchers: each recursion goes to a lower rank,   *)
(* every matcher matches the set of its members, and ForEach lists that    *)
(* set in ascending order.  ForEach of a union is forEachUnion, which      *)
(* keeps the contract of ForEach for any number of matchers, any sets of   *)
(* bytes and any schedule of its goroutines.                               *)
(***************************************************************************)
EXTENDS Matchers, UnionForEach, TLAPS, WellFoundedInduction

\* Induction over the natural numbers, for a set of them.
LEMMA Induction ==
    ASSUME NEW G \in SUBSET Nat, 0 \in G, \A n \in G : n + 1 \in G
    PROVE  \A n \in Nat : n \in G
<1>1. SUFFICES ASSUME NEW n \in Nat, n \notin G PROVE FALSE
  OBVIOUS
<1> DEFINE C == Nat \ G
<1>2. C \subseteq Nat /\ C # {}
  BY <1>1
<1>3. PICK x \in C : \A y \in C : <<y, x>> \notin OpToRel(<, Nat)
  BY <1>2, NatLessThanWellFounded, WFMin, Zenon
<1>4. x \in Nat /\ x # 0
  OBVIOUS
<1>5. x - 1 \in Nat /\ x - 1 < x
  BY <1>4
<1>6. x - 1 \notin C
  BY <1>3, <1>4, <1>5, Zenon DEF OpToRel
<1>7. (x - 1) + 1 \in G
  BY <1>5, <1>6
<1> QED
  BY <1>4, <1>7

-----------------------------------------------------------------------------
(* Recursive functions.  F[g] is what a function is when the calls that it   *)
(* makes return what g says.                                                 *)

\* The calls made for q are of a lower rank, so that they come to an end.
Descends(F, D, V, rank, N) ==
    /\ V # {} /\ N \in Nat /\ F \in [[D -> V] -> [D -> V]]
    /\ rank \in [D -> Nat] /\ \A q \in D : rank[q] < N
    /\ \A g1, g2 \in [D -> V], q \in D :
          (\A r \in D : rank[r] < rank[q] => g1[r] = g2[r]) => F[g1][q] = F[g2][q]

\* There is a function that the recursive definition speaks of.
LEMMA Recursion ==
    ASSUME NEW F, NEW D, NEW V, NEW rank, NEW N, Descends(F, D, V, rank, N)
    PROVE  \E g \in [D -> V] : g = F[g]
<1>0. /\ V # {} /\ N \in Nat /\ F \in [[D -> V] -> [D -> V]]
      /\ rank \in [D -> Nat] /\ \A q \in D : rank[q] < N
  BY DEF Descends
<1> DEFINE Upto(g, n) == \A q \in D : rank[q] < n => g[q] = F[g][q]
           G == {n \in Nat : \E g \in [D -> V] : Upto(g, n)}
<1>1. 0 \in G
  <2>1. PICK v : v \in V
    BY <1>0
  <2>2. [q \in D |-> v] \in [D -> V] /\ Upto([q \in D |-> v], 0)
    BY <1>0, <2>1
  <2> QED
    BY <2>2, Zenon
<1>2. ASSUME NEW n \in G PROVE n + 1 \in G
  <2>0. n \in Nat /\ n + 1 \in Nat
    OBVIOUS
  <2>1. PICK g \in [D -> V] : Upto(g, n)
    OBVIOUS
  <2> DEFINE f == [q \in D |-> IF rank[q] < n THEN g[q] ELSE F[g][q]]
  <2>2. f \in [D -> V]
    BY <1>0
  <2>3. \A q \in D : f[q] = F[g][q]
    BY <2>1
  <2>4. \A q \in D : rank[q] < n => f[q] = g[q]
    OBVIOUS
  <2> HIDE DEF f
  <2>5. ASSUME NEW q \in D, rank[q] < n + 1 PROVE F[f][q] = F[g][q]
    <3>1. \A r \in D : rank[r] < rank[q] => f[r] = g[r]
      BY <1>0, <2>0, <2>4, <2>5
    <3> QED
      BY <2>2, <3>1, Zenon DEF Descends
  <2>6. Upto(f, n + 1)
    BY <2>3, <2>5, Zenon
  <2> QED
    BY <2>0, <2>2, <2>6, Zenon
<1>3. \A n \in Nat : n \in G
  <2>1. G \subseteq Nat
    OBVIOUS
  <2> HIDE DEF G
  <2> QED
    BY <1>1, <1>2, <2>1, Induction, Zenon
<1>4. PICK g \in [D -> V] : Upto(g, N)
  BY <1>0, <1>3
<1> QED
  BY <1>0, <1>4

-----------------------------------------------------------------------------
(* Sequences of the numbers that f is called with. *)

LEMMA Joined ==
    ASSUME NEW s \in Seq(Nat), NEW u \in Seq(Nat)
    PROVE  /\ s \o u \in Seq(Nat) /\ <<>> \o u = u
           /\ DOMAIN s = 1 .. Len(s) /\ Len(s) \in Nat
           /\ DOMAIN (s \o u) = 1 .. Len(s) + Len(u)
           /\ \A i \in 1 .. Len(s) : (s \o u)[i] = s[i]
           /\ \A i \in 1 .. Len(u) : (s \o u)[Len(s) + i] = u[i]
OBVIOUS

\* The recursion of FlattenSeq: g[k] is what the first k turns of a loop add up to.
LEMMA Flattened ==
    ASSUME NEW s \in Seq(Seq(Nat))
    PROVE  \E g \in [0 .. Len(s) -> Seq(Nat)] :
              /\ g[0] = <<>> /\ g[Len(s)] = FlattenSeq(s)
              /\ \A k \in 1 .. Len(s) : g[k] = g[k - 1] \o s[k]
<1> DEFINE S == Seq(Nat)
           D == 1 .. Len(s)
<1>0. Len(s) \in Nat /\ \A i \in D : s[i] \in S
  OBVIOUS
<1>1. CASE Len(s) = 0
  <2>1. FlattenSeq(s) = <<>>
    BY <1>1 DEF FlattenSeq
  <2>2. [k \in 0 .. Len(s) |-> <<>>] \in [0 .. Len(s) -> S]
    OBVIOUS
  <2> DEFINE g == [k \in 0 .. Len(s) |-> <<>>]
  <2>3. \A k \in D : g[k] = g[k - 1] \o s[k]
    BY <1>1
  <2>4. g[0] = <<>> /\ g[Len(s)] = <<>>
    BY <1>1
  <2> HIDE DEF g
  <2> QED
    BY <2>1, <2>2, <2>3, <2>4, Zenon DEF g
<1>2. CASE Len(s) # 0
  <2> DEFINE rhs(f) == [i \in D |-> IF i = 1 THEN s[i] ELSE f[i - 1] \o s[i]]
             t == CHOOSE f : f = rhs(f)
  <2>1. FlattenSeq(s) = t[Len(s)]
    BY <1>2 DEF FlattenSeq
  <2>2. \E f : f = rhs(f)
    <3> DEFINE F == [f \in [D -> S] |-> rhs(f)]
               rank == [i \in D |-> i]
               N == Len(s) + 1
    <3>1. \A i \in D : i \in Nat /\ (i # 1 => i - 1 \in D /\ i - 1 < i) /\ i < Len(s) + 1
      BY <1>0
    <3>2. \A f \in [D -> S] : rhs(f) \in [D -> S]
      BY <1>0, <3>1, Joined
    <3>3. F \in [[D -> S] -> [D -> S]]
      BY <3>2, Zenon
    <3>4. \A g1, g2 \in [D -> S], q \in D :
             (\A r \in D : rank[r] < rank[q] => g1[r] = g2[r]) => F[g1][q] = F[g2][q]
      <4>1. ASSUME NEW g1 \in [D -> S], NEW g2 \in [D -> S], NEW q \in D,
                   \A r \in D : rank[r] < rank[q] => g1[r] = g2[r]
            PROVE  F[g1][q] = F[g2][q]
        <5>1. q # 1 => g1[q - 1] = g2[q - 1]
          BY <3>1, <4>1
        <5> QED
          BY <5>1
      <4> QED
        BY <4>1, Zenon
    <3>5. rank \in [D -> Nat] /\ \A q \in D : rank[q] < N
      BY <3>1
    <3>6. N \in Nat /\ S # {}
      BY <1>0
    <3> HIDE DEF F, rank, D, S, N
    <3>a. Descends(F, D, S, rank, N)
      BY <3>3, <3>4, <3>5, <3>6, Zenon DEF Descends
    <3>7. PICK g \in [D -> S] : g = F[g]
      BY <3>a, Recursion, Zenon
    <3>8. g = rhs(g)
      BY <3>7, Zenon DEF F
    <3> QED
      BY <3>8, Zenon
  <2>3. t = rhs(t)
    BY <2>2, Zenon
  <2> HIDE DEF t
  <2>4. \A i \in D : t[i] = IF i = 1 THEN s[i] ELSE t[i - 1] \o s[i]
    BY <2>3, Zenon
  <2> DEFINE g == [k \in 0 .. Len(s) |-> IF k = 0 THEN <<>> ELSE t[k]]
             G == {k \in Nat : k <= Len(s) => g[k] \in S}
  <2>5. 0 \in G
    BY <1>0
  <2>6. \A k \in D : g[k] = g[k - 1] \o s[k]
    <3>1. ASSUME NEW k \in D PROVE g[k] = g[k - 1] \o s[k]
      <4>1. CASE k = 1
        BY <1>0, <2>4, <4>1, Joined
      <4>2. CASE k # 1
        <5>1. k - 1 \in 0 .. Len(s) /\ k - 1 # 0 /\ k \in 0 .. Len(s) /\ k # 0
          BY <1>0, <4>2
        <5>2. g[k] = t[k] /\ g[k - 1] = t[k - 1]
          BY <5>1, Zenon
        <5> QED
          BY <2>4, <4>2, <5>2, Zenon
      <4> QED
        BY <4>1, <4>2, Zenon
    <3> QED
      BY <3>1, Zenon
  <2>7. g[0] = <<>> /\ g[Len(s)] = t[Len(s)] /\ DOMAIN g = 0 .. Len(s) /\ g = [k \in 0 .. Len(s) |-> g[k]]
    BY <1>0, <1>2
  <2> HIDE DEF g, S
  <2>8. ASSUME NEW k \in G PROVE k + 1 \in G
    <3>1. SUFFICES ASSUME k + 1 <= Len(s) PROVE g[k + 1] \in S
      OBVIOUS
    <3>2. k + 1 \in D /\ g[k] \in S /\ (k + 1) - 1 = k
      BY <1>0, <3>1
    <3>3. g[k + 1] = g[k] \o s[k + 1] /\ s[k + 1] \in S
      BY <1>0, <2>6, <3>2, Zenon
    <3> QED
      BY <3>2, <3>3, Joined DEF S
  <2>9. \A k \in Nat : k \in G
    <3>1. G \subseteq Nat
      OBVIOUS
    <3> HIDE DEF G
    <3> QED
      BY <2>5, <2>8, <3>1, Induction, Zenon
  <2>10. g \in [0 .. Len(s) -> S]
    BY <1>0, <2>7, <2>9
  <2> QED
    BY <2>1, <2>6, <2>7, <2>10, Zenon DEF S
<1> QED
  BY <1>1, <1>2, Zenon

Asc(s) == \A i, j \in DOMAIN s : i < j => s[i] < s[j]

\* Two ascending sequences, the second above the first.
LEMMA JoinedAscend ==
    ASSUME NEW s \in Seq(Nat), NEW u \in Seq(Nat), Asc(s), Asc(u),
           \A x \in ToSet(s), y \in ToSet(u) : x < y
    PROVE  /\ s \o u \in Seq(Nat) /\ Asc(s \o u)
           /\ ToSet(s \o u) = ToSet(s) \cup ToSet(u)
<1> DEFINE v == s \o u
           m == Len(s)
           n == Len(u)
<1>1. /\ v \in Seq(Nat) /\ DOMAIN v = 1 .. m + n
      /\ DOMAIN s = 1 .. m /\ DOMAIN u = 1 .. n /\ m \in Nat /\ n \in Nat
      /\ \A i \in 1 .. m : v[i] = s[i]
      /\ \A i \in 1 .. n : v[m + i] = u[i]
  BY Joined
<1> HIDE DEF v, m, n
<1>2. \A i \in 1 .. m + n : i \in 1 .. m \/ (i - m \in 1 .. n /\ m + (i - m) = i)
  BY <1>1
<1>3. \A i \in 1 .. m + n : i \notin 1 .. m => v[i] = u[i - m]
  BY <1>1, <1>2
<1>4. ASSUME NEW i \in DOMAIN v, NEW j \in DOMAIN v, i < j PROVE v[i] < v[j]
  <2>1. CASE j \in 1 .. m
    <3>1. i \in 1 .. m
      BY <1>1, <1>4, <2>1
    <3> QED
      BY <1>1, <1>4, <2>1, <3>1, Zenon DEF Asc
  <2>2. CASE j \notin 1 .. m /\ i \in 1 .. m
    <3>1. v[i] = s[i] /\ v[j] = u[j - m] /\ j - m \in 1 .. n
      BY <1>1, <1>2, <1>3, <2>2, Zenon
    <3>2. s[i] \in ToSet(s) /\ u[j - m] \in ToSet(u)
      BY <1>1, <2>2, <3>1, Zenon DEF ToSet
    <3> QED
      BY <3>1, <3>2, Zenon
  <2>3. CASE j \notin 1 .. m /\ i \notin 1 .. m
    <3>1. v[i] = u[i - m] /\ v[j] = u[j - m] /\ i - m \in 1 .. n /\ j - m \in 1 .. n
      BY <1>1, <1>2, <1>3, <2>3
    <3>2. i - m < j - m
      BY <1>1, <1>4
    <3> QED
      BY <1>1, <3>1, <3>2, Zenon DEF Asc
  <2> QED
    BY <2>1, <2>2, <2>3
<1>5. ToSet(v) = ToSet(s) \cup ToSet(u)
  <2>1. ASSUME NEW x \in ToSet(v) PROVE x \in ToSet(s) \cup ToSet(u)
    <3>1. PICK i \in 1 .. m + n : x = v[i]
      BY <1>1 DEF ToSet
    <3> QED
      BY <1>1, <1>2, <1>3, <3>1, Zenon DEF ToSet
  <2>2. ASSUME NEW x \in ToSet(s) PROVE x \in ToSet(v)
    <3>1. PICK i \in 1 .. m : x = s[i]
      BY <1>1 DEF ToSet
    <3>2. i \in 1 .. m + n /\ v[i] = x
      BY <1>1, <3>1
    <3> QED
      BY <1>1, <3>2 DEF ToSet
  <2>3. ASSUME NEW x \in ToSet(u) PROVE x \in ToSet(v)
    <3>1. PICK i \in 1 .. n : x = u[i]
      BY <1>1 DEF ToSet
    <3>2. m + i \in 1 .. m + n /\ v[m + i] = x
      BY <1>1, <3>1
    <3> QED
      BY <1>1, <3>2, Zenon DEF ToSet
  <2> QED
    BY <2>1, <2>2, <2>3
<1>6. Asc(v)
  BY <1>4 DEF Asc
<1> QED
  BY <1>1, <1>5, <1>6 DEF v

\* A loop whose turns call f in ascending order, each above the earlier ones.
LEMMA LoopAscends ==
    ASSUME NEW s \in Seq(Seq(Nat)), \A k \in 1 .. Len(s) : Asc(s[k]),
           \A j, k \in 1 .. Len(s) : j < k => \A x \in ToSet(s[j]), y \in ToSet(s[k]) : x < y
    PROVE  /\ FlattenSeq(s) \in Seq(Nat) /\ Asc(FlattenSeq(s))
           /\ \A x : x \in ToSet(FlattenSeq(s)) <=> \E k \in 1 .. Len(s) : x \in ToSet(s[k])
<1>0. Len(s) \in Nat /\ \A k \in 1 .. Len(s) : s[k] \in Seq(Nat)
  OBVIOUS
<1>1. PICK g \in [0 .. Len(s) -> Seq(Nat)] :
              /\ g[0] = <<>> /\ g[Len(s)] = FlattenSeq(s)
              /\ \A k \in 1 .. Len(s) : g[k] = g[k - 1] \o s[k]
  BY Flattened, Zenon
<1> DEFINE S == Seq(Nat)
           Good(k) == /\ g[k] \in S /\ Asc(g[k])
                      /\ \A x : x \in ToSet(g[k]) <=> \E j \in 1 .. k : x \in ToSet(s[j])
           G == {k \in Nat : k <= Len(s) => Good(k)}
<1>2. Good(0)
  <2>1. g[0] = <<>> /\ <<>> \in S /\ DOMAIN <<>> = {} /\ \A j \in 1 .. 0 : FALSE
    BY <1>1
  <2> QED
    BY <2>1, Zenon DEF Asc, ToSet
<1>3. ASSUME NEW k \in G PROVE k + 1 \in G
  <2>1. SUFFICES ASSUME k + 1 <= Len(s) PROVE Good(k + 1)
    OBVIOUS
  <2>2. k \in Nat /\ k + 1 \in 1 .. Len(s) /\ (k + 1) - 1 = k /\ Good(k) /\ 1 .. k \subseteq 1 .. Len(s)
    BY <1>0, <2>1
  <2>3. /\ \A j \in 1 .. k : j < k + 1
        /\ \A j \in 1 .. k + 1 : j \in 1 .. k \/ j = k + 1
        /\ k + 1 \in 1 .. k + 1 /\ 1 .. k \subseteq 1 .. k + 1
    BY <2>2
  <2>4. g[k + 1] = g[k] \o s[k + 1]
    BY <1>1, <2>2, Zenon
  <2>5. \A x \in ToSet(g[k]), y \in ToSet(s[k + 1]) : x < y
    BY <2>2, <2>3, Zenon
  <2>6. s[k + 1] \in Seq(Nat) /\ Asc(s[k + 1]) /\ g[k] \in Seq(Nat) /\ Asc(g[k])
    BY <1>0, <2>2, Zenon
  <2>7. g[k + 1] \in S /\ Asc(g[k + 1]) /\ ToSet(g[k + 1]) = ToSet(g[k]) \cup ToSet(s[k + 1])
    BY <2>4, <2>5, <2>6, JoinedAscend, ZenonT(40)
  <2>8. ASSUME NEW x PROVE x \in ToSet(g[k + 1]) <=> \E j \in 1 .. k + 1 : x \in ToSet(s[j])
    <3>1. x \in ToSet(g[k + 1]) <=> x \in ToSet(g[k]) \/ x \in ToSet(s[k + 1])
      BY <2>7, Zenon
    <3>2. x \in ToSet(g[k]) <=> \E j \in 1 .. k : x \in ToSet(s[j])
      BY <2>2, Zenon
    <3> QED
      BY <2>3, <3>1, <3>2, Zenon
  <2> QED
    BY <2>7, <2>8, Zenon
<1>4. \A k \in Nat : k \in G
  <2>1. G \subseteq Nat /\ 0 \in G
    BY <1>2
  <2> HIDE DEF G
  <2> QED
    BY <1>3, <2>1, Induction, Zenon
<1>5. Good(Len(s))
  <2> HIDE DEF Good, G
  <2>1. Len(s) \in G /\ Len(s) <= Len(s)
    BY <1>0, <1>4
  <2> QED
    BY <2>1 DEF G
<1> QED
  BY <1>1, <1>5, Zenon

\* A loop over an ascending sequence that passes on some of it, the turns in T.
LEMMA FilterAscends ==
    ASSUME NEW n \in Nat, NEW e \in [1 .. n -> Nat], Asc(e), NEW T \in SUBSET (1 .. n),
           NEW s, s = [k \in 1 .. n |-> IF k \in T THEN <<e[k]>> ELSE <<>>]
    PROVE  /\ FlattenSeq(s) \in Seq(Nat) /\ Asc(FlattenSeq(s))
           /\ ToSet(FlattenSeq(s)) = {e[k] : k \in T}
<1>1. s \in Seq(Seq(Nat)) /\ Len(s) = n
  <2>1. \A k \in 1 .. n : (IF k \in T THEN <<e[k]>> ELSE <<>>) \in Seq(Nat)
    OBVIOUS
  <2> QED
    BY <2>1
<1>2. \A k \in 1 .. n : Asc(s[k])
  BY DEF Asc
<1>3. \A k \in 1 .. n : ToSet(s[k]) = IF k \in T THEN {e[k]} ELSE {}
  BY DEF ToSet
<1>4. \A j, k \in 1 .. n : j < k => \A x \in ToSet(s[j]), y \in ToSet(s[k]) : x < y
  <2>1. \A j, k \in 1 .. n : j < k => e[j] < e[k]
    BY DEF Asc
  <2>2. \A k \in 1 .. n : \A x \in ToSet(s[k]) : x = e[k]
    BY <1>3, Zenon
  <2>3. ASSUME NEW j \in 1 .. n, NEW k \in 1 .. n, j < k,
               NEW x \in ToSet(s[j]), NEW y \in ToSet(s[k])
        PROVE  x < y
    <3>1. x = e[j] /\ y = e[k] /\ e[j] < e[k]
      BY <2>1, <2>2, <2>3, Zenon
    <3> QED
      BY <3>1
  <2> QED
    BY <2>3, Zenon
<1>5. /\ FlattenSeq(s) \in Seq(Nat) /\ Asc(FlattenSeq(s))
      /\ \A x : x \in ToSet(FlattenSeq(s)) <=> \E k \in 1 .. n : x \in ToSet(s[k])
  BY <1>1, <1>2, <1>4, LoopAscends, ZenonT(40)
<1>6. \A x : (\E k \in 1 .. n : x \in ToSet(s[k])) <=> \E k \in T : x = e[k]
  BY <1>3, Zenon
<1>7. ToSet(FlattenSeq(s)) = {e[k] : k \in T}
  BY <1>5, <1>6, Zenon
<1> QED
  BY <1>5, <1>7

-----------------------------------------------------------------------------
(* Bit sets. *)

BitSets == [0 .. Words - 1 -> SUBSET (0 .. Bits - 1)]

\* A byte is a word's index and a bit, and the other way round.
LEMMA Digits ==
    /\ \A b \in Byte : /\ b \in Nat
                       /\ b \div Bits \in 0 .. Words - 1
                       /\ b % Bits \in 0 .. Bits - 1
                       /\ b = (b \div Bits) * Bits + (b % Bits)
    /\ Words * Bits \in Nat \ {0} /\ \A k : k \in 1 .. Words * Bits <=> k \in Nat /\ k - 1 \in Byte
<1>1. Bits \in Nat /\ Bits > 0 /\ Words \in Nat /\ Words > 0
  BY SizesAssumption
<1>2. Words * Bits \in Nat \ {0}
  BY <1>1
<1>3. ASSUME NEW b \in Byte
      PROVE  /\ b \in Nat
             /\ b \div Bits \in 0 .. Words - 1
             /\ b % Bits \in 0 .. Bits - 1
             /\ b = (b \div Bits) * Bits + (b % Bits)
  <2>1. b \in Nat /\ b < Words * Bits
    BY <1>2 DEF Byte
  <2>2. b \div Bits \in Nat /\ b % Bits \in 0 .. Bits - 1
    BY <1>1, <2>1
  <2>3. b = (b \div Bits) * Bits + (b % Bits)
    BY <1>1, <2>1
  <2>4. b \div Bits < Words
    BY <1>1, <2>1, <2>2, <2>3
  <2> QED
    BY <1>1, <2>1, <2>2, <2>3, <2>4
<1>4. \A k : k \in 1 .. Words * Bits <=> k \in Nat /\ k - 1 \in Byte
  BY <1>2 DEF Byte
<1> QED
  BY <1>2, <1>3, <1>4

\* Setting the bits of some bytes makes a set of these bytes.
LEMMA DenseOf ==
    ASSUME NEW S \in SUBSET Byte
    PROVE  /\ mDense(S).type = "mDense" /\ mDense(S).Set \in BitSets
           /\ mDense(S) = [type |-> "mDense", Set |-> mDense(S).Set]
           /\ \A b \in Byte : mDense_Match(mDense(S), b) <=> b \in S
<1> DEFINE index(b) == b \div Bits
           bit(b) == b % Bits
           set == [i \in 0 .. Words - 1 |-> {bit(b) : b \in {c \in S : index(c) = i}}]
<1>1. mDense(S) = [type |-> "mDense", Set |-> set]
  BY DEF mDense, denseIM
<1>2. \A b \in Byte : /\ b \in Nat
                      /\ index(b) \in 0 .. Words - 1
                      /\ bit(b) \in 0 .. Bits - 1
                      /\ b = index(b) * Bits + bit(b)
  BY Digits, Zenon
<1>3. \A b : mDense_Match(mDense(S), b) <=> bit(b) \in set[index(b)]
  BY <1>1 DEF mDense_Match, denseIM
<1> HIDE DEF index, bit
<1>4. set \in BitSets
  BY <1>2 DEF BitSets
<1>5. ASSUME NEW b \in Byte PROVE bit(b) \in set[index(b)] <=> b \in S
  <2>1. bit(b) \in set[index(b)] <=> \E c \in S : index(c) = index(b) /\ bit(c) = bit(b)
    BY <1>2
  <2>2. \A c \in S : index(c) = index(b) /\ bit(c) = bit(b) => c = b
    BY <1>2, Zenon
  <2> QED
    BY <2>1, <2>2, Zenon
<1> HIDE DEF set
<1>6. mDense(S).type = "mDense" /\ mDense(S).Set = set
  BY <1>1
<1> QED
  BY <1>1, <1>3, <1>4, <1>5, <1>6, Zenon

\* The bytes of a set, sorted.
LEMMA AscendingOf ==
    ASSUME NEW S \in SUBSET Byte
    PROVE  Ascending(S) \in Seq(Nat) /\ Asc(Ascending(S)) /\ ToSet(Ascending(S)) = S
<1> DEFINE n == Words * Bits
           e == [k \in 1 .. n |-> k - 1]
           T == {k \in 1 .. n : k - 1 \in S}
           s == [k \in 1 .. n |-> IF k - 1 \in S THEN <<k - 1>> ELSE <<>>]
<1>1. Ascending(S) = FlattenSeq(s)
  BY DEF Ascending
<1>2. n \in Nat /\ \A k \in 1 .. n : k \in Nat /\ k - 1 \in Byte
  BY Digits, Zenon
<1>3. s = [k \in 1 .. n |-> IF k \in T THEN <<e[k]>> ELSE <<>>]
  OBVIOUS
<1>4. e \in [1 .. n -> Nat] /\ Asc(e)
  BY <1>2 DEF Asc
<1>5. T \in SUBSET (1 .. n)
  OBVIOUS
<1>6. {e[k] : k \in T} = S
  <2>1. \A b \in S : b + 1 \in T /\ e[b + 1] = b
    BY <1>2 DEF Byte
  <2>2. \A k \in T : e[k] \in S
    OBVIOUS
  <2> HIDE DEF e
  <2> QED
    BY <2>1, <2>2
<1> HIDE DEF s, T, e, n
<1> QED
  BY <1>1, <1>2, <1>3, <1>4, <1>5, <1>6, FilterAscends, Zenon

\* The two loops of mDense.ForEach come to all bytes in ascending order.
LEMMA DenseForEach ==
    ASSUME NEW m
    PROVE  mDense_ForEach(m) = Ascending({b \in Byte : mDense_Match(m, b)})
<1> DEFINE n == Words * Bits
           S == {b \in Byte : mDense_Match(m, b)}
           s == [k \in 1 .. n |-> turn(m, (k - 1) \div Bits, (k - 1) % Bits)]
<1>1. mDense_ForEach(m) = FlattenSeq(s)
  BY DEF mDense_ForEach
<1>2. ASSUME NEW k \in 1 .. n PROVE s[k] = IF k - 1 \in S THEN <<k - 1>> ELSE <<>>
  <2> DEFINE b == k - 1
             i == b \div Bits
             j == b % Bits
  <2>1. b \in Byte
    BY Digits, Zenon
  <2>2. b = i * Bits + j
    BY <2>1, Digits, Zenon
  <2>3. s[k] = turn(m, i, j) /\ (b \in S <=> j \in m.Set[i])
    BY <2>1 DEF mDense_Match, denseIM
  <2> HIDE DEF i, j, b, s, S
  <2>4. s[k] = IF b \in S THEN <<b>> ELSE <<>>
    BY <2>2, <2>3, Zenon DEF turn
  <2> QED
    BY <2>4 DEF b
<1>3. s = [k \in 1 .. n |-> IF k - 1 \in S THEN <<k - 1>> ELSE <<>>]
  BY <1>2
<1> QED
  BY <1>1, <1>3, Zenon DEF Ascending

\* Inverting all words of a set leaves the bytes that were not in it.
LEMMA ComplementOf ==
    ASSUME NEW set \in BitSets, NEW m, m = [type |-> "mDense", Set |-> set]
    PROVE  /\ complement(m).Set \in BitSets
           /\ complement(m) = [type |-> "mDense", Set |-> complement(m).Set]
           /\ \A b \in Byte : mDense_Match(complement(m), b) <=> ~ mDense_Match(m, b)
<1> DEFINE inv == [i \in 0 .. Words - 1 |-> (0 .. Bits - 1) \ set[i]]
<1>1. complement(m) = [type |-> "mDense", Set |-> inv]
  <2>1. m.Set = set /\ DOMAIN set = 0 .. Words - 1
    BY DEF BitSets
  <2>2. complement(m) = [m EXCEPT !.Set = inv]
    BY <2>1, Zenon DEF complement
  <2> HIDE DEF inv
  <2> QED
    BY <2>2
<1>2. inv \in BitSets
  BY DEF BitSets
<1>3. ASSUME NEW b \in Byte PROVE b % Bits \in inv[b \div Bits] <=> b % Bits \notin set[b \div Bits]
  <2>1. b \div Bits \in 0 .. Words - 1 /\ b % Bits \in 0 .. Bits - 1
    BY Digits, Zenon
  <2> QED
    BY <2>1, Zenon
<1> HIDE DEF inv
<1>4. complement(m).Set = inv /\ m.Set = set
  BY <1>1
<1> QED
  BY <1>1, <1>2, <1>3, <1>4 DEF mDense_Match, denseIM

-----------------------------------------------------------------------------
(* The other loops. *)

LEMMA EachByte ==
    ASSUME NEW lo \in Byte, NEW hi \in Byte, lo <= hi
    PROVE  /\ forEachByte(lo, hi) \in Seq(Nat) /\ Asc(forEachByte(lo, hi))
           /\ ToSet(forEachByte(lo, hi)) = lo .. hi
<1>1. lo \in Nat /\ hi \in Nat
  BY Digits
<1> DEFINE n == hi - lo + 1
           e == [i \in 1 .. n |-> lo + i - 1]
<1>2. forEachByte(lo, hi) = e
  BY DEF forEachByte
<1>3. n \in Nat /\ \A i \in 1 .. n : e[i] \in Nat /\ e[i] \in lo .. hi
  BY <1>1
<1>4. e \in Seq(Nat)
  BY <1>3
<1>5. Asc(e)
  BY <1>1, <1>3 DEF Asc
<1>6. \A b \in lo .. hi : b - lo + 1 \in 1 .. n /\ e[b - lo + 1] = b
  BY <1>1
<1>7. ToSet(e) = lo .. hi
  <2>1. DOMAIN e = 1 .. n
    OBVIOUS
  <2> HIDE DEF e
  <2> QED
    BY <1>3, <1>6, <2>1 DEF ToSet
<1> QED
  BY <1>2, <1>4, <1>5, <1>7

\* The ranges that coalesceRanges returns.
IsRanges(r) ==
    /\ r \in Seq([Lo : Byte, Hi : Byte]) /\ \A i \in DOMAIN r : r[i].Lo <= r[i].Hi
    /\ \A i, j \in DOMAIN r : i < j => r[i].Hi < r[j].Lo

LEMMA RangeForEach ==
    ASSUME NEW m, IsRanges(m.Ranges)
    PROVE  /\ mRange_ForEach(m) \in Seq(Nat) /\ Asc(mRange_ForEach(m))
           /\ ToSet(mRange_ForEach(m)) = {b \in Byte : mRange_Match(m, b)}
           /\ UNION {m.Ranges[i].Lo .. m.Ranges[i].Hi : i \in DOMAIN m.Ranges} =
                 {b \in Byte : mRange_Match(m, b)}
<1> DEFINE r == m.Ranges
           n == Len(r)
           s == [i \in DOMAIN r |-> forEachByte(r[i].Lo, r[i].Hi)]
<1>1. mRange_ForEach(m) = FlattenSeq(s)
  BY DEF mRange_ForEach
<1>2. n \in Nat /\ DOMAIN r = 1 .. n /\ \A i \in 1 .. n : r[i].Lo \in Byte /\ r[i].Hi \in Byte
  <2> DEFINE R == [Lo : Byte, Hi : Byte]
  <2>1. r \in Seq(R)
    BY Zenon DEF IsRanges
  <2>2. \A x \in R : x.Lo \in Byte /\ x.Hi \in Byte
    OBVIOUS
  <2> HIDE DEF r, R
  <2>3. n \in Nat /\ DOMAIN r = 1 .. n /\ \A i \in 1 .. n : r[i] \in R
    BY <2>1
  <2> QED
    BY <2>2, <2>3, Zenon
<1>3. /\ \A i \in 1 .. n : r[i].Lo <= r[i].Hi
      /\ \A i, j \in 1 .. n : i < j => r[i].Hi < r[j].Lo
  BY <1>2 DEF IsRanges
<1>4. \A b : mRange_Match(m, b) <=> \E i \in 1 .. n : r[i].Lo <= b /\ b <= r[i].Hi
  BY <1>2 DEF mRange_Match
<1> HIDE DEF r, n
<1>5. ASSUME NEW i \in 1 .. n
      PROVE  s[i] \in Seq(Nat) /\ Asc(s[i]) /\ ToSet(s[i]) = r[i].Lo .. r[i].Hi
  BY <1>2, <1>3, EachByte
<1>6. s \in Seq(Seq(Nat)) /\ Len(s) = n
  BY <1>2, <1>5
<1>7. ASSUME NEW j \in 1 .. n, NEW k \in 1 .. n, j < k,
             NEW x \in ToSet(s[j]), NEW y \in ToSet(s[k])
      PROVE  x < y
  <2>1. r[j].Hi \in Nat /\ r[k].Lo \in Nat /\ r[j].Lo \in Nat /\ r[k].Hi \in Nat
    BY <1>2, Digits, Zenon
  <2>2. x \in r[j].Lo .. r[j].Hi /\ y \in r[k].Lo .. r[k].Hi /\ r[j].Hi < r[k].Lo
    BY <1>3, <1>5, <1>7, Zenon
  <2> HIDE DEF s
  <2> QED
    BY <2>1, <2>2
<1> HIDE DEF s
<1>8. /\ FlattenSeq(s) \in Seq(Nat) /\ Asc(FlattenSeq(s))
      /\ \A x : x \in ToSet(FlattenSeq(s)) <=> \E k \in 1 .. n : x \in ToSet(s[k])
  BY <1>5, <1>6, <1>7, LoopAscends, Zenon
<1>9. ASSUME NEW x, NEW k \in 1 .. n
      PROVE  x \in r[k].Lo .. r[k].Hi <=> x \in Byte /\ r[k].Lo <= x /\ x <= r[k].Hi
  <2>1. r[k].Lo \in Byte /\ r[k].Hi \in Byte
    BY <1>2
  <2> QED
    BY <2>1, Digits DEF Byte
<1>10. ToSet(FlattenSeq(s)) = {b \in Byte : mRange_Match(m, b)}
  <2>1. \A x : x \in ToSet(FlattenSeq(s)) <=> \E k \in 1 .. n : x \in r[k].Lo .. r[k].Hi
    BY <1>5, <1>8, Zenon
  <2>2. \A x : x \in ToSet(FlattenSeq(s)) <=> x \in Byte /\ mRange_Match(m, x)
    BY <1>4, <1>9, <2>1, Zenon
  <2> QED
    BY <2>2, Zenon
<1>11. UNION {r[i].Lo .. r[i].Hi : i \in DOMAIN r} = {b \in Byte : mRange_Match(m, b)}
  BY <1>2, <1>4, <1>9, Zenon
<1> QED
  BY <1>1, <1>8, <1>10, <1>11 DEF r

\* How many bytes there are, by how often f is called.
LEMMA Counting ==
    ASSUME NEW s \in Seq(Nat), Asc(s), ToSet(s) \subseteq Byte
    PROVE  /\ Len(s) \in Nat
           /\ Len(s) = 0 => ToSet(s) = {}
           /\ Len(s) = 1 => s[1] \in Byte /\ ToSet(s) = {s[1]}
           /\ Len(s) = Words * Bits => ToSet(s) = Byte
<1> DEFINE n == Len(s)
           N == Words * Bits
<1>1. n \in Nat /\ DOMAIN s = 1 .. n /\ N \in Nat /\ \A i \in 1 .. n : s[i] \in Nat /\ s[i] \in ToSet(s)
  BY Digits DEF ToSet
<1>2. \A i \in 1 .. n : s[i] \in Byte
  BY <1>1
<1>3. n = 0 => ToSet(s) = {}
  BY <1>1 DEF ToSet
<1>4. n = 1 => ToSet(s) = {s[1]} /\ s[1] \in Byte
  BY <1>1, <1>2 DEF ToSet
<1>5. ASSUME n = N PROVE ToSet(s) = Byte
  <2> DEFINE G == {i \in Nat : i + 1 <= n => s[i + 1] >= i}
             H == {i \in Nat : i + 1 <= n => s[n - i] <= N - 1 - i}
  <2>0. \A i \in 1 .. n, j \in 1 .. n : i < j => s[i] < s[j]
    BY <1>1, SMTT(40) DEF Asc
  <2>b. Byte = 0 .. N - 1
    BY DEF Byte
  <2> HIDE DEF N
  <2>1. 0 \in G
    BY <1>1
  <2>2. \A i \in G : i + 1 \in G
    BY <1>1, <2>0
  <2>3. 0 \in H
    BY <1>1, <1>2, <1>5, <2>b
  <2>4. ASSUME NEW i \in H PROVE i + 1 \in H
    <3>1. SUFFICES ASSUME i + 2 <= n PROVE s[n - (i + 1)] <= N - 1 - (i + 1)
      OBVIOUS
    <3>2. i \in Nat /\ n - i \in 1 .. n /\ n - (i + 1) \in 1 .. n /\ n - (i + 1) < n - i /\ s[n - i] <= N - 1 - i
      BY <1>1, <3>1
    <3>3. s[n - (i + 1)] < s[n - i]
      BY <2>0, <3>2, Zenon
    <3>4. \A x, y, k \in Int : x < y /\ y <= N - 1 - k => x <= N - 1 - (k + 1)
      BY <1>1
    <3>5. i \in Int /\ s[n - i] \in Int /\ s[n - (i + 1)] \in Int
      BY <1>1, <3>2, SMTT(40)
    <3> QED
      BY <3>2, <3>3, <3>4, <3>5, Zenon
  <2>5. (\A i \in Nat : i \in G) /\ (\A i \in Nat : i \in H)
    <3>1. G \subseteq Nat /\ H \subseteq Nat
      OBVIOUS
    <3> HIDE DEF G, H
    <3> QED
      BY <2>1, <2>2, <2>3, <2>4, <3>1, Induction, Zenon
  <2>6. ASSUME NEW b \in Byte PROVE b \in ToSet(s)
    <3>1. b \in Nat /\ b < N
      BY <1>1, <2>b
    <3>2. b + 1 <= n /\ n - 1 - b \in Nat /\ (n - 1 - b) + 1 <= n /\ b + 1 \in 1 .. n
      BY <1>1, <1>5, <3>1
    <3>a. b \in G /\ n - 1 - b \in H
      BY <2>5, <3>1, <3>2, Zenon
    <3>3. s[b + 1] >= b /\ s[n - (n - 1 - b)] <= N - 1 - (n - 1 - b)
      BY <3>2, <3>a, Zenon
    <3>4. n - (n - 1 - b) = b + 1 /\ N - 1 - (n - 1 - b) = b
      BY <1>1, <1>5, <3>1
    <3>5. s[b + 1] = b
      BY <1>1, <3>1, <3>2, <3>3, <3>4
    <3> QED
      BY <1>1, <3>2, <3>5
  <2> QED
    BY <2>6, Zenon
<1> QED
  BY <1>1, <1>3, <1>4, <1>5

-----------------------------------------------------------------------------
(* Heaps. *)

IsMatcher(m) ==
    /\ m.type \in {"mAll", "mNone", "mExact", "mDense", "mSparse", "mRange",
                   "mNegation", "mIntersection", "mUnion"}
    /\ m.type = "mExact" => m.Byte \in Byte
    /\ m.type = "mDense" => m.Set \in BitSets /\ m = [type |-> "mDense", Set |-> m.Set]
    /\ m.type = "mSparse" => m.Set \subseteq Byte
    /\ m.type = "mRange" => IsRanges(m.Ranges)
    /\ m.type = "mNegation" => m = [type |-> "mNegation", Inner |-> m.Inner]
    /\ m.type \in {"mIntersection", "mUnion"} => m.List \in Seq(Nat)

\* A matcher is made of matchers of a lower rank, and there are fewer ranks than
\* matchers.  The singletons have the lowest.
Sound(h, rank) ==
    /\ h \in Seq(ToSet(h)) /\ Len(h) >= 2
    /\ h[singletonAll].type = "mAll" /\ h[singletonNone].type = "mNone"
    /\ rank \in [DOMAIN h -> Nat] /\ rank[singletonAll] = 0 /\ rank[singletonNone] = 0
    /\ \A p \in DOMAIN h :
          /\ IsMatcher(h[p]) /\ rank[p] < Len(h)
          /\ \A q \in Subs(h[p]) : q \in DOMAIN h /\ rank[q] < rank[p]

LEMMA SubsOf ==
    ASSUME NEW m
    PROVE  /\ m.type = "mNegation" => Subs(m) = {m.Inner}
           /\ m.type \in {"mIntersection", "mUnion"} => Subs(m) = ToSet(m.List)
           /\ m.type \notin {"mNegation", "mIntersection", "mUnion"} => Subs(m) = {}
BY DEF Subs

LEMMA Parts ==
    ASSUME NEW h, NEW rank, Sound(h, rank), NEW p \in DOMAIN h
    PROVE  /\ IsMatcher(h[p]) /\ rank[p] \in Nat
           /\ h[p].type = "mNegation" => h[p].Inner \in DOMAIN h /\ rank[h[p].Inner] < rank[p]
           /\ h[p].type \in {"mIntersection", "mUnion"} =>
                 \A i \in DOMAIN h[p].List :
                     h[p].List[i] \in DOMAIN h /\ rank[h[p].List[i]] < rank[p]
<1>1. /\ IsMatcher(h[p]) /\ rank \in [DOMAIN h -> Nat]
      /\ \A q \in Subs(h[p]) : q \in DOMAIN h /\ rank[q] < rank[p]
  BY Zenon DEF Sound
<1>2. ASSUME h[p].type = "mNegation" PROVE h[p].Inner \in DOMAIN h /\ rank[h[p].Inner] < rank[p]
  BY <1>1, <1>2, SubsOf, Zenon
<1>3. ASSUME h[p].type \in {"mIntersection", "mUnion"}, NEW i \in DOMAIN h[p].List
      PROVE  h[p].List[i] \in DOMAIN h /\ rank[h[p].List[i]] < rank[p]
  <2>1. Subs(h[p]) = ToSet(h[p].List)
    BY <1>3, SubsOf, Zenon
  <2>2. h[p].List[i] \in Subs(h[p])
    BY <1>3, <2>1 DEF ToSet
  <2> QED
    BY <1>1, <2>2, Zenon
<1>4. rank[p] \in Nat
  BY <1>1, Zenon
<1> QED
  BY <1>1, <1>2, <1>3, <1>4, Zenon

\* The cases of Match.
LEMMA MatchCases ==
    ASSUME NEW call, NEW m, NEW b, IsMatcher(m)
    PROVE  /\ m_Match(call, m, b) \in BOOLEAN
           /\ m.type = "mAll" => m_Match(call, m, b)
           /\ m.type = "mNone" => ~ m_Match(call, m, b)
           /\ m.type = "mExact" => (m_Match(call, m, b) <=> b = m.Byte)
           /\ m.type = "mDense" => (m_Match(call, m, b) <=> mDense_Match(m, b))
           /\ m.type = "mSparse" => (m_Match(call, m, b) <=> b \in m.Set)
           /\ m.type = "mRange" => (m_Match(call, m, b) <=> mRange_Match(m, b))
           /\ m.type = "mNegation" => (m_Match(call, m, b) <=> ~ call[m.Inner])
           /\ m.type = "mIntersection" =>
                 (m_Match(call, m, b) <=> \A i \in DOMAIN m.List : call[m.List[i]])
           /\ m.type = "mUnion" =>
                 (m_Match(call, m, b) <=> \E i \in DOMAIN m.List : call[m.List[i]])
<1> USE DEF m_Match
<1>1. CASE m.type = "mAll"
  BY <1>1
<1>2. CASE m.type = "mNone"
  BY <1>2
<1>3. CASE m.type = "mExact"
  BY <1>3 DEF mExact_Match
<1>4. CASE m.type = "mDense"
  BY <1>4 DEF mDense_Match
<1>5. CASE m.type = "mSparse"
  BY <1>5 DEF mSparse_Match
<1>6. CASE m.type = "mRange"
  BY <1>6 DEF mRange_Match
<1>7. CASE m.type = "mNegation"
  BY <1>7 DEF mNegation_Match
<1>8. CASE m.type = "mIntersection"
  BY <1>8 DEF mIntersection_Match
<1>9. CASE m.type = "mUnion"
  BY <1>9 DEF mUnion_Match
<1> QED
  BY <1>1, <1>2, <1>3, <1>4, <1>5, <1>6, <1>7, <1>8, <1>9, Zenon DEF IsMatcher

\* What a matcher is made of decides what Match returns.
LEMMA MatchOf ==
    ASSUME NEW h, NEW rank, Sound(h, rank), NEW b
    PROVE  /\ \A p \in DOMAIN h : Match(h, p, b) \in BOOLEAN
           /\ \A p \in DOMAIN h :
                 Match(h, p, b) = m_Match([q \in DOMAIN h |-> Match(h, q, b)], h[p], b)
<1> DEFINE D == DOMAIN h
           V == BOOLEAN
           N == Len(h)
           rhs(g) == [q \in D |-> m_Match(g, h[q], b)]
           t == CHOOSE g : g = rhs(g)
           F == [g \in [D -> V] |-> rhs(g)]
<1>1. \A p : Match(h, p, b) = t[p]
  BY DEF Match
<1>2. N \in Nat /\ rank \in [D -> Nat] /\ \A q \in D : IsMatcher(h[q]) /\ rank[q] < N
  <2>1. h \in Seq(ToSet(h)) => N \in Nat
    OBVIOUS
  <2> QED
    BY <2>1 DEF Sound
<1>3. \A g : rhs(g) \in [D -> V]
  BY <1>2, MatchCases, Zenon
<1>4. F \in [[D -> V] -> [D -> V]]
  BY <1>3, Zenon
<1>5. ASSUME NEW g1 \in [D -> V], NEW g2 \in [D -> V], NEW q \in D,
             \A r \in D : rank[r] < rank[q] => g1[r] = g2[r]
      PROVE  F[g1][q] = F[g2][q]
  <2> DEFINE m == h[q]
  <2>1. F[g1][q] = m_Match(g1, m, b) /\ F[g2][q] = m_Match(g2, m, b)
    BY Zenon
  <2>2. IsMatcher(m)
    BY <1>2, Zenon
  <2>3. m.type = "mNegation" => g1[m.Inner] = g2[m.Inner]
    BY <1>5, Parts, Zenon
  <2>4. m.type \in {"mIntersection", "mUnion"} =>
            \A i \in DOMAIN m.List : g1[m.List[i]] = g2[m.List[i]]
    BY <1>5, Parts, Zenon
  <2> HIDE DEF m, F
  <2>5. m_Match(g1, m, b) \in BOOLEAN /\ m_Match(g2, m, b) \in BOOLEAN
    BY <2>2, MatchCases, Zenon
  <2>6. m_Match(g1, m, b) <=> m_Match(g2, m, b)
    <3>1. CASE m.type \notin {"mNegation", "mIntersection", "mUnion"}
      BY <2>2, <3>1, MatchCases DEF IsMatcher
    <3>2. CASE m.type = "mNegation"
      BY <2>2, <2>3, <3>2, MatchCases, Zenon
    <3>3. CASE m.type = "mIntersection"
      <4>1. \A g : m_Match(g, m, b) <=> \A i \in DOMAIN m.List : g[m.List[i]]
        BY <2>2, <3>3, MatchCases, Zenon
      <4>2. \A i \in DOMAIN m.List : g1[m.List[i]] = g2[m.List[i]]
        BY <2>4, <3>3, Zenon
      <4> QED
        BY <4>1, <4>2, Zenon
    <3>4. CASE m.type = "mUnion"
      <4>1. \A g : m_Match(g, m, b) <=> \E i \in DOMAIN m.List : g[m.List[i]]
        BY <2>2, <3>4, MatchCases, Zenon
      <4>2. \A i \in DOMAIN m.List : g1[m.List[i]] = g2[m.List[i]]
        BY <2>4, <3>4, Zenon
      <4> QED
        BY <4>1, <4>2, Zenon
    <3> QED
      BY <3>1, <3>2, <3>3, <3>4, Zenon
  <2> QED
    BY <2>1, <2>5, <2>6, Zenon
<1>6. \E g : g = rhs(g)
  <2>1. V # {}
    BY Zenon
  <2> HIDE DEF F, V, D, N
  <2>2. Descends(F, D, V, rank, N)
    BY <1>2, <1>4, <1>5, <2>1, Zenon DEF Descends
  <2>3. PICK g \in [D -> V] : g = F[g]
    BY <2>2, Recursion, Zenon
  <2>4. g = rhs(g)
    BY <2>3, Zenon DEF F
  <2> QED
    BY <2>4, Zenon
<1>7. t = rhs(t)
  BY <1>6, Zenon
<1> HIDE DEF t
<1>8. t \in [D -> V]
  BY <1>3, <1>7, Zenon
<1>9. \A p \in D : t[p] = m_Match(t, h[p], b)
  BY <1>7, Zenon
<1>10. t = [q \in D |-> Match(h, q, b)]
  <2>1. t = [q \in D |-> t[q]]
    BY <1>8
  <2> QED
    BY <1>1, <2>1, Zenon
<1>11. \A p \in D : t[p] \in BOOLEAN
  BY <1>8, Zenon
<1> QED
  BY <1>1, <1>9, <1>10, <1>11, Zenon

\* The matchers that hold others, and the sets of those that do not.
Composite == {"mNegation", "mIntersection", "mUnion"}

LeafSet(m) ==
    CASE m.type = "mAll" -> Byte
      [] m.type = "mNone" -> {}
      [] m.type = "mExact" -> {m.Byte}
      [] m.type = "mDense" -> {b \in Byte : mDense_Match(m, b)}
      [] m.type = "mSparse" -> m.Set
      [] m.type = "mRange" -> {b \in Byte : mRange_Match(m, b)}

LEMMA LeafSets ==
    ASSUME NEW m
    PROVE  /\ m.type = "mAll" => LeafSet(m) = Byte
           /\ m.type = "mNone" => LeafSet(m) = {}
           /\ m.type = "mExact" => LeafSet(m) = {m.Byte}
           /\ m.type = "mDense" => LeafSet(m) = {b \in Byte : mDense_Match(m, b)}
           /\ m.type = "mSparse" => LeafSet(m) = m.Set
           /\ m.type = "mRange" => LeafSet(m) = {b \in Byte : mRange_Match(m, b)}
BY DEF LeafSet

LEMMA MembersAre ==
    ASSUME NEW h, NEW p
    PROVE  /\ Members(h, p) \subseteq Byte
           /\ \A b : b \in Members(h, p) <=> b \in Byte /\ Match(h, p, b)
BY Zenon DEF Members

LEMMA LeafMatch ==
    ASSUME NEW call, NEW m, IsMatcher(m), m.type \notin Composite, NEW b \in Byte
    PROVE  m_Match(call, m, b) <=> b \in LeafSet(m)
<1>1. CASE m.type = "mAll"
  BY <1>1, MatchCases, LeafSets
<1>2. CASE m.type = "mNone"
  BY <1>2, MatchCases, LeafSets
<1>3. CASE m.type = "mExact"
  BY <1>3, MatchCases, LeafSets
<1>4. CASE m.type = "mDense"
  BY <1>4, MatchCases, LeafSets
<1>5. CASE m.type = "mSparse"
  BY <1>5, MatchCases, LeafSets
<1>6. CASE m.type = "mRange"
  BY <1>6, MatchCases, LeafSets
<1> QED
  BY <1>1, <1>2, <1>3, <1>4, <1>5, <1>6 DEF IsMatcher, Composite

\* The set that a matcher stands for, by what it is made of.
LEMMA LeafMembers ==
    ASSUME NEW h, NEW rank, Sound(h, rank), NEW p \in DOMAIN h, h[p].type \notin Composite
    PROVE  Members(h, p) = LeafSet(h[p]) /\ LeafSet(h[p]) \subseteq Byte
<1> DEFINE m == h[p]
           call(b) == [q \in DOMAIN h |-> Match(h, q, b)]
<1>1. IsMatcher(m)
  BY Parts, Zenon
<1>2. \A b : Match(h, p, b) <=> m_Match(call(b), m, b)
  BY MatchOf, Zenon
<1>3. LeafSet(m) \subseteq Byte
  <2>1. m.type \in {"mAll", "mNone", "mExact", "mDense", "mSparse", "mRange"}
    BY <1>1 DEF IsMatcher, Composite
  <2>2. (m.type = "mExact" => m.Byte \in Byte) /\ (m.type = "mSparse" => m.Set \subseteq Byte)
    BY <1>1 DEF IsMatcher
  <2> HIDE DEF m
  <2> QED
    BY <2>1, <2>2, LeafSets
<1>4. m.type \notin Composite
  OBVIOUS
<1> HIDE DEF call, m
<1>5. \A b \in Byte : m_Match(call(b), m, b) <=> b \in LeafSet(m)
  BY <1>1, <1>4, LeafMatch, Zenon
<1>6. Members(h, p) = LeafSet(m)
  BY <1>2, <1>3, <1>5, MembersAre, Zenon
<1> QED
  BY <1>3, <1>6, Zenon DEF m

LEMMA NegationMembers ==
    ASSUME NEW h, NEW rank, Sound(h, rank), NEW p \in DOMAIN h, h[p].type = "mNegation"
    PROVE  Members(h, p) = Byte \ Members(h, h[p].Inner)
<1> DEFINE m == h[p]
           call(b) == [q \in DOMAIN h |-> Match(h, q, b)]
<1>1. IsMatcher(m) /\ m.Inner \in DOMAIN h /\ m.type = "mNegation"
  BY Parts, Zenon
<1>2. \A b : Match(h, p, b) <=> m_Match(call(b), m, b)
  BY MatchOf, Zenon
<1>3. \A b : call(b)[m.Inner] = Match(h, m.Inner, b)
  BY <1>1, Zenon
<1> HIDE DEF call
<1>4. \A b : m_Match(call(b), m, b) <=> ~ call(b)[m.Inner]
  BY <1>1, MatchCases, Zenon
<1>5. \A b : Match(h, p, b) <=> ~ Match(h, m.Inner, b)
  BY <1>2, <1>3, <1>4, Zenon
<1> QED
  BY <1>5, MembersAre, Zenon

LEMMA IntersectionMembers ==
    ASSUME NEW h, NEW rank, Sound(h, rank), NEW p \in DOMAIN h, h[p].type = "mIntersection"
    PROVE  Members(h, p) =
              {b \in Byte : \A i \in DOMAIN h[p].List : b \in Members(h, h[p].List[i])}
<1> DEFINE m == h[p]
           call(b) == [q \in DOMAIN h |-> Match(h, q, b)]
<1>1. IsMatcher(m) /\ m.type = "mIntersection" /\ \A i \in DOMAIN m.List : m.List[i] \in DOMAIN h
  BY Parts, Zenon
<1>2. \A b : Match(h, p, b) <=> m_Match(call(b), m, b)
  BY MatchOf, Zenon
<1>3. \A b : \A i \in DOMAIN m.List : call(b)[m.List[i]] = Match(h, m.List[i], b)
  BY <1>1, Zenon
<1> HIDE DEF call
<1>4. \A b : m_Match(call(b), m, b) <=> \A i \in DOMAIN m.List : call(b)[m.List[i]]
  BY <1>1, MatchCases, Zenon
<1>5. ASSUME NEW b PROVE Match(h, p, b) <=> \A i \in DOMAIN m.List : Match(h, m.List[i], b)
  <2>1. Match(h, p, b) <=> \A i \in DOMAIN m.List : call(b)[m.List[i]]
    BY <1>2, <1>4, Zenon
  <2>2. \A i \in DOMAIN m.List : call(b)[m.List[i]] = Match(h, m.List[i], b)
    BY <1>3, Zenon
  <2> QED
    BY <2>1, <2>2, Zenon
<1>6. ASSUME NEW b \in Byte
      PROVE  b \in Members(h, p) <=> \A i \in DOMAIN m.List : b \in Members(h, m.List[i])
  BY <1>5, MembersAre, Zenon
<1> QED
  BY <1>6, MembersAre, Zenon

LEMMA UnionMembers ==
    ASSUME NEW h, NEW rank, Sound(h, rank), NEW p \in DOMAIN h, h[p].type = "mUnion"
    PROVE  Members(h, p) =
              {b \in Byte : \E i \in DOMAIN h[p].List : b \in Members(h, h[p].List[i])}
<1> DEFINE m == h[p]
           call(b) == [q \in DOMAIN h |-> Match(h, q, b)]
<1>1. IsMatcher(m) /\ m.type = "mUnion" /\ \A i \in DOMAIN m.List : m.List[i] \in DOMAIN h
  BY Parts, Zenon
<1>2. \A b : Match(h, p, b) <=> m_Match(call(b), m, b)
  BY MatchOf, Zenon
<1>3. \A b : \A i \in DOMAIN m.List : call(b)[m.List[i]] = Match(h, m.List[i], b)
  BY <1>1, Zenon
<1> HIDE DEF call
<1>4. \A b : m_Match(call(b), m, b) <=> \E i \in DOMAIN m.List : call(b)[m.List[i]]
  BY <1>1, MatchCases, Zenon
<1>5. ASSUME NEW b PROVE Match(h, p, b) <=> \E i \in DOMAIN m.List : Match(h, m.List[i], b)
  <2>1. Match(h, p, b) <=> \E i \in DOMAIN m.List : call(b)[m.List[i]]
    BY <1>2, <1>4, Zenon
  <2>2. \A i \in DOMAIN m.List : call(b)[m.List[i]] = Match(h, m.List[i], b)
    BY <1>3, Zenon
  <2> QED
    BY <2>1, <2>2, Zenon
<1>6. ASSUME NEW b \in Byte
      PROVE  b \in Members(h, p) <=> \E i \in DOMAIN m.List : b \in Members(h, m.List[i])
  BY <1>5, MembersAre, Zenon
<1> QED
  BY <1>6, MembersAre, Zenon

\* Strong induction over the rank of a matcher.
LEMMA RankInduction ==
    ASSUME NEW D, NEW rank \in [D -> Nat], NEW G,
           \A p \in D : (\A q \in D : rank[q] < rank[p] => q \in G) => p \in G
    PROVE  \A p \in D : p \in G
<1> DEFINE H == {n \in Nat : \A p \in D : rank[p] < n => p \in G}
<1>1. 0 \in H
  OBVIOUS
<1>2. ASSUME NEW n \in H PROVE n + 1 \in H
  <2>1. ASSUME NEW p \in D, rank[p] < n + 1 PROVE p \in G
    <3>1. \A q \in D : rank[q] < rank[p] => rank[q] < n
      BY <2>1
    <3>2. \A q \in D : rank[q] < n => q \in G
      OBVIOUS
    <3> QED
      BY <3>1, <3>2, Zenon
  <2> QED
    BY <2>1
<1>3. \A n \in Nat : n \in H
  <2>1. H \subseteq Nat
    OBVIOUS
  <2> HIDE DEF H
  <2> QED
    BY <1>1, <1>2, <2>1, Induction, Zenon
<1>4. ASSUME NEW p \in D PROVE p \in G
  <2>1. rank[p] + 1 \in Nat /\ rank[p] < rank[p] + 1
    OBVIOUS
  <2> QED
    BY <1>3, <2>1
<1> QED
  BY <1>4

\* g differs from h in matchers that h has not got, and in negations of another
\* matcher for the same set.
Rewritten(h, g, rank) ==
    \A p \in DOMAIN h :
        \/ g[p] = h[p]
        \/ /\ h[p].type = "mNegation" /\ g[p].type = "mNegation"
           /\ g[p].Inner \in DOMAIN h /\ rank[g[p].Inner] < rank[p]
           /\ Members(h, g[p].Inner) = Members(h, h[p].Inner)

\* This changes no matcher's set.
LEMMA RewrittenSame ==
    ASSUME NEW h, NEW rank, Sound(h, rank), NEW g, NEW rk, Sound(g, rk),
           DOMAIN h \subseteq DOMAIN g, Rewritten(h, g, rank)
    PROVE  \A p \in DOMAIN h : Members(g, p) = Members(h, p)
<1> DEFINE D == DOMAIN h
           G == {p \in D : Members(g, p) = Members(h, p)}
<1>1. rank \in [D -> Nat]
  BY Zenon DEF Sound
<1>2. ASSUME NEW p \in D, \A q \in D : rank[q] < rank[p] => q \in G PROVE p \in G
  <2>0. p \in DOMAIN g /\ \A q \in D : rank[q] < rank[p] => Members(g, q) = Members(h, q)
    BY <1>2
  <2>1. CASE h[p].type = "mNegation"
    <3>1. /\ g[p].type = "mNegation"
          /\ g[p].Inner \in D /\ rank[g[p].Inner] < rank[p]
          /\ Members(h, g[p].Inner) = Members(h, h[p].Inner)
      BY <2>1, Parts, Zenon DEF Rewritten
    <3>2. Members(g, p) = Byte \ Members(g, g[p].Inner)
      BY <2>0, <3>1, NegationMembers, Zenon
    <3>3. Members(h, p) = Byte \ Members(h, h[p].Inner)
      BY <2>1, NegationMembers, Zenon
    <3>4. Members(g, g[p].Inner) = Members(h, g[p].Inner)
      BY <2>0, <3>1, Zenon
    <3> QED
      BY <3>1, <3>2, <3>3, <3>4, Zenon
  <2>2. ASSUME h[p].type # "mNegation" PROVE g[p] = h[p]
    BY <2>2, Zenon DEF Rewritten
  <2>3. CASE h[p].type = "mIntersection"
    <3> DEFINE l == h[p].List
    <3>1. \A i \in DOMAIN l : Members(g, l[i]) = Members(h, l[i])
      BY <2>0, <2>3, Parts, Zenon
    <3>2. Members(h, p) = {b \in Byte : \A i \in DOMAIN l : b \in Members(h, l[i])}
      BY <2>3, IntersectionMembers, Zenon
    <3>3. Members(g, p) = {b \in Byte : \A i \in DOMAIN l : b \in Members(g, l[i])}
      <4>1. g[p] = h[p] /\ g[p].type = "mIntersection"
        BY <2>2, <2>3, Zenon
      <4>2. Members(g, p) = {b \in Byte : \A i \in DOMAIN g[p].List : b \in Members(g, g[p].List[i])}
        BY <2>0, <4>1, IntersectionMembers
      <4> QED
        BY <4>1, <4>2
    <3> QED
      BY <3>1, <3>2, <3>3, Zenon
  <2>4. CASE h[p].type = "mUnion"
    <3> DEFINE l == h[p].List
    <3>1. \A i \in DOMAIN l : Members(g, l[i]) = Members(h, l[i])
      BY <2>0, <2>4, Parts, Zenon
    <3>2. Members(h, p) = {b \in Byte : \E i \in DOMAIN l : b \in Members(h, l[i])}
      BY <2>4, UnionMembers, Zenon
    <3>3. Members(g, p) = {b \in Byte : \E i \in DOMAIN l : b \in Members(g, l[i])}
      <4>1. g[p] = h[p] /\ g[p].type = "mUnion"
        BY <2>2, <2>4, Zenon
      <4>2. Members(g, p) = {b \in Byte : \E i \in DOMAIN g[p].List : b \in Members(g, g[p].List[i])}
        BY <2>0, <4>1, UnionMembers, ZenonT(40)
      <4> QED
        BY <4>1, <4>2
    <3> QED
      BY <3>1, <3>2, <3>3, Zenon
  <2>5. CASE h[p].type \notin Composite
    <3>1. g[p] = h[p]
      BY <2>2, <2>5, Zenon DEF Composite
    <3> QED
      BY <2>0, <2>5, <3>1, LeafMembers, Zenon
  <2> QED
    BY <2>1, <2>3, <2>4, <2>5, Zenon DEF Composite
<1> HIDE DEF G
<1>3. \A p \in D : p \in G
  BY <1>1, <1>2, RankInduction, ZenonT(40)
<1> QED
  BY <1>3 DEF G

-----------------------------------------------------------------------------
(* ForEach. *)

\* Calls with bytes, each at most once, in ascending order.
Lists == {s \in Seq(Nat) : Asc(s) /\ ToSet(s) \subseteq Byte}

LEMMA AscendingLists ==
    ASSUME NEW S \in SUBSET Byte
    PROVE  Ascending(S) \in Lists /\ ToSet(Ascending(S)) = S
BY AscendingOf, Zenon DEF Lists

LEMMA GenericForEach ==
    ASSUME NEW h, NEW p
    PROVE  genericForEach(h, p) = Ascending(Members(h, p))
<1> DEFINE n == Words * Bits
<1>1. \A k \in 1 .. n : Match(h, p, k - 1) <=> k - 1 \in Members(h, p)
  <2>1. \A k \in 1 .. n : k - 1 \in Byte
    BY Digits, Zenon
  <2> QED
    BY <2>1, MembersAre, Zenon
<1>2. [k \in 1 .. n |-> IF Match(h, p, k - 1) THEN <<k - 1>> ELSE <<>>]
        = [k \in 1 .. n |-> IF k - 1 \in Members(h, p) THEN <<k - 1>> ELSE <<>>]
  BY <1>1
<1> QED
  BY <1>2, Zenon DEF genericForEach, Ascending

\* What the first matcher of an intersection calls f with, without what another
\* one does not match.
LEMMA RestForEach ==
    ASSUME NEW first \in Lists, NEW R
    PROVE  LET s == FlattenSeq([k \in DOMAIN first |-> IF first[k] \in R THEN <<first[k]>> ELSE <<>>])
           IN  s \in Lists /\ ToSet(s) = {b \in ToSet(first) : b \in R}
<1> DEFINE n == Len(first)
           T == {k \in 1 .. n : first[k] \in R}
           f == [k \in DOMAIN first |-> IF first[k] \in R THEN <<first[k]>> ELSE <<>>]
<1>1. /\ first \in Seq(Nat) /\ n \in Nat /\ DOMAIN first = 1 .. n /\ first \in [1 .. n -> Nat]
      /\ Asc(first) /\ ToSet(first) \subseteq Byte
  BY DEF Lists
<1>2. f = [k \in 1 .. n |-> IF k \in T THEN <<first[k]>> ELSE <<>>]
  BY <1>1
<1>3. T \in SUBSET (1 .. n)
  OBVIOUS
<1>4. {first[k] : k \in T} = {b \in ToSet(first) : b \in R}
  BY <1>1 DEF ToSet
<1> HIDE DEF f, T, n
<1>5. FlattenSeq(f) \in Seq(Nat) /\ Asc(FlattenSeq(f)) /\ ToSet(FlattenSeq(f)) = {first[k] : k \in T}
  BY <1>1, <1>2, <1>3, FilterAscends, Zenon
<1>6. FlattenSeq(f) \in Lists /\ ToSet(FlattenSeq(f)) = {b \in ToSet(first) : b \in R}
  <2>1. ToSet(FlattenSeq(f)) = {b \in ToSet(first) : b \in R}
    BY <1>4, <1>5, Zenon
  <2>2. ToSet(FlattenSeq(f)) \subseteq Byte
    BY <1>1, <2>1, Zenon
  <2> QED
    BY <1>5, <2>1, <2>2, Zenon DEF Lists
<1> QED
  BY <1>6, Zenon DEF f

\* The cases of ForEach.
LEMMA ForEachCases ==
    ASSUME NEW h, NEW call, NEW p, IsMatcher(h[p])
    PROVE  /\ h[p].type = "mNone" => m_ForEach(h, call, p) = <<>>
           /\ h[p].type \in {"mAll", "mNegation"} => m_ForEach(h, call, p) = genericForEach(h, p)
           /\ h[p].type = "mExact" => m_ForEach(h, call, p) = mExact_ForEach(h[p])
           /\ h[p].type = "mDense" => m_ForEach(h, call, p) = mDense_ForEach(h[p])
           /\ h[p].type = "mSparse" => m_ForEach(h, call, p) = mSparse_ForEach(h[p])
           /\ h[p].type = "mRange" => m_ForEach(h, call, p) = mRange_ForEach(h[p])
           /\ h[p].type = "mIntersection" =>
                 m_ForEach(h, call, p) = mIntersection_ForEach(h, call, h[p])
           /\ h[p].type = "mUnion" => m_ForEach(h, call, p) = mUnion_ForEach(call, h[p])
BY SMTT(40) DEF m_ForEach

\* Of a matcher that calls no other ForEach.
LEMMA LeafForEach ==
    ASSUME NEW h, NEW rank, Sound(h, rank), NEW p \in DOMAIN h, NEW call,
           h[p].type \notin {"mIntersection", "mUnion"}
    PROVE  m_ForEach(h, call, p) \in Lists /\ ToSet(m_ForEach(h, call, p)) = Members(h, p)
<1> DEFINE m == h[p]
<1>1. IsMatcher(m)
  BY Parts, Zenon
<1>2. m.type \in {"mAll", "mNone", "mExact", "mDense", "mSparse", "mRange", "mNegation"}
  BY <1>1 DEF IsMatcher
<1>3. CASE m.type \in {"mAll", "mNegation"}
  <2>1. m_ForEach(h, call, p) = Ascending(Members(h, p))
    BY <1>1, <1>3, ForEachCases, GenericForEach, Zenon
  <2> QED
    BY <2>1, AscendingLists, MembersAre, Zenon
<1>4. CASE m.type \in {"mNone", "mExact", "mDense", "mSparse", "mRange"}
  <2>0. Members(h, p) = LeafSet(m) /\ LeafSet(m) \subseteq Byte
    <3>1. m.type \notin Composite
      BY <1>4 DEF Composite
    <3> QED
      BY <3>1, LeafMembers, Zenon
  <2>1. CASE m.type = "mNone"
    <3>1. m_ForEach(h, call, p) = <<>> /\ LeafSet(m) = {}
      BY <1>1, <2>1, ForEachCases, LeafSets, Zenon
    <3>2. <<>> \in Seq(Nat) /\ Asc(<<>>) /\ ToSet(<<>>) = {}
      BY DEF Asc, ToSet
    <3> QED
      BY <2>0, <3>1, <3>2 DEF Lists
  <2>2. CASE m.type = "mExact"
    <3>1. m_ForEach(h, call, p) = <<m.Byte>> /\ LeafSet(m) = {m.Byte} /\ m.Byte \in Byte
      <4>1. m_ForEach(h, call, p) = <<m.Byte>>
        BY <1>1, <2>2, ForEachCases, Zenon DEF mExact_ForEach
      <4>2. LeafSet(m) = {m.Byte}
        BY <2>2, LeafSets, Zenon
      <4>3. m.Byte \in Byte
        BY <1>1, <2>2, Zenon DEF IsMatcher
      <4> QED
        BY <4>1, <4>2, <4>3, Zenon
    <3> DEFINE b == m.Byte
    <3> HIDE DEF b
    <3>2. b \in Nat /\ b \in Byte
      BY <3>1, Digits, Zenon DEF b
    <3>3. <<b>> \in Seq(Nat) /\ Asc(<<b>>) /\ ToSet(<<b>>) = {b}
      BY <3>2 DEF Asc, ToSet
    <3>4. <<b>> \in Lists
      BY <3>2, <3>3 DEF Lists
    <3> QED
      BY <2>0, <3>1, <3>3, <3>4, Zenon DEF b
  <2>3. CASE m.type = "mDense"
    <3>1. m_ForEach(h, call, p) = Ascending(LeafSet(m))
      <4>1. m_ForEach(h, call, p) = mDense_ForEach(m)
        BY <1>1, <2>3, ForEachCases, Zenon
      <4>2. LeafSet(m) = {b \in Byte : mDense_Match(m, b)}
        BY <2>3, LeafSets, Zenon
      <4> QED
        BY <4>1, <4>2, DenseForEach
    <3> QED
      BY <2>0, <3>1, AscendingLists, Zenon
  <2>4. CASE m.type = "mSparse"
    <3>1. m_ForEach(h, call, p) = Ascending(LeafSet(m))
      <4>1. m_ForEach(h, call, p) = Ascending(m.Set)
        BY <1>1, <2>4, ForEachCases, Zenon DEF mSparse_ForEach
      <4>2. LeafSet(m) = m.Set
        BY <2>4, LeafSets, Zenon
      <4> QED
        BY <4>1, <4>2
    <3> QED
      BY <2>0, <3>1, AscendingLists, Zenon
  <2>5. CASE m.type = "mRange"
    <3>1. m_ForEach(h, call, p) = mRange_ForEach(m) /\ LeafSet(m) = {b \in Byte : mRange_Match(m, b)}
      BY <1>1, <2>5, ForEachCases, LeafSets, Zenon
    <3>2. IsRanges(m.Ranges)
      BY <1>1, <2>5, Zenon DEF IsMatcher
    <3> HIDE DEF m
    <3>3. /\ mRange_ForEach(m) \in Seq(Nat) /\ Asc(mRange_ForEach(m))
          /\ ToSet(mRange_ForEach(m)) = LeafSet(m)
      BY <3>1, <3>2, RangeForEach, Zenon
    <3> QED
      BY <2>0, <3>1, <3>3, Zenon DEF Lists
  <2> QED
    BY <1>4, <2>1, <2>2, <2>3, <2>4, <2>5, Zenon
<1> QED
  BY <1>2, <1>3, <1>4, Zenon

LEMMA IntersectionForEach ==
    ASSUME NEW h, NEW rank, Sound(h, rank), NEW p \in DOMAIN h, h[p].type = "mIntersection",
           NEW call, \A i \in DOMAIN h[p].List : call[h[p].List[i]] \in Lists
    PROVE  /\ m_ForEach(h, call, p) \in Lists
           /\ (\A i \in DOMAIN h[p].List : ToSet(call[h[p].List[i]]) = Members(h, h[p].List[i]))
                 => ToSet(m_ForEach(h, call, p)) = Members(h, p)
<1> DEFINE l == h[p].List
           n == Len(l)
<1>0. IsMatcher(h[p])
  BY Parts, Zenon
<1>1. m_ForEach(h, call, p) = mIntersection_ForEach(h, call, h[p])
  BY <1>0, ForEachCases, Zenon
<1>2. l \in Seq(Nat)
  BY <1>0 DEF IsMatcher
<1>3. n \in Nat /\ DOMAIN l = 1 .. n /\ (n = 0 <=> l = <<>>)
  BY <1>2
<1>4. Members(h, p) = {b \in Byte : \A i \in DOMAIN l : b \in Members(h, l[i])}
  BY IntersectionMembers, ZenonT(40)
<1>5. CASE l = <<>>
  <2> DEFINE hi == Words * Bits - 1
  <2>1. m_ForEach(h, call, p) = forEachByte(0, hi)
    BY <1>1, <1>5, Zenon DEF mIntersection_ForEach
  <2>2. hi \in Byte /\ 0 \in Byte /\ 0 <= hi /\ 0 .. hi = Byte
    BY Digits DEF Byte
  <2>3. forEachByte(0, hi) \in Lists /\ ToSet(forEachByte(0, hi)) = Byte
    <3> HIDE DEF hi
    <3> QED
      BY <2>2, EachByte DEF Lists
  <2>4. Members(h, p) = Byte
    <3>1. \A i \in DOMAIN l : FALSE
      BY <1>5
    <3> QED
      BY <1>4, <3>1, Zenon
  <2> QED
    BY <2>1, <2>3, <2>4, Zenon
<1>6. CASE l # <<>>
  <2> DEFINE first == call[l[1]]
             rest(b) == \A i \in 2 .. n : Match(h, l[i], b)
             R == {b \in Byte : rest(b)}
             s == FlattenSeq([k \in DOMAIN first |-> IF first[k] \in R THEN <<first[k]>> ELSE <<>>])
  <2>0. 1 \in DOMAIN l /\ \A i \in DOMAIN l : i = 1 \/ i \in 2 .. n
    BY <1>3, <1>6
  <2>1. first \in Lists
    BY <2>0, Zenon
  <2>2. m_ForEach(h, call, p) =
          FlattenSeq([k \in DOMAIN first |-> IF rest(first[k]) THEN <<first[k]>> ELSE <<>>])
    BY <1>1, <1>6, Zenon DEF mIntersection_ForEach
  <2>3. \A k \in DOMAIN first : rest(first[k]) <=> first[k] \in R
    <3>1. \A k \in DOMAIN first : first[k] \in Byte
      BY <2>1 DEF Lists, ToSet
    <3> QED
      BY <3>1, Zenon
  <2>4. [k \in DOMAIN first |-> IF rest(first[k]) THEN <<first[k]>> ELSE <<>>] =
          [k \in DOMAIN first |-> IF first[k] \in R THEN <<first[k]>> ELSE <<>>]
    <3> HIDE DEF R, rest, first
    <3> QED
      BY <2>3
  <2>5. m_ForEach(h, call, p) = s
    BY <2>2, <2>4, Zenon
  <2> HIDE DEF first, R
  <2>6. s \in Lists /\ ToSet(s) = {b \in ToSet(first) : b \in R}
    BY <2>1, RestForEach
  <2> HIDE DEF s
  <2>7. ASSUME \A i \in DOMAIN l : ToSet(call[l[i]]) = Members(h, l[i]) PROVE ToSet(s) = Members(h, p)
    <3>1. ToSet(first) = Members(h, l[1])
      BY <2>0, <2>7, Zenon DEF first
    <3>2. \A b : b \in ToSet(s) <=> b \in Members(h, l[1]) /\ b \in R
      BY <2>6, <3>1, Zenon
    <3>3. \A b \in Byte : b \in R <=> \A i \in 2 .. n : b \in Members(h, l[i])
      BY MembersAre, Zenon DEF R
    <3>4. Members(h, l[1]) \subseteq Byte
      BY MembersAre, Zenon
    <3>5. 2 .. n \subseteq DOMAIN l
      BY <1>3
    <3>6. \A b : b \in ToSet(s) <=> b \in Byte /\ \A i \in DOMAIN l : b \in Members(h, l[i])
      BY <2>0, <3>2, <3>3, <3>4, <3>5, Zenon
    <3> QED
      BY <1>4, <3>6, Zenon
  <2> QED
    BY <2>5, <2>6, <2>7, Zenon
<1> QED
  BY <1>5, <1>6, Zenon

LEMMA UnionsForEach ==
    ASSUME NEW h, NEW rank, Sound(h, rank), NEW p \in DOMAIN h, h[p].type = "mUnion",
           NEW call, \A i \in DOMAIN h[p].List : call[h[p].List[i]] \in Lists
    PROVE  /\ m_ForEach(h, call, p) \in Lists
           /\ (\A i \in DOMAIN h[p].List : ToSet(call[h[p].List[i]]) = Members(h, h[p].List[i]))
                 => ToSet(m_ForEach(h, call, p)) = Members(h, p)
<1> DEFINE l == h[p].List
           S == UNION {ToSet(call[l[i]]) : i \in DOMAIN l}
<1>0. IsMatcher(h[p])
  BY Parts, Zenon
<1>1. m_ForEach(h, call, p) = Ascending(S)
  <2>1. m_ForEach(h, call, p) = mUnion_ForEach(call, h[p])
    BY <1>0, ForEachCases, Zenon
  <2> QED
    BY <2>1 DEF mUnion_ForEach
<1>2. Members(h, p) = {b \in Byte : \E i \in DOMAIN l : b \in Members(h, l[i])}
  BY UnionMembers, Zenon
<1>3. S \subseteq Byte
  <2>1. \A i \in DOMAIN l : ToSet(call[l[i]]) \subseteq Byte
    BY Zenon DEF Lists
  <2> QED
    BY <2>1, Zenon
<1>4. Ascending(S) \in Lists /\ ToSet(Ascending(S)) = S
  BY <1>3, AscendingLists
<1>5. ASSUME \A i \in DOMAIN l : ToSet(call[l[i]]) = Members(h, l[i]) PROVE S = Members(h, p)
  <2>1. \A b : b \in S <=> \E i \in DOMAIN l : b \in Members(h, l[i])
    BY <1>5, Zenon
  <2> QED
    BY <1>2, <1>3, <2>1, Zenon
<1> HIDE DEF S
<1> QED
  BY <1>1, <1>4, <1>5, Zenon

\* ForEach looks only at what it is called for.
LEMMA ForEachLocal ==
    ASSUME NEW h, NEW p, IsMatcher(h[p]), NEW g1, NEW g2,
           h[p].type \in {"mIntersection", "mUnion"} =>
               \A i \in DOMAIN h[p].List : g1[h[p].List[i]] = g2[h[p].List[i]]
    PROVE  m_ForEach(h, g1, p) = m_ForEach(h, g2, p)
<1>1. CASE h[p].type = "mIntersection"
  <2> DEFINE m == h[p]
             l == m.List
  <2>1. \A g : m_ForEach(h, g, p) = mIntersection_ForEach(h, g, m)
    BY <1>1, ForEachCases, ZenonT(40)
  <2>2. l \in Seq(Nat)
    BY <1>1 DEF IsMatcher
  <2>3. l # <<>> => 1 \in DOMAIN l
    BY <2>2
  <2>4. l # <<>> => g1[l[1]] = g2[l[1]]
    BY <1>1, <2>3, Zenon
  <2>5. mIntersection_ForEach(h, g1, m) = mIntersection_ForEach(h, g2, m)
    BY <2>4, Zenon DEF mIntersection_ForEach
  <2> QED
    BY <2>1, <2>5, Zenon
<1>2. CASE h[p].type = "mUnion"
  <2> DEFINE m == h[p]
             l == m.List
             S(g) == UNION {ToSet(g[l[i]]) : i \in DOMAIN l}
  <2>1. \A g : m_ForEach(h, g, p) = Ascending(S(g))
    <3>1. \A g : m_ForEach(h, g, p) = mUnion_ForEach(g, m)
      BY <1>2, ForEachCases, ZenonT(40)
    <3> QED
      BY <3>1 DEF mUnion_ForEach
  <2>2. \A i \in DOMAIN l : g1[l[i]] = g2[l[i]]
    BY <1>2, Zenon
  <2>3. S(g1) = S(g2)
    BY <2>2
  <2> HIDE DEF S
  <2> QED
    BY <2>1, <2>3, Zenon
<1>3. CASE h[p].type \notin {"mIntersection", "mUnion"}
  BY <1>3, ForEachCases, SMTT(40) DEF IsMatcher
<1> QED
  BY <1>1, <1>2, <1>3

\* "ForEach calls f exactly once for each byte in the set", in ascending order.
LEMMA ForEachOf ==
    ASSUME NEW h, NEW rank, Sound(h, rank)
    PROVE  \A p \in DOMAIN h : ForEach(h, p) \in Lists /\ ToSet(ForEach(h, p)) = Members(h, p)
<1> DEFINE D == DOMAIN h
           V == Lists
           N == Len(h)
           rhs(g) == [q \in D |-> m_ForEach(h, g, q)]
           t == CHOOSE g : g = rhs(g)
           F == [g \in [D -> V] |-> rhs(g)]
<1>1. \A p : ForEach(h, p) = t[p]
  BY DEF ForEach
<1>2. N \in Nat /\ rank \in [D -> Nat] /\ \A q \in D : IsMatcher(h[q]) /\ rank[q] < N
  <2>1. h \in Seq(ToSet(h)) => N \in Nat
    OBVIOUS
  <2> QED
    BY <2>1 DEF Sound
<1>3. ASSUME NEW q \in D, NEW g,
             h[q].type \in {"mIntersection", "mUnion"} => \A i \in DOMAIN h[q].List : g[h[q].List[i]] \in V
      PROVE  m_ForEach(h, g, q) \in V
  <2>1. CASE h[q].type \notin {"mIntersection", "mUnion"}
    BY <2>1, LeafForEach, Zenon
  <2>2. CASE h[q].type = "mIntersection"
    BY <1>3, <2>2, IntersectionForEach, Zenon
  <2>3. CASE h[q].type = "mUnion"
    BY <1>3, <2>3, UnionsForEach, Zenon
  <2> QED
    BY <2>1, <2>2, <2>3
<1>4. F \in [[D -> V] -> [D -> V]]
  <2>1. \A g \in [D -> V], q \in D : h[q].type \in {"mIntersection", "mUnion"} =>
           \A i \in DOMAIN h[q].List : g[h[q].List[i]] \in V
    BY Parts, Zenon
  <2>2. \A g \in [D -> V] : rhs(g) \in [D -> V]
    BY <1>3, <2>1, Zenon
  <2> QED
    BY <2>2, Zenon
<1>5. ASSUME NEW g1 \in [D -> V], NEW g2 \in [D -> V], NEW q \in D,
             \A r \in D : rank[r] < rank[q] => g1[r] = g2[r]
      PROVE  F[g1][q] = F[g2][q]
  <2>1. F[g1][q] = m_ForEach(h, g1, q) /\ F[g2][q] = m_ForEach(h, g2, q)
    BY Zenon
  <2>2. h[q].type \in {"mIntersection", "mUnion"} =>
            \A i \in DOMAIN h[q].List : g1[h[q].List[i]] = g2[h[q].List[i]]
    BY <1>5, Parts, Zenon
  <2>3. m_ForEach(h, g1, q) = m_ForEach(h, g2, q)
    BY <1>2, <2>2, ForEachLocal, Zenon
  <2> QED
    BY <2>1, <2>3, Zenon
<1>6. \E g : g = rhs(g)
  <2>1. V # {}
    BY AscendingLists
  <2> HIDE DEF F, V, D, N
  <2>2. Descends(F, D, V, rank, N)
    BY <1>2, <1>4, <1>5, <2>1, Zenon DEF Descends
  <2>3. PICK g \in [D -> V] : g = F[g]
    BY <2>2, Recursion, Zenon
  <2>4. g = rhs(g)
    BY <2>3, Zenon DEF F
  <2> QED
    BY <2>4, Zenon
<1>7. t = rhs(t)
  BY <1>6, Zenon
<1> HIDE DEF t
<1>8. \A p \in D : t[p] = m_ForEach(h, t, p)
  BY <1>7, Zenon
<1> DEFINE G == {p \in D : t[p] \in Lists /\ ToSet(t[p]) = Members(h, p)}
<1>9. ASSUME NEW p \in D, \A q \in D : rank[q] < rank[p] => q \in G PROVE p \in G
  <2>1. \A q \in D : rank[q] < rank[p] => t[q] \in Lists /\ ToSet(t[q]) = Members(h, q)
    BY <1>9
  <2>2. h[p].type \in {"mIntersection", "mUnion"} =>
            \A i \in DOMAIN h[p].List : /\ t[h[p].List[i]] \in Lists
                                        /\ ToSet(t[h[p].List[i]]) = Members(h, h[p].List[i])
    BY <2>1, Parts, Zenon
  <2>3. m_ForEach(h, t, p) \in Lists /\ ToSet(m_ForEach(h, t, p)) = Members(h, p)
    <3>1. CASE h[p].type \notin {"mIntersection", "mUnion"}
      BY <3>1, LeafForEach, Zenon
    <3>2. CASE h[p].type = "mIntersection"
      BY <2>2, <3>2, IntersectionForEach, Zenon
    <3>3. CASE h[p].type = "mUnion"
      BY <2>2, <3>3, UnionsForEach, Zenon
    <3> QED
      BY <3>1, <3>2, <3>3
  <2> QED
    BY <1>8, <2>3, Zenon
<1>10. \A p \in D : p \in G
  <2> HIDE DEF G, D
  <2> QED
    BY <1>2, <1>9, RankInduction, Zenon
<1> QED
  BY <1>1, <1>10, Zenon

-----------------------------------------------------------------------------
(* forEachUnion, which ForEach of a union is. *)

Called == {calls[k] : k \in DOMAIN calls}

\* Every byte is with its goroutine, in data, or has been passed to f.
Accounted ==
    /\ seen = buffered \cup Called
    /\ buffered \cap Called = {}
    /\ seen \subseteq Union
    /\ \A i \in 1..Count : left[i] \subseteq ms[i] /\ ms[i] \subseteq left[i] \cup seen

\* No byte is in data twice.
Once == \A b \in AnyByte : data[b] <= 1

\* f has been called with smaller bytes than all that are still to come.
SentInOrder ==
    \A c \in Called :
        /\ \A d \in buffered : c < d
        /\ \A i \in 1..Count : \A x \in left[i] : x \notin seen => c < x

\* The channels that have had their turn in this round are closed, or have
\* put a byte into data that is less than all they have left.
Contributed(i) == routine[i] = "closed" \/ \E d \in buffered : \A x \in left[i] : d < x

RoundSoFar == caller = "merging" => \A i \in 1 .. at - 1 : Contributed(i)

Ended ==
    /\ \A i \in 1..Count : routine[i] = "closed" => left[i] = {}
    /\ caller = "returned" => Union \subseteq Called /\ \A i \in 1..Count : routine[i] = "closed"

\* The inductive invariant.
UnionInv == UnionTypeOK /\ Accounted /\ Once /\ SentInOrder /\ RoundSoFar /\ Ended

USE DEF firstChannel

LEMMA SequenceType ==
    ASSUME NEW S, NEW s \in Seq(S)
    PROVE  Len(s) \in Nat /\ s \in [1..Len(s) -> S]
  OBVIOUS

LEMMA FamilyType == ms \in Seq(SUBSET AnyByte) => Count \in Nat /\ ms \in [1..Count -> SUBSET AnyByte]
  BY SequenceType DEF Count

LEMMA UnionInitInv == UnionInit => UnionInv
<1> SUFFICES ASSUME UnionInit PROVE UnionInv
  OBVIOUS
<1>1. ms \in Seq(SUBSET AnyByte)
  BY FamiliesAssumption DEF UnionInit
<1>2. UnionTypeOK
  <2>1. Count \in Nat /\ left \in [1..Count -> SUBSET AnyByte]
    BY <1>1, FamilyType DEF UnionInit
  <2>2. routine \in [1..Count -> {"none", "running", "sending", "closed"}]
    BY DEF UnionInit
  <2>3. at \in 1 .. Count + 1 /\ calls \in Seq(AnyByte)
    BY <2>1 DEF UnionInit
  <2> QED
    BY <1>1, <2>1, <2>2, <2>3 DEF UnionInit, UnionTypeOK
<1>3. Called = {} /\ buffered = {} /\ seen = {}
  BY DEF UnionInit, Called, buffered
<1>4. Accounted /\ SentInOrder
  BY <1>3 DEF Accounted, SentInOrder, UnionInit, Union, Count
<1>6. Once
  BY DEF Once, UnionInit
<1>5. RoundSoFar /\ Ended
  BY DEF RoundSoFar, Ended, UnionInit, Count
<1> QED
  BY <1>2, <1>4, <1>5, <1>6 DEF UnionInv

\* What adding a byte that is not in data, and removing one that is there once,
\* do to the bytes in data.
LEMMA AddByte ==
    ASSUME data \in [AnyByte -> Nat], Once, NEW b \in AnyByte, b \notin buffered,
           data' = [data EXCEPT ![b] = @ + 1]
    PROVE  data' \in [AnyByte -> Nat] /\ Once' /\ buffered' = buffered \cup {b}
<1>1. data[b] = 0
  BY DEF buffered
<1>2. \A x \in AnyByte : data'[x] = IF x = b THEN 1 ELSE data[x]
  BY <1>1
<1> QED
  BY <1>2 DEF Once, buffered

LEMMA RemoveByte ==
    ASSUME data \in [AnyByte -> Nat], Once, NEW b \in buffered,
           data' = [data EXCEPT ![b] = @ - 1]
    PROVE  data' \in [AnyByte -> Nat] /\ Once' /\ buffered' = buffered \ {b}
<1>1. b \in AnyByte /\ data[b] = 1
  BY DEF buffered, Once
<1>2. \A x \in AnyByte : data'[x] = IF x = b THEN 0 ELSE data[x]
  BY <1>1
<1> QED
  BY <1>1, <1>2 DEF Once, buffered

LEMMA CallerReceives == UnionInv /\ Receive => UnionInv'
<1> SUFFICES ASSUME UnionInv, Receive PROVE UnionInv'
  OBVIOUS
<1> Count \in Nat /\ ms \in [1..Count -> SUBSET AnyByte]
  BY FamilyType DEF UnionInv, UnionTypeOK
<1> ms' = ms => Count' = Count
  BY DEF Count
<1> \A b \in AnyByte : b \in Int
  BY DEF AnyByte
<1>0. PICK b \in left[at] : /\ Least(b, left[at])
                            /\ left' = [left EXCEPT ![at] = @ \ {b}]
                            /\ received(b)
  BY Zenon DEF Receive
<1>1. at \in 1..Count /\ routine[at] = "sending" /\ routine' = [routine EXCEPT ![at] = "running"]
      /\ UNCHANGED <<ms, caller, calls>> /\ caller = "merging"
  BY DEF Receive, UnionInv, UnionTypeOK
<1>2. b \in AnyByte /\ b \in ms[at]
  BY <1>0, <1>1 DEF UnionInv, UnionTypeOK, Accounted
<1>3. Called' = Called /\ Union' = Union /\ Count' = Count
  BY <1>1 DEF Called, Union
<1>d. /\ data' \in [AnyByte -> Nat] /\ Once'
      /\ b \in seen => buffered' = buffered
      /\ b \notin seen => buffered' = buffered \cup {b}
  <2>1. CASE b \in seen
    BY <2>1, <1>0 DEF received, UnionInv, UnionTypeOK, Once, buffered
  <2>2. CASE b \notin seen
    <3>1. b \notin buffered /\ data' = [data EXCEPT ![b] = @ + 1]
      BY <2>2, <1>0 DEF received, UnionInv, Accounted
    <3> QED
      BY <2>2, <3>1, <1>2, AddByte, Zenon DEF UnionInv, UnionTypeOK
  <2> QED
    BY <2>1, <2>2
<1>t. UnionTypeOK'
  <2>1. at' \in 1 .. Count + 1
    BY <1>0, <1>1 DEF received, UnionInv, UnionTypeOK
  <2>2. data' \in [AnyByte -> Nat] /\ seen' \in SUBSET AnyByte
    BY <1>0, <1>2, <1>d DEF received, UnionInv, UnionTypeOK
  <2>3. left' \in [1..Count -> SUBSET AnyByte]
    BY <1>0, <1>1 DEF UnionInv, UnionTypeOK
  <2>4. routine' \in [1..Count -> {"none", "running", "sending", "closed"}]
    BY <1>1 DEF UnionInv, UnionTypeOK
  <2> QED
    BY <2>1, <2>2, <2>3, <2>4, <1>1 DEF UnionInv, UnionTypeOK
<1>s. seen' = seen \cup {b} /\ buffered \subseteq buffered' /\ buffered' \subseteq buffered \cup {b}
  BY <1>0, <1>d DEF received
<1>i. \A i \in 1..Count : left'[i] = IF i = at THEN left[i] \ {b} ELSE left[i]
  BY <1>0, <1>1, Zenon DEF UnionInv, UnionTypeOK
<1>4. Accounted'
  <2>1. b \in Union
    BY <1>1, <1>2 DEF Union
  <2>2. seen' = buffered' \cup Called' /\ buffered' \cap Called' = {}
    BY <1>0, <1>3, <1>d DEF received, UnionInv, Accounted
  <2>3. \A i \in 1..Count : left'[i] \subseteq ms[i] /\ ms[i] \subseteq left'[i] \cup seen'
    BY <1>i, <1>s, ZenonT(40) DEF UnionInv, Accounted
  <2> QED
    BY <2>1, <2>2, <2>3, <1>3, <1>s, <1>1 DEF UnionInv, Accounted
<1>5. SentInOrder'
  <2> SUFFICES ASSUME NEW c \in Called
               PROVE  /\ \A d \in buffered' : c < d
                      /\ \A i \in 1..Count : \A x \in left'[i] : x \notin seen' => c < x
    BY <1>3, <1>1 DEF SentInOrder
  <2>1. b \notin seen => c < b
    BY <1>0, <1>1 DEF UnionInv, SentInOrder
  <2>2. \A d \in buffered' : c < d
    BY <2>1, <1>0, <1>d DEF received, UnionInv, SentInOrder
  <2> QED
    BY <2>2, <1>i, <1>s, Zenon DEF UnionInv, SentInOrder
<1>6. RoundSoFar'
  <2> SUFFICES ASSUME NEW i \in 1 .. at' - 1 PROVE Contributed(i)'
    BY DEF RoundSoFar
  <2>a. at' = at \/ (at' = at + 1 /\ b \in buffered')
    BY <1>0, <1>d DEF received
  <2>b. at \in Int /\ i \in 1..Count /\ i \in Int
    BY <1>1, <2>a
  <2>1. CASE i = at
    <3>0. b \in buffered'
      BY <2>1, <2>a, <2>b
    <3>1. b \in buffered' /\ left'[i] = left[at] \ {b}
      BY <2>1, <2>b, <1>i, <3>0, Zenon
    <3>2. \A x \in left'[i] : b < x
      BY <3>1, <1>0, <1>2, <1>1 DEF Least, UnionInv, UnionTypeOK
    <3> QED
      BY <3>1, <3>2 DEF Contributed
  <2>2. CASE i # at
    <3>1. i \in 1 .. at - 1
      BY <2>2, <2>a, <2>b
    <3>2. Contributed(i)
      BY <3>1, <1>1 DEF UnionInv, RoundSoFar
    <3>3. left'[i] = left[i] /\ routine'[i] = routine[i]
      BY <2>2, <2>b, <1>i, <1>1, Zenon DEF UnionInv, UnionTypeOK
    <3> QED
      BY <3>2, <3>3, <1>s DEF Contributed
  <2> QED
    BY <2>1, <2>2
<1>7. Ended'
  <2>1. \A i \in 1..Count : routine'[i] = "closed" => routine[i] = "closed" /\ i # at
    BY <1>1 DEF UnionInv, UnionTypeOK
  <2> QED
    BY <2>1, <1>1, <1>i, Zenon DEF UnionInv, Ended
<1> QED
  BY <1>t, <1>d, <1>4, <1>5, <1>6, <1>7 DEF UnionInv

LEMMA CallerEmits ==
    ASSUME UnionInv, caller = "merging", at = Count + 1, NEW b \in buffered, Least(b, buffered),
           calls' = Append(calls, b), data' = [data EXCEPT ![b] = @ - 1], at' = 1,
           UNCHANGED <<ms, left, routine, caller, seen>>
    PROVE  /\ UnionInv'
           /\ b \in Union \ Called
           /\ \A x \in Union : x < b => x \in Called
<1> Count \in Nat /\ ms \in [1..Count -> SUBSET AnyByte]
  BY FamilyType DEF UnionInv, UnionTypeOK
<1> ms' = ms => Count' = Count
  BY DEF Count
<1> \A x \in AnyByte : x \in Int
  BY DEF AnyByte
<1>1. b \in AnyByte /\ Count \in Nat /\ calls \in Seq(AnyByte) /\ buffered \subseteq AnyByte
  BY DEF UnionInv, UnionTypeOK, buffered
<1>d. data' \in [AnyByte -> Nat] /\ Once' /\ buffered' = buffered \ {b}
  BY RemoveByte, Zenon DEF UnionInv, UnionTypeOK
<1>2. Called' = Called \cup {b}
  <2>1. DOMAIN calls' = 1 .. Len(calls) + 1 /\ DOMAIN calls = 1 .. Len(calls)
    BY <1>1
  <2>2. \A k \in 1 .. Len(calls) : calls'[k] = calls[k]
    BY <1>1
  <2>3. calls'[Len(calls) + 1] = b
    BY <1>1
  <2> QED
    BY <2>1, <2>2, <2>3, <1>1, SMTT(40) DEF Called
<1>3. UnionTypeOK'
  BY <1>1, <1>d DEF UnionInv, UnionTypeOK
<1>4. Accounted'
  <2> Accounted
    BY DEF UnionInv
  <2>1. Union' = Union /\ Count' = Count /\ seen' = seen
    BY SMTT(40) DEF Union
  <2>2. b \notin Called
    BY DEF Accounted
  <2>3. seen' = buffered' \cup Called'
    BY <2>1, <1>2, <1>d DEF Accounted
  <2>4. buffered' \cap Called' = {}
    BY <2>2, <1>2, <1>d DEF Accounted
  <2>5. seen' \subseteq Union'
    BY <2>1 DEF Accounted
  <2>6. \A i \in 1..Count' : left'[i] \subseteq ms'[i] /\ ms'[i] \subseteq left'[i] \cup seen'
    BY <2>1 DEF Accounted
  <2> QED
    BY <2>3, <2>4, <2>5, <2>6 DEF Accounted
<1>5. \A i \in 1..Count : \A x \in left[i] : b < x
  <2> SUFFICES ASSUME NEW i \in 1..Count, NEW x \in left[i] PROVE b < x
    OBVIOUS
  <2>1. Contributed(i)
    BY DEF UnionInv, RoundSoFar
  <2>2. routine[i] # "closed"
    BY DEF UnionInv, Ended
  <2>3. PICK d \in buffered : \A y \in left[i] : d < y
    BY <2>1, <2>2 DEF Contributed
  <2>4. b <= d /\ d \in AnyByte /\ x \in AnyByte /\ d < x
    BY <2>3, <1>1 DEF Least, UnionInv, UnionTypeOK
  <2> QED
    BY <2>4, <1>1
<1>6. SentInOrder'
  <2> SUFFICES ASSUME NEW c \in Called \cup {b}
               PROVE  /\ \A d \in buffered \ {b} : c < d
                      /\ \A i \in 1..Count : \A x \in left[i] : x \notin seen => c < x
    BY <1>2, <1>d, Zenon DEF SentInOrder
  <2>1. CASE c \in Called
    BY <2>1 DEF UnionInv, SentInOrder
  <2>2. CASE c = b
    BY <2>2, <1>5, <1>1 DEF Least, UnionInv, UnionTypeOK
  <2> QED
    BY <2>1, <2>2
<1>7. RoundSoFar' /\ Ended'
  BY <1>2 DEF RoundSoFar, Ended, UnionInv
<1>8. b \in Union \ Called
  BY DEF UnionInv, Accounted
<1>9. ASSUME NEW x \in Union, x < b PROVE x \in Called
  <2>1. PICK i \in 1..Count : x \in ms[i]
    BY DEF Union
  <2>2. x \in AnyByte
    BY <2>1 DEF UnionInv, UnionTypeOK
  <2>3. x \notin left[i]
    BY <1>5, <1>9, <1>1, <2>2
  <2>4. x \in seen /\ x \notin buffered
    BY <2>1, <2>3, <2>2, <1>1, <1>9 DEF UnionInv, Accounted, Least
  <2> QED
    BY <2>4 DEF UnionInv, Accounted
<1> QED
  BY <1>3, <1>d, <1>4, <1>6, <1>7, <1>8, <1>9 DEF UnionInv

LEMMA CallerReturns == UnionInv /\ Return => UnionInv' /\ Union \subseteq Called
<1> SUFFICES ASSUME UnionInv, Return PROVE UnionInv' /\ Union \subseteq Called
  OBVIOUS
<1> Count \in Nat /\ ms \in [1..Count -> SUBSET AnyByte]
  BY FamilyType DEF UnionInv, UnionTypeOK
<1> ms' = ms => Count' = Count
  BY DEF Count
<1> \A b \in AnyByte : b \in Int
  BY DEF AnyByte
<1>1. \A i \in 1..Count : routine[i] = "closed" /\ left[i] = {}
  BY DEF Return, finished, UnionInv, UnionTypeOK, RoundSoFar, Contributed, Ended
<1>2. Union \subseteq Called
  BY <1>1 DEF Return, finished, UnionInv, Accounted, Union
<1>3. Called' = Called /\ Union' = Union
  BY DEF Return, Called, Union
<1>d. Once' /\ buffered' = buffered
  BY DEF Return, UnionInv, Once, buffered
<1>4. UnionTypeOK' /\ Accounted' /\ SentInOrder' /\ RoundSoFar'
  BY <1>3, <1>d DEF Return, UnionInv, UnionTypeOK, Accounted, SentInOrder, RoundSoFar
<1>5. Ended'
  BY <1>1, <1>2, <1>3 DEF Return, Ended
<1> QED
  BY <1>2, <1>d, <1>4, <1>5 DEF UnionInv

\* The other steps change neither the bytes nor the calls.
LEMMA OtherSteps ==
    ASSUME UnionInv,
           \/ ReturnEmpty \/ Spawn \/ ReceiveClosed
           \/ (\E i \in 1..Count : Goroutine(i)) \/ UNCHANGED unionVars
    PROVE  UnionInv' /\ UNCHANGED <<ms, calls, Called, Union>>
<1> Count \in Nat /\ ms \in [1..Count -> SUBSET AnyByte]
  BY FamilyType DEF UnionInv, UnionTypeOK
<1> ms' = ms => Count' = Count
  BY DEF Count
<1> \A b \in AnyByte : b \in Int
  BY DEF AnyByte
<1>1. UNCHANGED <<ms, left, data, seen, calls>>
  BY DEF ReturnEmpty, Spawn, ReceiveClosed, Goroutine, Offer, Close, unionVars
<1>2. UNCHANGED <<Called, Union>>
  BY <1>1 DEF Called, Union
<1>d. Once' /\ buffered' = buffered
  BY <1>1 DEF UnionInv, Once, buffered
<1>3. Accounted' /\ SentInOrder'
  BY <1>1, <1>2, <1>d DEF UnionInv, Accounted, SentInOrder
<1>4. UnionTypeOK' /\ RoundSoFar' /\ Ended'
  <2>1. CASE ReturnEmpty
    BY <2>1, <1>1, <1>2 DEF ReturnEmpty, UnionInv, UnionTypeOK, RoundSoFar, Ended, Union
  <2>2. CASE Spawn
    <3>1. UnionTypeOK'
      BY <2>2 DEF Spawn, UnionInv, UnionTypeOK
    <3>2. RoundSoFar'
      BY <2>2 DEF Spawn, UnionInv, UnionTypeOK, RoundSoFar
    <3>3. Ended'
      BY <2>2, <1>1, <1>2 DEF Spawn, UnionInv, UnionTypeOK, Ended
    <3> QED
      BY <3>1, <3>2, <3>3
  <2>3. CASE ReceiveClosed
    <3>1. UnionTypeOK'
      BY <2>3 DEF ReceiveClosed, UnionInv, UnionTypeOK
    <3>2. RoundSoFar'
      BY <2>3, <1>d DEF ReceiveClosed, UnionInv, UnionTypeOK, RoundSoFar, Contributed
    <3>3. Ended'
      BY <2>3, <1>1, <1>2 DEF ReceiveClosed, UnionInv, Ended
    <3> QED
      BY <3>1, <3>2, <3>3
  <2>4. CASE \E i \in 1..Count : Goroutine(i)
    <3>0. PICK i \in 1..Count : Goroutine(i)
      BY <2>4
    <3>1. UnionTypeOK'
      BY <3>0, Zenon DEF Goroutine, Offer, Close, UnionInv, UnionTypeOK
    <3>2. \A j \in 1..Count : routine[j] = "closed" => routine'[j] = "closed"
      BY <3>0 DEF Goroutine, Offer, Close, UnionInv, UnionTypeOK
    <3>3. RoundSoFar'
      BY <3>0, <3>2, <1>1, <1>d DEF Goroutine, Offer, Close, UnionInv, UnionTypeOK, RoundSoFar, Contributed
    <3>4. \A j \in 1..Count : routine'[j] = "closed" => left[j] = {}
      BY <3>0, Zenon DEF Goroutine, Offer, Close, UnionInv, UnionTypeOK, Ended
    <3>5. Ended'
      BY <3>0, <3>2, <3>4, <1>1, <1>2 DEF Goroutine, Offer, Close, UnionInv, Ended
    <3> QED
      BY <3>1, <3>3, <3>5
  <2>5. CASE UNCHANGED unionVars
    BY <2>5, <1>2, <1>d DEF unionVars, UnionInv, UnionTypeOK, RoundSoFar, Contributed, Ended
  <2> QED
    BY <2>1, <2>2, <2>3, <2>4, <2>5
<1> QED
  BY <1>1, <1>2, <1>d, <1>3, <1>4 DEF UnionInv

\* Every step of forEachUnion keeps the invariant and is a step of the contract,
\* or one that the contract does not see.
LEMMA EveryStep ==
    ASSUME UnionInv, [UnionNext]_unionVars
    PROVE  UnionInv' /\ [Contract!Next]_<<Union, calls, caller = "returned">>
<1>c. Contract!Called = Called
  BY DEF Contract!Called, Called
<1>1. CASE Receive
  <2>1. UnionInv' /\ UNCHANGED <<ms, calls, caller>>
    BY <1>1, CallerReceives, Zenon DEF Receive
  <2>2. Union' = Union
    BY <2>1 DEF Union, Count
  <2> QED
    BY <2>1, <2>2
<1>2. CASE Emit
  <2>1. PICK b \in buffered : /\ Least(b, buffered)
                            /\ calls' = Append(calls, b)
                            /\ data' = [data EXCEPT ![b] = @ - 1]
    BY <1>2, Zenon DEF Emit
  <2>2. caller = "merging" /\ at = Count + 1 /\ at' = 1 /\ UNCHANGED <<ms, left, routine, caller, seen>>
    BY <1>2 DEF Emit
  <2>3. /\ UnionInv'
        /\ b \in Union \ Called
        /\ \A x \in Union : x < b => x \in Called
    BY <2>1, <2>2, CallerEmits, Zenon
  <2>4. Union' = Union
    BY <2>2 DEF Union, Count
  <2>5. Contract!Call(b)
    BY <2>1, <2>2, <2>3, <2>4, <1>c DEF Contract!Call
  <2> QED
    BY <2>3, <2>5 DEF Contract!Next
<1>3. CASE Return
  <2>1. UnionInv' /\ Union \subseteq Called
    BY <1>3, CallerReturns
  <2>2. caller = "merging" /\ caller' = "returned" /\ UNCHANGED <<ms, calls>>
    BY <1>3 DEF Return
  <2>3. Union' = Union
    BY <2>2 DEF Union, Count
  <2>4. Contract!Return
    BY <2>1, <2>2, <2>3, <1>c DEF Contract!Return
  <2> QED
    BY <2>1, <2>4 DEF Contract!Next
<1>4. CASE ReturnEmpty
  <2>1. UnionInv' /\ UNCHANGED <<ms, calls, Called, Union>>
    BY <1>4, OtherSteps
  <2>2. caller = "spawning" /\ caller' = "returned" /\ Union = {}
    BY <1>4 DEF ReturnEmpty, Union
  <2>3. Contract!Return
    BY <2>1, <2>2, <1>c DEF Contract!Return
  <2> QED
    BY <2>1, <2>3 DEF Contract!Next
<1>5. CASE Spawn \/ ReceiveClosed \/ (\E i \in 1..Count : Goroutine(i)) \/ UNCHANGED unionVars
  <2>1. UnionInv' /\ UNCHANGED <<ms, calls, Called, Union>>
    BY <1>5, OtherSteps
  <2>2. (caller = "returned")' = (caller = "returned")
    BY <1>5 DEF Spawn, ReceiveClosed, Goroutine, Offer, Close, unionVars
  <2> QED
    BY <2>1, <2>2
<1> QED
  BY <1>1, <1>2, <1>3, <1>4, <1>5 DEF UnionNext, Caller

\* The inductive invariant holds in every reachable state.
THEOREM UnionInvariant == UnionSpec => []UnionInv
<1>1. UnionInit => UnionInv
  BY UnionInitInv
<1>2. UnionInv /\ [UnionNext]_unionVars => UnionInv'
  BY EveryStep
<1> QED
  BY <1>1, <1>2, PTL DEF UnionSpec

\* The types of forEachUnion's variables, for any number of matchers: f is only
\* called with bytes, and no byte is buffered a negative number of times.
THEOREM UnionTypeTheorem == UnionSpec => []UnionTypeOK
<1>1. UnionInv => UnionTypeOK
  BY DEF UnionInv
<1> QED
  BY <1>1, UnionInvariant, PTL

\* However many matchers are united and whatever they match, forEachUnion
\* leaves no goroutine behind.
THEOREM NoLeakTheorem == UnionSpec => []NoGoroutineLeak
<1>1. UnionInv => NoGoroutineLeak
  BY DEF UnionInv, Ended, NoGoroutineLeak
<1> QED
  BY <1>1, UnionInvariant, PTL

\* forEachUnion keeps the promise of Matcher.ForEach: one call for each byte of
\* the union, in ascending order, under every schedule of the goroutines.
THEOREM UnionRefinement == UnionSpec => ImplementsForEach
<1>1. UnionInit => Contract!Init
  BY DEF UnionInit, Contract!Init
<1>2. UnionInv /\ [UnionNext]_unionVars => [Contract!Next]_<<Union, calls, caller = "returned">>
  BY EveryStep
<1> QED
  BY <1>1, <1>2, UnionInvariant, PTL DEF UnionSpec, ImplementsForEach, Contract!Spec
=============================================================================
