-------------------------- MODULE Assembler_proofs --------------------------
(***************************************************************************)
(* Proofs about Assembler, for any list of items, any number of calls of   *)
(* Finish and any encoder that grows with the offset (EncoderGrows); and   *)
(* about Assembly: the encoder of opcode.go is one, and the bytecode that  *)
(* Finish writes decodes to the calls that were made.                      *)
(*                                                                         *)
(* The invariant bounds the length of every jump by what its distance      *)
(* needs: lengths only shrink, so distances only shrink, so the bounds     *)
(* stay true.  For a fixed jump it says by how much its offset may be too  *)
(* large: by what has been taken off the items in its span since.          *)
(***************************************************************************)
EXTENDS Assembly, Bytecode_proofs, WellFoundedInduction

-----------------------------------------------------------------------------
(* Induction. *)

\* Every nonempty set of naturals has a least element.
LEMMA LeastNat ==
    ASSUME NEW T, T \subseteq Nat, T # {}
    PROVE  \E n \in T : \A m \in T : n <= m
<1> DEFINE R == {ss \in Nat \X Nat : ss[1] < ss[2]}
<1>1. IsWellFoundedOn(R, Nat)
  BY NatLessThanWellFounded DEF OpToRel
<1> HIDE DEF R
<1>2. PICK n \in T : \A m \in T : ~ (<<m, n>> \in R)
  BY <1>1, WFMin, Zenon
<1>3. \A m \in T : m \in Nat /\ n \in Nat /\ ~ m < n
  BY <1>2, Zenon DEF R
<1> QED
  BY <1>3

\* A set that holds 0 and with m also m + 1 holds every natural.
LEMMA Induction ==
    ASSUME NEW G, G \subseteq Nat, 0 \in G, \A m \in G : m + 1 \in G
    PROVE  \A n \in Nat : n \in G
<1> DEFINE T == Nat \ G
<1>1. SUFFICES ASSUME T # {} PROVE FALSE
  OBVIOUS
<1>2. T \subseteq Nat
  OBVIOUS
<1>3. PICK n \in T : \A m \in T : n <= m
  <2> HIDE DEF T
  <2> QED
    BY <1>1, <1>2, LeastNat, Zenon
<1>4. n \in Nat /\ n # 0 /\ n \notin G
  OBVIOUS
<1>5. n - 1 \in Nat /\ ~ n <= n - 1 /\ (n - 1) + 1 = n
  BY <1>4
<1>6. n - 1 \in G
  BY <1>3, <1>5
<1> QED
  BY <1>4, <1>5, <1>6

-----------------------------------------------------------------------------
(* Sums. *)

\* g gives the partial sums of f over S.
Sums(g, f, S, n) ==
    \A k \in 0 .. n : g[k] = IF k = 0 THEN 0 ELSE g[k - 1] + IF k \in S THEN f[k] ELSE 0

Numbers(f, n) == \A k \in 1 .. n : f[k] \in Int

LEMMA SumIs ==
    ASSUME NEW n \in Nat, NEW f, NEW S, NEW g, Sums(g, f, S, n)
    PROVE  Sum(f, S, n) = g[n]
<1> DEFINE rhs(h) == [k \in 0 .. n |-> IF k = 0 THEN 0 ELSE h[k - 1] + IF k \in S THEN f[k] ELSE 0]
           t == CHOOSE h : h = rhs(h)
           w == [k \in 0 .. n |-> g[k]]
<1>1. Sum(f, S, n) = t[n]
  BY DEF Sum
<1>2. \A k \in 0 .. n : k # 0 => k - 1 \in 0 .. n
  OBVIOUS
<1>3. w = rhs(w)
  BY <1>2 DEF Sums
<1>4. t = rhs(t)
  BY <1>3, ZenonT(20)
<1> HIDE DEF t
<1>5. \A k \in 0 .. n : t[k] = IF k = 0 THEN 0 ELSE t[k - 1] + IF k \in S THEN f[k] ELSE 0
  BY <1>4
<1> DEFINE G == {k \in Nat : k <= n => t[k] = g[k]}
<1>6. 0 \in G
  BY <1>5 DEF Sums
<1>7. ASSUME NEW m \in G PROVE m + 1 \in G
  <2>1. m + 1 \in Nat /\ m + 1 # 0 /\ (m + 1) - 1 = m
    OBVIOUS
  <2>2. CASE m + 1 <= n
    <3>1. m + 1 \in 0 .. n /\ t[m] = g[m]
      BY <2>1, <2>2
    <3>2. t[m + 1] = t[m] + IF m + 1 \in S THEN f[m + 1] ELSE 0
      BY <1>5, <2>1, <3>1
    <3>3. g[m + 1] = g[m] + IF m + 1 \in S THEN f[m + 1] ELSE 0
      BY <2>1, <3>1 DEF Sums
    <3> QED
      BY <2>1, <3>1, <3>2, <3>3
  <2> QED
    BY <2>1, <2>2
<1>8. \A k \in Nat : k \in G
  <2>1. G \subseteq Nat
    OBVIOUS
  <2> HIDE DEF G
  <2> QED
    BY <1>6, <1>7, <2>1, Induction, Zenon
<1>9. t[n] = g[n]
  BY <1>8
<1> QED
  BY <1>1, <1>9

LEMMA SumsExist ==
    ASSUME NEW n \in Nat, NEW f, NEW S, Numbers(f, n)
    PROVE  \E g \in [0 .. n -> Int] : Sums(g, f, S, n)
<1> DEFINE G == {m \in Nat : m <= n => \E g \in [0 .. m -> Int] : Sums(g, f, S, m)}
<1>1. 0 \in G
  <2> DEFINE g == [k \in 0 .. 0 |-> 0]
  <2>1. g \in [0 .. 0 -> Int] /\ g[0] = 0
    OBVIOUS
  <2> HIDE DEF g
  <2>2. Sums(g, f, S, 0)
    BY <2>1 DEF Sums
  <2> QED
    BY <2>1, <2>2
<1>2. ASSUME NEW m \in G PROVE m + 1 \in G
  <2>1. SUFFICES ASSUME m + 1 <= n PROVE \E g \in [0 .. m + 1 -> Int] : Sums(g, f, S, m + 1)
    OBVIOUS
  <2>2. PICK h \in [0 .. m -> Int] : Sums(h, f, S, m)
    BY <2>1
  <2> DEFINE v == h[m] + IF m + 1 \in S THEN f[m + 1] ELSE 0
             g == [k \in 0 .. m + 1 |-> IF k <= m THEN h[k] ELSE v]
  <2>3. v \in Int
    BY <2>1 DEF Numbers
  <2> HIDE DEF v
  <2>4. g \in [0 .. m + 1 -> Int] /\ (\A k \in 0 .. m : g[k] = h[k]) /\ g[m + 1] = v
    BY <2>3
  <2> HIDE DEF g
  <2>5. ASSUME NEW k \in 0 .. m + 1
        PROVE  g[k] = IF k = 0 THEN 0 ELSE g[k - 1] + IF k \in S THEN f[k] ELSE 0
    <3>1. CASE k = m + 1
      <4>1. k # 0 /\ k - 1 = m /\ m \in 0 .. m
        BY <3>1
      <4> QED
        BY <2>4, <3>1, <4>1 DEF v
    <3>2. CASE k # m + 1
      <4>1. k \in 0 .. m /\ (k # 0 => k - 1 \in 0 .. m)
        BY <3>2
      <4> QED
        BY <2>2, <2>4, <4>1 DEF Sums
    <3> QED
      BY <3>1, <3>2
  <2> QED
    BY <2>4, <2>5, Zenon DEF Sums
<1>3. \A m \in Nat : m \in G
  <2>1. G \subseteq Nat
    OBVIOUS
  <2> HIDE DEF G
  <2> QED
    BY <1>1, <1>2, <2>1, Induction, Zenon
<1> QED
  BY <1>3

\* The recursion of Sum.
LEMMA SumNext ==
    ASSUME NEW n \in Nat, NEW f, NEW S, Numbers(f, n)
    PROVE  /\ Sum(f, S, n) \in Int
           /\ Sum(f, S, 0) = 0
           /\ n # 0 => Sum(f, S, n) = Sum(f, S, n - 1) + IF n \in S THEN f[n] ELSE 0
<1>1. PICK g \in [0 .. n -> Int] : Sums(g, f, S, n)
  BY SumsExist, Zenon
<1>2. Sum(f, S, n) = g[n] /\ g[n] \in Int
  BY <1>1, SumIs
<1>3. Sums(g, f, S, 0)
  BY <1>1 DEF Sums
<1>4. Sum(f, S, 0) = g[0] /\ g[0] = 0
  BY <1>3, SumIs DEF Sums
<1>5. ASSUME n # 0 PROVE Sum(f, S, n) = Sum(f, S, n - 1) + IF n \in S THEN f[n] ELSE 0
  <2>1. n - 1 \in Nat /\ 0 .. n - 1 \subseteq 0 .. n /\ n \in 0 .. n
    BY <1>5
  <2>2. Sums(g, f, S, n - 1)
    BY <1>1, <2>1 DEF Sums
  <2>3. Sum(f, S, n - 1) = g[n - 1]
    BY <2>1, <2>2, SumIs
  <2>4. g[n] = g[n - 1] + IF n \in S THEN f[n] ELSE 0
    BY <1>1, <1>5, <2>1 DEF Sums
  <2> QED
    BY <1>2, <2>3, <2>4
<1> QED
  BY <1>2, <1>4, <1>5

\* The sum depends on the numbers in S only.
LEMMA SumSame ==
    ASSUME NEW n \in Nat, NEW f, NEW g, NEW S, Numbers(f, n), Numbers(g, n),
           \A k \in 1 .. n : k \in S => f[k] = g[k]
    PROVE  Sum(f, S, n) = Sum(g, S, n)
<1> DEFINE G == {m \in Nat : m <= n => Sum(f, S, m) = Sum(g, S, m)}
<1>1. 0 \in G
  <2>1. Numbers(f, 0) /\ Numbers(g, 0)
    BY DEF Numbers
  <2> QED
    BY <2>1, SumNext
<1>2. ASSUME NEW m \in G PROVE m + 1 \in G
  <2>1. SUFFICES ASSUME m + 1 <= n PROVE Sum(f, S, (m + 1)) = Sum(g, S, (m + 1))
    OBVIOUS
  <2>2. m + 1 \in Nat /\ m + 1 # 0 /\ (m + 1) - 1 = m /\ m + 1 \in 1 .. n /\ m <= n
    BY <2>1
  <2>3. Numbers(f, m + 1) /\ Numbers(f, m) /\ Numbers(g, m + 1) /\ Numbers(g, m)
    BY <2>2 DEF Numbers
  <2>4. /\ Sum(f, S, m) \in Int
        /\ Sum(f, S, m + 1) = Sum(f, S, m) + IF m + 1 \in S THEN f[m + 1] ELSE 0
    BY <2>2, <2>3, SumNext
  <2>5. /\ Sum(g, S, m) \in Int
        /\ Sum(g, S, m + 1) = Sum(g, S, m) + IF m + 1 \in S THEN g[m + 1] ELSE 0
    BY <2>2, <2>3, SumNext
  <2>6. Sum(f, S, m) = Sum(g, S, m) /\ (m + 1 \in S => f[m + 1] = g[m + 1])
    BY <2>2
  <2> QED
    BY <2>4, <2>5, <2>6
<1>3. \A m \in Nat : m \in G
  <2>1. G \subseteq Nat
    OBVIOUS
  <2> HIDE DEF G
  <2> QED
    BY <1>1, <1>2, <2>1, Induction, Zenon
<1> QED
  BY <1>3

\* What changing one number does to the sum.
LEMMA SumShift ==
    ASSUME NEW n \in Nat, NEW f, NEW g, NEW S, Numbers(f, n), Numbers(g, n),
           NEW k \in Nat, \A j \in 1 .. n : j # k => f[j] = g[j]
    PROVE  Sum(g, S, n) = Sum(f, S, n) + IF k \in S /\ k \in 1 .. n THEN g[k] - f[k] ELSE 0
<1> DEFINE G == {m \in Nat : m <= n => Sum(g, S, m) = Sum(f, S, m)
                                + IF k \in S /\ k \in 1 .. m THEN g[k] - f[k] ELSE 0}
<1>1. 0 \in G
  <2>1. Numbers(f, 0) /\ Numbers(g, 0)
    BY DEF Numbers
  <2> QED
    BY <2>1, SumNext
<1>2. ASSUME NEW m \in G PROVE m + 1 \in G
  <2>1. SUFFICES ASSUME m + 1 <= n
                 PROVE  Sum(g, S, (m + 1)) = Sum(f, S, (m + 1))
                            + IF k \in S /\ k \in 1 .. (m + 1) THEN g[k] - f[k] ELSE 0
    OBVIOUS
  <2>2. m + 1 \in Nat /\ m + 1 # 0 /\ (m + 1) - 1 = m /\ m + 1 \in 1 .. n /\ m <= n
    BY <2>1
  <2>3. Numbers(f, m + 1) /\ Numbers(f, m) /\ Numbers(g, m + 1) /\ Numbers(g, m)
    BY <2>2 DEF Numbers
  <2>4. /\ Sum(f, S, m) \in Int
        /\ Sum(f, S, m + 1) = Sum(f, S, m) + IF m + 1 \in S THEN f[m + 1] ELSE 0
    BY <2>2, <2>3, SumNext
  <2>5. /\ Sum(g, S, m) \in Int
        /\ Sum(g, S, m + 1) = Sum(g, S, m) + IF m + 1 \in S THEN g[m + 1] ELSE 0
    BY <2>2, <2>3, SumNext
  <2>6. Sum(g, S, m) = Sum(f, S, m) + IF k \in S /\ k \in 1 .. m THEN g[k] - f[k] ELSE 0
    BY <2>2
  <2>7. CASE k = m + 1
    <3>1. k \notin 1 .. m /\ k \in 1 .. m + 1 /\ f[k] \in Int /\ g[k] \in Int
      BY <2>2, <2>3, <2>7 DEF Numbers
    <3> QED
      BY <2>4, <2>5, <2>6, <2>7, <3>1
  <2>8. CASE k # m + 1
    <3>1. (k \in 1 .. m <=> k \in 1 .. m + 1) /\ f[m + 1] = g[m + 1]
      BY <2>2, <2>8
    <3>2. f[m + 1] \in Int /\ (k \in 1 .. m => f[k] \in Int /\ g[k] \in Int)
      BY <2>2, <2>3 DEF Numbers
    <3> QED
      BY <2>4, <2>5, <2>6, <3>1, <3>2
  <2> QED
    BY <2>7, <2>8
<1>3. \A m \in Nat : m \in G
  <2>1. G \subseteq Nat
    OBVIOUS
  <2> HIDE DEF G
  <2> QED
    BY <1>1, <1>2, <2>1, Induction, Zenon
<1> QED
  BY <1>3

\* The sum over two sets without a common element.
LEMMA SumSplit ==
    ASSUME NEW n \in Nat, NEW f, NEW S, NEW T, Numbers(f, n), S \cap T = {}
    PROVE  Sum(f, S \cup T, n) = Sum(f, S, n) + Sum(f, T, n)
<1> DEFINE G == {m \in Nat : m <= n => Sum(f, S \cup T, m) = Sum(f, S, m) + Sum(f, T, m)}
<1>1. 0 \in G
  <2>1. Numbers(f, 0)
    BY DEF Numbers
  <2> QED
    BY <2>1, SumNext
<1>2. ASSUME NEW m \in G PROVE m + 1 \in G
  <2>1. SUFFICES ASSUME m + 1 <= n PROVE Sum(f, S \cup T, (m + 1)) = Sum(f, S, (m + 1)) + Sum(f, T, (m + 1))
    OBVIOUS
  <2>2. m + 1 \in Nat /\ m + 1 # 0 /\ (m + 1) - 1 = m /\ m + 1 \in 1 .. n /\ m <= n
    BY <2>1
  <2>3. Numbers(f, m + 1) /\ Numbers(f, m)
    BY <2>2 DEF Numbers
  <2>4. /\ Sum(f, S, m) \in Int
        /\ Sum(f, S, m + 1) = Sum(f, S, m) + IF m + 1 \in S THEN f[m + 1] ELSE 0
    BY <2>2, <2>3, SumNext
  <2>5. /\ Sum(f, T, m) \in Int
        /\ Sum(f, T, m + 1) = Sum(f, T, m) + IF m + 1 \in T THEN f[m + 1] ELSE 0
    BY <2>2, <2>3, SumNext
  <2>6. /\ Sum(f, (S \cup T), m) \in Int
        /\ Sum(f, (S \cup T), m + 1) = Sum(f, (S \cup T), m) + IF m + 1 \in (S \cup T) THEN f[m + 1] ELSE 0
    BY <2>2, <2>3, SumNext
  <2>7. Sum(f, S \cup T, m) = Sum(f, S, m) + Sum(f, T, m)
    BY <2>2
  <2>8. f[m + 1] \in Int /\ ~ (m + 1 \in S /\ m + 1 \in T)
    BY <2>2, <2>3 DEF Numbers
  <2> QED
    BY <2>4, <2>5, <2>6, <2>7, <2>8
<1>3. \A m \in Nat : m \in G
  <2>1. G \subseteq Nat
    OBVIOUS
  <2> HIDE DEF G
  <2> QED
    BY <1>1, <1>2, <2>1, Induction, Zenon
<1> QED
  BY <1>3

\* Sums of naturals are naturals, and no less than each of the numbers.
LEMMA SumNat ==
    ASSUME NEW n \in Nat, NEW f, NEW S, \A k \in 1 .. n : f[k] \in Nat
    PROVE  Sum(f, S, n) \in Nat /\ \A k \in 1 .. n : k \in S => f[k] <= Sum(f, S, n)
<1> DEFINE G == {m \in Nat : m <= n => Sum(f, S, m) \in Nat /\ \A k \in 1 .. m : k \in S => f[k] <= Sum(f, S, m)}
<1>1. 0 \in G
  <2>1. Numbers(f, 0)
    BY DEF Numbers
  <2> QED
    BY <2>1, SumNext
<1>2. ASSUME NEW m \in G PROVE m + 1 \in G
  <2>1. SUFFICES ASSUME m + 1 <= n
                 PROVE  /\ Sum(f, S, (m + 1)) \in Nat
                        /\ \A k \in 1 .. (m + 1) : k \in S => f[k] <= Sum(f, S, (m + 1))
    OBVIOUS
  <2>2. m + 1 \in Nat /\ m + 1 # 0 /\ (m + 1) - 1 = m /\ m + 1 \in 1 .. n /\ m <= n
    BY <2>1
  <2>3. Numbers(f, m + 1) /\ Numbers(f, m)
    BY <2>2 DEF Numbers
  <2>4. /\ Sum(f, S, m) \in Int
        /\ Sum(f, S, m + 1) = Sum(f, S, m) + IF m + 1 \in S THEN f[m + 1] ELSE 0
    BY <2>2, <2>3, SumNext
  <2>5. Sum(f, S, m) \in Nat /\ \A k \in 1 .. m : k \in S => f[k] <= Sum(f, S, m)
    BY <2>2
  <2>6. f[m + 1] \in Nat /\ \A k \in 1 .. m : f[k] \in Nat
    BY <2>2
  <2>7. Sum(f, S, m + 1) \in Nat /\ Sum(f, S, m) <= Sum(f, S, m + 1)
        /\ (m + 1 \in S => f[m + 1] <= Sum(f, S, m + 1))
    BY <2>4, <2>5, <2>6
  <2>8. ASSUME NEW k \in 1 .. m + 1, k \in S PROVE f[k] <= Sum(f, S, m + 1)
    <3>1. k = m + 1 \/ k \in 1 .. m
      OBVIOUS
    <3> QED
      BY <2>5, <2>6, <2>7, <2>8, <3>1
  <2> QED
    BY <2>7, <2>8
<1>3. \A m \in Nat : m \in G
  <2>1. G \subseteq Nat
    OBVIOUS
  <2> HIDE DEF G
  <2> QED
    BY <1>1, <1>2, <2>1, Induction, Zenon
<1> QED
  BY <1>3

\* Numbers past the end of S do not count.
LEMMA SumTail ==
    ASSUME NEW n \in Nat, NEW f, NEW S, Numbers(f, n + 1), n + 1 \notin S
    PROVE  Sum(f, S, n + 1) = Sum(f, S, n)
<1>1. n + 1 \in Nat /\ n + 1 # 0 /\ (n + 1) - 1 = n /\ Numbers(f, n)
  BY DEF Numbers
<1>2. Sum(f, S, n) \in Int /\ Sum(f, S, n + 1) = Sum(f, S, n) + 0
  BY <1>1, SumNext
<1> QED
  BY <1>2

-----------------------------------------------------------------------------
(* Concatenations. *)

\* g gives the concatenations of the first sequences of f.
Concats(g, f, n) ==
    \A k \in 0 .. n : g[k] = IF k = 0 THEN <<>> ELSE g[k - 1] \o f[k]

LEMMA ConcatIs ==
    ASSUME NEW n \in Nat, NEW f, NEW g, Concats(g, f, n)
    PROVE  Concat(f, n) = g[n]
<1> DEFINE rhs(h) == [k \in 0 .. n |-> IF k = 0 THEN <<>> ELSE h[k - 1] \o f[k]]
           t == CHOOSE h : h = rhs(h)
           w == [k \in 0 .. n |-> g[k]]
<1>1. Concat(f, n) = t[n]
  BY DEF Concat
<1>2. \A k \in 0 .. n : k # 0 => k - 1 \in 0 .. n
  OBVIOUS
<1>3. w = rhs(w)
  BY <1>2 DEF Concats
<1>4. t = rhs(t)
  <2> HIDE DEF rhs, w
  <2> QED
    BY <1>3, Zenon
<1> HIDE DEF t
<1>5. \A k \in 0 .. n : t[k] = IF k = 0 THEN <<>> ELSE t[k - 1] \o f[k]
  BY <1>4
<1> DEFINE G == {k \in Nat : k <= n => t[k] = g[k]}
<1>6. 0 \in G
  BY <1>5 DEF Concats
<1>7. ASSUME NEW m \in G PROVE m + 1 \in G
  <2>1. SUFFICES ASSUME m + 1 <= n PROVE t[m + 1] = g[m + 1]
    OBVIOUS
  <2>2. m + 1 \in 0 .. n /\ m + 1 # 0 /\ (m + 1) - 1 = m /\ t[m] = g[m]
    BY <2>1
  <2>3. t[m + 1] = t[m] \o f[m + 1]
    BY <1>5, <2>2, Zenon
  <2>4. g[m + 1] = g[m] \o f[m + 1]
    BY <2>2, Zenon DEF Concats
  <2> QED
    BY <2>2, <2>3, <2>4
<1>8. \A k \in Nat : k \in G
  <2>1. G \subseteq Nat
    OBVIOUS
  <2> HIDE DEF G
  <2> QED
    BY <1>6, <1>7, <2>1, Induction, Zenon
<1>9. t[n] = g[n]
  BY <1>8
<1> QED
  BY <1>1, <1>9

LEMMA ConcatsExist ==
    ASSUME NEW n \in Nat, NEW f
    PROVE  \E g : Concats(g, f, n)
<1> DEFINE G == {m \in Nat : \E g : Concats(g, f, m)}
<1>1. 0 \in G
  <2>1. Concats([k \in 0 .. 0 |-> <<>>], f, 0)
    BY DEF Concats
  <2> QED
    BY <2>1
<1>2. ASSUME NEW m \in G PROVE m + 1 \in G
  <2>1. PICK h : Concats(h, f, m)
    OBVIOUS
  <2> DEFINE v == h[m] \o f[m + 1]
             g == [k \in 0 .. m + 1 |-> IF k <= m THEN h[k] ELSE v]
  <2> HIDE DEF v
  <2>2. (\A k \in 0 .. m : g[k] = h[k]) /\ g[m + 1] = v
    OBVIOUS
  <2> HIDE DEF g
  <2>3. ASSUME NEW k \in 0 .. m + 1
        PROVE  g[k] = IF k = 0 THEN <<>> ELSE g[k - 1] \o f[k]
    <3>1. CASE k = m + 1
      <4>1. k # 0 /\ k - 1 = m /\ m \in 0 .. m
        BY <3>1
      <4> QED
        BY <2>2, <3>1, <4>1, Zenon DEF v
    <3>2. CASE k # m + 1
      <4>1. k \in 0 .. m /\ (k # 0 => k - 1 \in 0 .. m)
        BY <3>2
      <4> QED
        BY <2>1, <2>2, <4>1 DEF Concats
    <3> QED
      BY <3>1, <3>2
  <2>4. Concats(g, f, m + 1)
    BY <2>3, Zenon DEF Concats
  <2> QED
    BY <2>4
<1>3. \A m \in Nat : m \in G
  <2>1. G \subseteq Nat
    OBVIOUS
  <2> HIDE DEF G
  <2> QED
    BY <1>1, <1>2, <2>1, Induction, Zenon
<1> QED
  BY <1>3

\* The recursion of Concat.
LEMMA ConcatNext ==
    ASSUME NEW n \in Nat, NEW f
    PROVE  /\ Concat(f, 0) = <<>>
           /\ Concat(f, n + 1) = Concat(f, n) \o f[n + 1]
<1>0. n + 1 \in Nat /\ n + 1 # 0 /\ (n + 1) - 1 = n /\ 0 .. n \subseteq 0 .. n + 1 /\ n + 1 \in 0 .. n + 1
  OBVIOUS
<1>1. PICK g : Concats(g, f, n + 1)
  BY <1>0, ConcatsExist, Zenon
<1>2. Concats(g, f, n) /\ Concats(g, f, 0)
  BY <1>0, <1>1 DEF Concats
<1>3. Concat(f, n + 1) = g[n + 1] /\ Concat(f, n) = g[n] /\ Concat(f, 0) = g[0]
  BY <1>0, <1>1, <1>2, ConcatIs
<1>4. g[n + 1] = g[n] \o f[n + 1]
  BY <1>0, <1>1, Zenon DEF Concats
<1>5. g[0] = <<>>
  BY <1>2 DEF Concats
<1> QED
  BY <1>3, <1>4, <1>5, Zenon

LEMMA JoinedSeqs ==
    ASSUME NEW S, NEW s \in Seq(S), NEW t \in Seq(S)
    PROVE  s \o t \in Seq(S) /\ s \o <<>> = s
OBVIOUS

\* Concat of sequences is a sequence, and what it starts with stays.
LEMMA ConcatPrefix ==
    ASSUME NEW n \in Nat, NEW f, NEW S, \A k \in 1 .. n : f[k] \in Seq(S), NEW k \in 0 .. n
    PROVE  /\ Concat(f, n) \in Seq(S) /\ Concat(f, k) \in Seq(S)
           /\ Len(Concat(f, k)) <= Len(Concat(f, n))
           /\ \A i \in 1 .. Len(Concat(f, k)) : Concat(f, n)[i] = Concat(f, k)[i]
<1> DEFINE c(m) == Concat(f, m)
           G == {m \in Nat : m <= n => c(m) \in Seq(S)}
<1> HIDE DEF c
<1>0. c(0) = <<>> /\ \A m \in Nat : c(m + 1) = c(m) \o f[m + 1]
  BY ConcatNext, Zenon DEF c
<1>1. 0 \in G
  <2>1. <<>> \in Seq(S)
    OBVIOUS
  <2> QED
    BY <1>0, <2>1, Zenon
<1>2. ASSUME NEW m \in G PROVE m + 1 \in G
  <2>1. SUFFICES ASSUME m + 1 <= n PROVE c(m + 1) \in Seq(S)
    OBVIOUS
  <2>2. m \in Nat /\ m <= n /\ c(m) \in Seq(S) /\ f[m + 1] \in Seq(S)
    BY <2>1
  <2> QED
    BY <1>0, <2>2, JoinedSeqs, Zenon
<1>3. \A m \in Nat : m \in G
  <2>1. G \subseteq Nat
    OBVIOUS
  <2> HIDE DEF G
  <2> QED
    BY <1>1, <1>2, <2>1, Induction, Zenon
<1>4. \A m \in 0 .. n : c(m) \in Seq(S) /\ Len(c(m)) \in Nat
  BY <1>3
<1> DEFINE H == {m \in Nat : k + m <= n =>
                   /\ Len(c(k)) <= Len(c(k + m))
                   /\ \A i \in 1 .. Len(c(k)) : c(k + m)[i] = c(k)[i]}
<1>5. 0 \in H
  <2>1. k + 0 = k /\ Len(c(k)) \in Nat
    BY <1>4
  <2> QED
    BY <2>1
<1>6. ASSUME NEW m \in H PROVE m + 1 \in H
  <2>1. SUFFICES ASSUME k + (m + 1) <= n
                 PROVE  /\ Len(c(k)) <= Len(c(k + (m + 1)))
                        /\ \A i \in 1 .. Len(c(k)) : c(k + (m + 1))[i] = c(k)[i]
    OBVIOUS
  <2> DEFINE j == k + m
  <2>2. j \in 0 .. n /\ j \in Nat /\ k + (m + 1) = j + 1 /\ j + 1 \in 1 .. n
    BY <2>1
  <2>3. Len(c(k)) <= Len(c(j)) /\ \A i \in 1 .. Len(c(k)) : c(j)[i] = c(k)[i]
    BY <2>2
  <2> HIDE DEF j
  <2>4. c(j) \in Seq(S) /\ f[j + 1] \in Seq(S) /\ Len(c(j)) \in Nat /\ Len(c(k)) \in Nat
        /\ Len(f[j + 1]) \in Nat
    BY <1>4, <2>2
  <2>5. /\ Len(c(j + 1)) = Len(c(j)) + Len(f[j + 1])
        /\ \A i \in 1 .. Len(c(j)) : c(j + 1)[i] = c(j)[i]
    <3>1. c(j + 1) = c(j) \o f[j + 1]
      BY <1>0, <2>2, Zenon
    <3> DEFINE s == c(j)
               t == f[j + 1]
    <3>2. /\ Len(s \o t) = Len(s) + Len(t)
          /\ \A i \in 1 .. Len(s) + Len(t) : (s \o t)[i] = IF i <= Len(s) THEN s[i] ELSE t[i - Len(s)]
      BY <2>4
    <3> QED
      BY <2>4, <3>1, <3>2
  <2>6. 1 .. Len(c(k)) \subseteq 1 .. Len(c(j))
    BY <2>3, <2>4
  <2> QED
    BY <2>2, <2>3, <2>4, <2>5, <2>6
<1>7. \A m \in Nat : m \in H
  <2>1. H \subseteq Nat
    OBVIOUS
  <2> HIDE DEF H
  <2> QED
    BY <1>5, <1>6, <2>1, Induction, Zenon
<1>8. n - k \in Nat /\ k + (n - k) = n /\ n \in 0 .. n
  OBVIOUS
<1>9. /\ Len(c(k)) <= Len(c(n))
      /\ \A i \in 1 .. Len(c(k)) : c(n)[i] = c(k)[i]
  <2> DEFINE m == n - k
  <2>1. m \in Nat /\ k + m = n /\ k + m <= n
    BY <1>8
  <2> HIDE DEF m
  <2>2. m \in H
    BY <1>7, <2>1
  <2>3. /\ Len(c(k)) <= Len(c(k + m))
        /\ \A i \in 1 .. Len(c(k)) : c(k + m)[i] = c(k)[i]
    BY <2>1, <2>2
  <2> QED
    BY <2>1, <2>3, Zenon
<1> QED
  BY <1>4, <1>8, <1>9 DEF c

-----------------------------------------------------------------------------
(* The inductive invariant. *)

\* The list, what is known of its items, and the positions of its labels.
Struct ==
    /\ List \in Seq(Call \cup Name) /\ N <= MaxItems
    /\ XP \in Seq(Nat \cup {Unknown}) /\ Len(XP) = N
    /\ Fixed \in Seq(BOOLEAN) /\ Len(Fixed) = N
    /\ Imm \in Seq(Int) /\ Len(Imm) = N /\ \A k \in 1..N : Imm[k] \in Offsets
    /\ MaxLength \in Seq(Nat) /\ Len(MaxLength) = N
    /\ \A k \in 1..N : MaxLength[k] <= MaxOpLength
    /\ saved \in Seq(Nat) /\ Len(saved) = N
    /\ Index \in [Name -> 0..N]
    /\ \A l \in Name : Seen(l) => List[Index[l]] = l
    /\ \A k \in 1..N : IF IsOp(k) THEN Accepts(List[k]) ELSE Index[List[k]] = k

\* Total, written with MaxLength, which is every item's size.
Lengths(S) == Sum(MaxLength, S, N)

\* distance, likewise.
Offset(k) == IF Forward(k) THEN Lengths(Span(k)) ELSE - Lengths(Span(k))

\* The length of a fixed item is final; that of any other is no less than what
\* its offset needs now, or, without a label, what any offset needs.
ItemOK(k) ==
    /\ ~ IsOp(k) => Fixed[k] /\ MaxLength[k] = 0
    /\ IsOp(k) => MaxLength[k] # 0
    /\ IsOp(k) /\ Fixed[k] => MaxLength[k] = encoded(k, Imm[k])
    /\ ~ Fixed[k] => /\ k \in Jumps
                     /\ IF Seen(List[k].label) THEN encoded(k, Offset(k)) <= MaxLength[k]
                                               ELSE MaxLength[k] = encoded(k, MaxOffset)
    /\ Fixed[k] /\ k \in Jumps => Seen(List[k].label)

\* By how much an offset is too large.
Over(k) == (IF Forward(k) THEN Imm[k] ELSE - Imm[k]) - Lengths(Span(k))

\* A fixed jump leads too far only by what was saved in its span.
JumpOK(k) == Fixed[k] => Over(k) \in 0 .. Saved(Span(k))

Items == (\A k \in 1..N : ItemOK(k)) /\ (\A k \in Jumps : JumpOK(k))

-----------------------------------------------------------------------------
(* Sizes and distances. *)

LEMMA Parts ==
    ASSUME Struct
    PROVE  /\ N \in Nat /\ DOMAIN List = 1..N
           /\ DOMAIN XP = 1..N /\ DOMAIN Fixed = 1..N /\ DOMAIN Imm = 1..N
           /\ DOMAIN MaxLength = 1..N /\ DOMAIN saved = 1..N
           /\ \A k \in 1..N : /\ XP[k] \in Nat \cup {Unknown} /\ Fixed[k] \in BOOLEAN
                              /\ Imm[k] \in Int /\ Imm[k] \in Offsets
                              /\ MaxLength[k] \in Nat /\ saved[k] \in Nat
                              /\ IsOp(k) => List[k] \in Call /\ Accepts(List[k])
           /\ Numbers(MaxLength, N) /\ Numbers(saved, N)
<1>1. N \in Nat /\ DOMAIN List = 1..N
  BY DEF Struct, N
<1>2. /\ DOMAIN XP = 1..N /\ DOMAIN Fixed = 1..N /\ DOMAIN Imm = 1..N
      /\ DOMAIN MaxLength = 1..N /\ DOMAIN saved = 1..N
  BY <1>1 DEF Struct
<1>3. \A k \in 1..N : MaxLength[k] \in Nat /\ saved[k] \in Nat /\ Imm[k] \in Int
  BY <1>2 DEF Struct
<1>7. \A k \in 1..N : Imm[k] \in Offsets
  BY Zenon DEF Struct
<1>4. \A k \in 1..N : XP[k] \in Nat \cup {Unknown} /\ Fixed[k] \in BOOLEAN
  BY <1>2 DEF Struct
<1>5. \A k \in 1..N : IsOp(k) => List[k] \in Call /\ Accepts(List[k])
  BY <1>1 DEF Struct, IsOp
<1>6. Numbers(MaxLength, N) /\ Numbers(saved, N)
  BY <1>3 DEF Numbers
<1> QED
  BY <1>1, <1>2, <1>3, <1>4, <1>5, <1>6, <1>7

\* A jump waits for a label; what lies between a jump and its label is in the
\* list.
LEMMA Spans ==
    ASSUME Struct, NEW k \in Jumps
    PROVE  /\ k \in 1..N /\ IsOp(k) /\ List[k] \in Call /\ Accepts(List[k])
           /\ List[k].label \in Name
           /\ Index[List[k].label] \in 0..N
           /\ Seen(List[k].label) => /\ Span(k) \subseteq 1..N
                                     /\ Index[List[k].label] # k
                                     /\ k \in Span(k) <=> ~ Forward(k)
<1>1. k \in 1..N /\ IsOp(k) /\ List[k].label # None
  BY DEF Jumps
<1>2. List[k] \in Call /\ Accepts(List[k]) /\ N \in Nat
  BY <1>1, Parts
<1>3. List[k].label \in Name
  BY <1>1, <1>2, BoundsAssumption
<1>4. Index[List[k].label] \in 0..N
  BY <1>3 DEF Struct
<1>5. ASSUME Seen(List[k].label) PROVE Index[List[k].label] # k /\ Index[List[k].label] \in 1..N
  <2>1. List[Index[List[k].label]] = List[k].label
    BY <1>3, <1>5 DEF Struct
  <2>2. Index[List[k].label] # 0
    BY <1>5 DEF Seen
  <2>3. List[k] \notin Name
    BY <1>1 DEF IsOp
  <2> QED
    BY <1>2, <1>3, <1>4, <2>1, <2>2, <2>3
<1>6. ASSUME Seen(List[k].label) PROVE Span(k) \subseteq 1..N /\ (k \in Span(k) <=> ~ Forward(k))
  <2> DEFINE q == Index[List[k].label]
  <2>1. q \in 1..N /\ q # k /\ k \in 1..N
    BY <1>1, <1>5, <1>6
  <2>2. Span(k) = IF k + 1 > q THEN q .. k ELSE k + 1 .. q - 1
    BY DEF Span
  <2>3. Forward(k) <=> q > k
    BY DEF Forward
  <2> HIDE DEF q
  <2> QED
    BY <1>2, <2>1, <2>2, <2>3
<1> QED
  BY <1>1, <1>2, <1>3, <1>4, <1>5, <1>6

\* A sum of lengths is an offset.
LEMMA SumFits ==
    ASSUME NEW n \in Nat, n <= MaxItems, NEW f, NEW S,
           \A k \in 1..n : f[k] \in Nat /\ f[k] <= MaxOpLength
    PROVE  Sum(f, S, n) \in Nat /\ Sum(f, S, n) <= MaxOffset
<1> DEFINE G == {m \in Nat : m <= n => Sum(f, S, m) <= MaxOpLength * m}
<1>0. \A m \in Nat : m <= n => Numbers(f, m)
  BY DEF Numbers
<1>1. 0 \in G
  <2>1. Numbers(f, 0) /\ 0 \in Nat
    BY DEF Numbers
  <2>2. Sum(f, S, 0) = 0
    BY <2>1, SumNext
  <2> QED
    BY <2>2 DEF MaxOpLength
<1>2. ASSUME NEW m \in G PROVE m + 1 \in G
  <2>1. SUFFICES ASSUME m + 1 <= n PROVE Sum(f, S, m + 1) <= MaxOpLength * (m + 1)
    OBVIOUS
  <2>2. m + 1 \in Nat /\ m + 1 # 0 /\ (m + 1) - 1 = m /\ m + 1 \in 1..n /\ m <= n /\ m \in Nat
    BY <2>1
  <2>3. Numbers(f, m + 1) /\ Numbers(f, m)
    BY <1>0, <2>1, <2>2
  <2>4. /\ Sum(f, S, m) \in Int
        /\ Sum(f, S, m + 1) = Sum(f, S, m) + IF m + 1 \in S THEN f[m + 1] ELSE 0
    BY <2>2, <2>3, SumNext
  <2>5. Sum(f, S, m) <= MaxOpLength * m
    BY <2>2
  <2>6. f[m + 1] \in Nat /\ f[m + 1] <= MaxOpLength
    BY <2>2
  <2> QED
    BY <2>2, <2>4, <2>5, <2>6 DEF MaxOpLength
<1>3. n \in G
  <2>1. G \subseteq Nat
    OBVIOUS
  <2> HIDE DEF G
  <2> QED
    BY <1>1, <1>2, <2>1, Induction, Zenon
<1>4. Sum(f, S, n) \in Nat
  BY SumNat
<1> QED
  BY <1>3, <1>4, BoundsAssumption DEF MaxOpLength

\* Lengths are sums of naturals, and fit into an offset.
LEMMA LengthsType ==
    ASSUME Struct, NEW S
    PROVE  /\ Lengths(S) \in Nat /\ Saved(S) \in Nat
           /\ Lengths(S) <= MaxOffset
           /\ \A k \in 1..N : k \in S => MaxLength[k] <= Lengths(S) /\ saved[k] <= Saved(S)
<1>1. N \in Nat /\ \A k \in 1..N : MaxLength[k] \in Nat /\ saved[k] \in Nat
  BY Parts
<1>2. Sum(MaxLength, S, N) <= MaxOffset
  BY <1>1, SumFits DEF Struct
<1> QED
  BY <1>1, <1>2, SumNat DEF Lengths, Saved

\* Every item's size is its MaxLength.
LEMMA SizeIs ==
    ASSUME Struct, NEW k \in 1..N, ItemOK(k)
    PROVE  Size(k) = MaxLength[k] /\ (Fixed[k] => Len(Bytes(k)) = MaxLength[k])
<1>1. CASE ~ Fixed[k]
  BY <1>1 DEF Size
<1>2. CASE Fixed[k] /\ IsOp(k)
  BY <1>2 DEF Size, Bytes, ItemOK, encoded
<1>3. CASE Fixed[k] /\ ~ IsOp(k)
  BY <1>3 DEF Size, Bytes, ItemOK
<1> QED
  BY <1>1, <1>2, <1>3

\* So distance is Offset.
LEMMA DistanceIs ==
    ASSUME Struct, Items
    PROVE  /\ \A S : Total(S) = Lengths(S)
           /\ \A k \in Jumps : distance(k) = Offset(k) /\ Offset(k) \in Offsets
<1> DEFINE f == [k \in 1..N |-> Size(k)]
<1>1. /\ N \in Nat /\ Numbers(MaxLength, N)
  BY Parts
<1>2. \A k \in 1..N : f[k] = MaxLength[k]
  BY SizeIs DEF Items
<1> HIDE DEF f
<1>3. Numbers(f, N)
  BY <1>1, <1>2 DEF Numbers
<1>4. \A S : Sum(f, S, N) = Sum(MaxLength, S, N)
  BY <1>1, <1>2, <1>3, SumSame
<1>5. \A S : Total(S) = Lengths(S)
  BY <1>4 DEF Total, Lengths, f
<1>6. ASSUME NEW k \in Jumps PROVE distance(k) = Offset(k) /\ Offset(k) \in Offsets
  <2>1. k \in Int /\ Index[List[k].label] \in Int
    BY <1>1, Spans
  <2>2. k + 1 > Index[List[k].label] <=> ~ Forward(k)
    BY <2>1 DEF Forward
  <2>3. Lengths(Span(k)) \in Nat /\ Lengths(Span(k)) <= MaxOffset
    BY LengthsType
  <2> QED
    BY <1>5, <2>2, <2>3, BoundsAssumption DEF distance, Offset, Offsets
<1> QED
  BY <1>5, <1>6

-----------------------------------------------------------------------------
(* Giving an item another offset. *)

LEMMA Encodes ==
    ASSUME EncoderGrows(Offsets), NEW c \in Call, Accepts(c), NEW s \in Offsets
    PROVE  /\ Len(Encoding(c, s)) \in Nat /\ Len(Encoding(c, s)) # 0
           /\ Len(Encoding(c, s)) <= MaxOpLength
           /\ Len(Encoding(c, s)) <= Len(Encoding(c, MaxOffset))
           /\ \A t \in Offsets : (0 <= s /\ s <= t) \/ (t <= s /\ s <= 0) =>
                             Len(Encoding(c, s)) <= Len(Encoding(c, t))
<1>1. Len(Encoding(c, s)) \in 1 .. MaxOpLength
  BY DEF EncoderGrows
<1>2. /\ Len(Encoding(c, s)) <= Len(Encoding(c, MaxOffset))
      /\ \A t \in Offsets : (0 <= s /\ s <= t) \/ (t <= s /\ s <= 0) =>
                            Len(Encoding(c, s)) <= Len(Encoding(c, t))
  BY DEF EncoderGrows
<1>3. \A x \in 1 .. MaxOpLength : x \in Nat /\ x # 0 /\ x <= MaxOpLength
  BY DEF MaxOpLength
<1> QED
  BY <1>1, <1>2, <1>3, Zenon

\* What depends on the list and the labels alone stays.
LEMMA SameList ==
    ASSUME UNCHANGED <<List, Index>>
    PROVE  /\ N' = N /\ Jumps' = Jumps
           /\ \A l : Seen(l)' <=> Seen(l)
           /\ \A k : /\ IsOp(k)' <=> IsOp(k)
                     /\ Span(k)' = Span(k)
                     /\ Forward(k)' <=> Forward(k)
                     /\ \A s : encoded(k, s)' = encoded(k, s)
                     /\ Item(k)' = Item(k)
  BY DEF N, Jumps, IsOp, Seen, Span, Forward, encoded, Item

LEMMA LengthsShift ==
    ASSUME Struct, NEW k \in 1..N, Numbers(MaxLength', N),
           \A j \in 1..N : j # k => MaxLength[j] = MaxLength'[j]
    PROVE  \A S : Sum(MaxLength', S, N)
                    = Lengths(S) - IF k \in S THEN MaxLength[k] - MaxLength'[k] ELSE 0
<1>1. N \in Nat /\ Numbers(MaxLength, N) /\ k \in Nat
  BY Parts
<1>2. \A S : Sum(MaxLength', S, N)
        = Sum(MaxLength, S, N) + IF k \in S /\ k \in 1..N THEN MaxLength'[k] - MaxLength[k] ELSE 0
  BY <1>1, SumShift
<1>3. MaxLength[k] \in Int /\ MaxLength'[k] \in Int /\ \A S : Lengths(S) \in Nat
  BY <1>1, LengthsType DEF Numbers
<1> QED
  BY <1>2, <1>3 DEF Lengths

LEMMA SavedShift ==
    ASSUME Struct, NEW k \in 1..N, Numbers(saved', N),
           \A j \in 1..N : j # k => saved[j] = saved'[j]
    PROVE  \A S : Sum(saved', S, N) = Saved(S) + IF k \in S THEN saved'[k] - saved[k] ELSE 0
<1>1. N \in Nat /\ Numbers(saved, N) /\ k \in Nat
  BY Parts
<1>2. \A S : Sum(saved', S, N)
        = Sum(saved, S, N) + IF k \in S /\ k \in 1..N THEN saved'[k] - saved[k] ELSE 0
  BY <1>1, SumShift
<1> QED
  BY <1>2 DEF Saved

\* Fixing a jump, or giving it a shorter length, keeps the invariant, if what
\* it saves is added to saved whenever a fixed jump relies on its length.
LEMMA Shrink ==
    ASSUME EncoderGrows(Offsets), Struct, Items, UNCHANGED <<List, Index>>,
           NEW k \in Jumps, ~ Fixed[k], Seen(List[k].label),
           NEW n \in Int, n \in Offsets, NEW d \in Nat, NEW fixed \in BOOLEAN,
           Imm' = [Imm EXCEPT ![k] = n],
           MaxLength' = [MaxLength EXCEPT ![k] = encoded(k, n)],
           Fixed' = [Fixed EXCEPT ![k] = fixed],
           saved' = [saved EXCEPT ![k] = @ + d],
           XP' \in Seq(Nat \cup {Unknown}), Len(XP') = N,
           encoded(k, n) <= MaxLength[k],
           \/ n = Offset(k)
           \/ n = Offset(k) + 1 /\ fixed /\ ~ Forward(k) /\ encoded(k, n) < MaxLength[k],
           Passed(k) \/ (fixed /\ ~ Forward(k)) => d = MaxLength[k] - encoded(k, n)
    PROVE  Struct' /\ Items'
<1> DEFINE v == encoded(k, n)
           old == MaxLength[k]
<1>1. /\ N \in Nat /\ k \in 1..N
      /\ DOMAIN Fixed = 1..N /\ DOMAIN Imm = 1..N /\ DOMAIN MaxLength = 1..N /\ DOMAIN saved = 1..N
      /\ \A j \in 1..N : Imm[j] \in Int /\ MaxLength[j] \in Nat /\ saved[j] \in Nat
                         /\ (IsOp(j) => List[j] \in Call /\ Accepts(List[j]))
      /\ Numbers(MaxLength, N) /\ Numbers(saved, N)
  BY Parts DEF Jumps
<1>2. IsOp(k) /\ v \in Nat /\ v # 0 /\ old \in Nat
  BY <1>1, Spans, Encodes DEF encoded
<1>3. /\ N' = N /\ Jumps' = Jumps
      /\ \A l : Seen(l)' <=> Seen(l)
      /\ \A j : /\ IsOp(j)' <=> IsOp(j)
                /\ Span(j)' = Span(j)
                /\ Forward(j)' <=> Forward(j)
                /\ \A s : encoded(j, s)' = encoded(j, s)
  BY SameList, Zenon
<1>4. /\ \A j \in 1..N : j # k => /\ Imm'[j] = Imm[j] /\ MaxLength'[j] = MaxLength[j]
                                  /\ saved'[j] = saved[j]
      /\ Imm'[k] = n /\ MaxLength'[k] = v /\ saved'[k] = saved[k] + d
  <2> HIDE DEF v
  <2> QED
    BY <1>1 DEF v
<1>5. (\A j \in 1..N : j # k => (Fixed'[j] <=> Fixed[j])) /\ (Fixed'[k] <=> fixed)
  BY <1>1, ZenonT(20)
<1>6. Struct'
  <2>1. Imm' \in Seq(Int) /\ Len(Imm') = N
    BY <1>1 DEF Struct
  <2>2. MaxLength' \in Seq(Nat) /\ Len(MaxLength') = N
    <3> HIDE DEF v
    <3> QED
      BY <1>1, <1>2 DEF Struct, v
  <2>3. saved' \in Seq(Nat) /\ Len(saved') = N
    BY <1>1, SMTT(90), Z3T(90) DEF Struct
  <2>4. Fixed' \in Seq(BOOLEAN) /\ Len(Fixed') = N
    BY <1>1 DEF Struct
  <2>7. \A j \in 1..N : MaxLength'[j] <= MaxOpLength
    <3>1. v <= MaxLength[k] /\ \A j \in 1..N : MaxLength[j] <= MaxOpLength
      BY DEF Struct
    <3> HIDE DEF v
    <3>2. v <= MaxOpLength
      BY <1>1, <1>2, <3>1 DEF MaxOpLength
    <3> QED
      BY <1>1, <1>4, <3>1, <3>2
  <2>5. /\ List' \in Seq(Call \cup Name) /\ N' <= MaxItems
        /\ Index' \in [Name -> 0..N']
    BY <1>3 DEF Struct
  <2>6. /\ \A l \in Name : Seen(l)' => List'[Index'[l]] = l
        /\ \A j \in 1..N' : IF IsOp(j)' THEN Accepts(List'[j]) ELSE Index'[List'[j]] = j
    BY <1>3, ZenonT(20) DEF Struct
  <2> QED
    BY <1>3, <2>1, <2>2, <2>3, <2>4, <2>5, <2>6, <2>7, SMTT(90), Z3T(90) DEF Struct
<1> HIDE DEF v, old
<1>7. Numbers(MaxLength', N) /\ Numbers(saved', N)
  BY <1>1, <1>2, <1>4, SMTT(40), Z3T(40) DEF Numbers
<1>8. \A S : Sum(MaxLength', S, N) = Lengths(S) - IF k \in S THEN old - v ELSE 0
  <2>1. \A j \in 1..N : j # k => MaxLength[j] = MaxLength'[j]
    BY <1>4
  <2>2. \A S : Sum(MaxLength', S, N) = Lengths(S) - IF k \in S THEN MaxLength[k] - MaxLength'[k] ELSE 0
    BY <1>1, <1>7, <2>1, LengthsShift, Zenon
  <2> QED
    BY <1>4, <2>2, Zenon DEF old
<1>9. \A S : Sum(saved', S, N) = Saved(S) + IF k \in S THEN d ELSE 0
  <2>1. \A j \in 1..N : j # k => saved[j] = saved'[j]
    BY <1>4
  <2>2. \A S : Sum(saved', S, N) = Saved(S) + IF k \in S THEN saved'[k] - saved[k] ELSE 0
    BY <1>1, <1>7, <2>1, SavedShift, Zenon
  <2>3. saved'[k] - saved[k] = d
    BY <1>1, <1>4
  <2> QED
    BY <2>2, <2>3, Zenon
<1>10. v <= old
  BY DEF v, old
<1>11. ASSUME NEW j \in Jumps
       PROVE  /\ Lengths(Span(j))' = Lengths(Span(j)) - IF k \in Span(j) THEN old - v ELSE 0
              /\ Saved(Span(j))' = Saved(Span(j)) + IF k \in Span(j) THEN d ELSE 0
              /\ Lengths(Span(j)) \in Nat /\ Saved(Span(j)) \in Nat /\ Lengths(Span(j)) <= MaxOffset
              /\ Lengths(Span(j))' \in Nat /\ Lengths(Span(j))' <= Lengths(Span(j))
  <2>1. Lengths(Span(j))' = Sum(MaxLength', Span(j), N)
    BY <1>3 DEF Lengths
  <2>2. Saved(Span(j))' = Sum(saved', Span(j), N)
    BY <1>3 DEF Saved
  <2>3. /\ Lengths(Span(j)) \in Nat /\ Saved(Span(j)) \in Nat /\ Lengths(Span(j)) <= MaxOffset
        /\ k \in Span(j) => old <= Lengths(Span(j))
    BY <1>1, LengthsType, ZenonT(20) DEF old
  <2>4. Lengths(Span(j))' = Lengths(Span(j)) - IF k \in Span(j) THEN old - v ELSE 0
    BY <1>8, <2>1, Zenon
  <2>5. Saved(Span(j))' = Saved(Span(j)) + IF k \in Span(j) THEN d ELSE 0
    BY <1>9, <2>2, Zenon
  <2> QED
    BY <1>2, <1>10, <2>3, <2>4, <2>5, SMTT(40), Z3T(40)
<1>12. ASSUME NEW j \in Jumps, Seen(List[j].label)
       PROVE  encoded(j, Offset(j)') <= encoded(j, Offset(j))
              /\ encoded(j, Offset(j)') \in Nat /\ encoded(j, Offset(j)) \in Nat
  <2>1. /\ Offset(j) = IF Forward(j) THEN Lengths(Span(j)) ELSE - Lengths(Span(j))
        /\ Offset(j)' = IF Forward(j) THEN Lengths(Span(j))' ELSE - (Lengths(Span(j))')
    BY <1>3, ZenonT(20) DEF Offset
  <2>2. /\ Offset(j) \in Offsets /\ Offset(j)' \in Offsets
        /\ \/ 0 <= Offset(j)' /\ Offset(j)' <= Offset(j)
           \/ Offset(j) <= Offset(j)' /\ Offset(j)' <= 0
    BY <1>11, <2>1, BoundsAssumption, SMTT(40), Z3T(40) DEF Offsets
  <2>3. List[j] \in Call /\ Accepts(List[j])
    BY Spans
  <2> QED
    BY <2>2, <2>3, Encodes, Zenon DEF encoded
<1>13. ASSUME NEW j \in 1..N PROVE ItemOK(j)'
  <2>1. ItemOK(j)
    BY DEF Items
  <2>2. CASE j # k
    <3>1. Imm'[j] = Imm[j] /\ MaxLength'[j] = MaxLength[j] /\ (Fixed'[j] <=> Fixed[j]) /\ MaxLength[j] \in Nat
      BY <1>1, <1>4, <1>5, <2>2, ZenonT(20)
    <3>2. ~ Fixed[j] => j \in Jumps
      BY <2>1 DEF ItemOK
    <3>3. ASSUME ~ Fixed[j], Seen(List[j].label) PROVE encoded(j, Offset(j)') <= MaxLength[j]
      <4>1. encoded(j, Offset(j)) <= MaxLength[j]
        BY <2>1, <3>3 DEF ItemOK
      <4> QED
        BY <1>12, <3>1, <3>2, <3>3, <4>1
    <3>4. encoded(j, Offset(j))' = encoded(j, Offset(j)') /\ encoded(j, Imm[j])' = encoded(j, Imm[j])
          /\ encoded(j, MaxOffset)' = encoded(j, MaxOffset)
      BY <3>1 DEF encoded
    <3> QED
      BY <1>3, <2>1, <3>1, <3>3, <3>4 DEF ItemOK
  <2>3. CASE j = k
    <3>1. Imm'[j] = n /\ MaxLength'[j] = v /\ (Fixed'[j] <=> fixed) /\ v = encoded(k, n)
      BY <1>4, <1>5, <2>3 DEF v
    <3>2. encoded(j, Imm[j])' = encoded(k, n)
      BY <2>3, <3>1 DEF encoded
    <3>3. ASSUME ~ fixed PROVE encoded(j, Offset(j))' <= v
      <4>1. encoded(j, Offset(j))' = encoded(j, Offset(j)')
        BY DEF encoded
      <4>2. v = encoded(j, Offset(j))
        BY <2>3, <3>1, <3>3
      <4> QED
        BY <1>12, <2>3, <4>1, <4>2
    <3> QED
      BY <1>2, <1>3, <2>3, <3>1, <3>2, <3>3 DEF ItemOK
  <2> QED
    BY <2>2, <2>3
<1>14. ASSUME NEW j \in Jumps PROVE JumpOK(j)'
  <2>0. j \in 1..N /\ Imm[j] \in Int /\ Imm'[j] \in Int
    BY <1>1, <1>4 DEF Jumps
  <2>1. /\ Over(j) = (IF Forward(j) THEN Imm[j] ELSE - Imm[j]) - Lengths(Span(j))
        /\ Over(j)' = (IF Forward(j) THEN Imm'[j] ELSE - Imm'[j]) - Lengths(Span(j))'
    BY <1>3, SMTT(40), Z3T(40) DEF Over
  <2>2. CASE j # k /\ Fixed[j]
    <3>1. Over(j) \in 0 .. Saved(Span(j)) /\ Seen(List[j].label)
      BY <2>0, <2>2, ZenonT(20) DEF Items, JumpOK, ItemOK
    <3>2. k \in Span(j) => d = old - v
      BY <2>2, <3>1, ZenonT(20) DEF Passed, old, v
    <3>3. Imm'[j] = Imm[j]
      BY <1>4, <2>0, <2>2
    <3>4. Over(j)' \in 0 .. Saved(Span(j))'
      <4>1. Over(j)' = Over(j) + IF k \in Span(j) THEN old - v ELSE 0
        <5>1. /\ Lengths(Span(j))' = Lengths(Span(j)) - IF k \in Span(j) THEN old - v ELSE 0
              /\ Lengths(Span(j)) \in Nat
          BY <1>11, ZenonT(20)
        <5> QED
          BY <1>2, <2>0, <2>1, <3>3, <5>1, SMTT(40), Z3T(40)
      <4>2. Saved(Span(j))' = Saved(Span(j)) + IF k \in Span(j) THEN old - v ELSE 0
        BY <1>11, <3>2, ZenonT(20)
      <4>3. old - v \in Nat /\ Saved(Span(j)) \in Nat
        BY <1>2, <1>10, <1>11, SMTT(40), Z3T(40)
      <4> QED
        BY <3>1, <4>1, <4>2, <4>3, SMTT(40), Z3T(40)
    <3> QED
      BY <3>4 DEF JumpOK
  <2>3. CASE j = k /\ fixed
    <3>1. Imm'[j] = n /\ Offset(j) = IF Forward(j) THEN Lengths(Span(j)) ELSE - Lengths(Span(j))
      BY <1>4, <2>3 DEF Offset
    <3>2. k \in Span(j) <=> ~ Forward(j)
      BY <2>3, Spans
    <3>3. CASE Forward(j)
      <4>1. n = Offset(j)
        BY <2>3, <3>3
      <4> QED
        BY <1>11, <2>1, <3>1, <3>2, <3>3, <4>1, SMTT(40), Z3T(40) DEF JumpOK
    <3>4. CASE ~ Forward(j)
      <4>1. d = old - v
        BY <2>3, <3>4 DEF old, v
      <4>2. n = Offset(j) \/ (n = Offset(j) + 1 /\ v < old)
        BY <2>3 DEF old, v
      <4>3. saved[k] + d <= Saved(Span(j))'
        <5>1. k \in 1..N' /\ k \in Span(j)'
          BY <1>1, <1>3, <3>2, <3>4
        <5>2. \A S : \A i \in 1..N' : i \in S => saved'[i] <= Sum(saved', S, N')
          <6>1. N' \in Nat /\ \A i \in 1..N' : saved'[i] \in Nat
            BY <1>1, <1>3, <1>4, SMTT(40), Z3T(40)
          <6> QED
            BY <6>1, SumNat, Zenon
        <5> QED
          BY <1>4, <5>1, <5>2, Zenon DEF Saved
      <4>4. Over(j)' \in 0 .. d
        <5>1. Lengths(Span(j))' = Lengths(Span(j)) - d /\ Lengths(Span(j)) \in Nat
          BY <1>11, <3>2, <3>4, <4>1, ZenonT(20)
        <5>2. Over(j)' = - n - (Lengths(Span(j)) - d)
          BY <2>1, <3>1, <3>4, <5>1, ZenonT(20)
        <5>3. n = - Lengths(Span(j)) \/ (n = - Lengths(Span(j)) + 1 /\ d >= 1)
          BY <1>2, <3>1, <3>4, <4>1, <4>2, SMTT(40), Z3T(40)
        <5> QED
          BY <5>1, <5>2, <5>3, SMTT(40), Z3T(40)
      <4>5. Over(j)' \in 0 .. Saved(Span(j))'
        <5>1. saved[k] \in Nat /\ Saved(Span(j))' \in Int
          <6>1. Saved(Span(j)) \in Nat /\ Saved(Span(j))' = Saved(Span(j)) + d
            BY <1>11, <3>2, <3>4, ZenonT(20)
          <6> QED
            BY <1>1, <6>1
        <5> QED
          BY <4>3, <4>4, <5>1
      <4> QED
        BY <4>5 DEF JumpOK
    <3> QED
      BY <3>3, <3>4
  <2>4. CASE ~ Fixed'[j]
    BY <2>4 DEF JumpOK
  <2> QED
    BY <1>5, <2>0, <2>2, <2>3, <2>4
<1>15. Items'
  BY <1>3, <1>13, <1>14 DEF Items
<1> QED
  BY <1>6, <1>15

-----------------------------------------------------------------------------
(* Appending an item. *)

\* What link and its callers make of a new item.
NewItem(item, fixed, imm, length) ==
    \/ /\ item \in Name /\ ~ Seen(item) /\ Index' = [Index EXCEPT ![item] = N + 1]
       /\ fixed /\ length = 0
    \/ /\ item \notin Name /\ Index' = Index /\ Accepts(item)
       /\ length = Len(Encoding(item, imm))
       /\ IF item.label = None THEN fixed ELSE ~ fixed /\ imm = MaxOffset

LEMMA AppendAt ==
    ASSUME NEW T, NEW s \in Seq(T), NEW e \in T
    PROVE  /\ \A j \in 1 .. Len(s) : Append(s, e)[j] = s[j]
           /\ Append(s, e)[Len(s) + 1] = e
  OBVIOUS

LEMMA AppendType ==
    ASSUME NEW T, NEW s \in Seq(T), NEW e \in T
    PROVE  Append(s, e) \in Seq(T) /\ Len(Append(s, e)) = Len(s) + 1
  OBVIOUS

LEMMA Grow ==
    ASSUME EncoderGrows(Offsets), Struct, Items, N < MaxItems,
           NEW item \in Call \cup Name, NEW fixed \in BOOLEAN, NEW imm \in Int, imm \in Offsets, NEW length \in Nat,
           List' = Append(List, item), XP' = Append(XP, Unknown), Fixed' = Append(Fixed, fixed),
           Imm' = Append(Imm, imm), MaxLength' = Append(MaxLength, length),
           saved' = Append(saved, 0),
           NewItem(item, fixed, imm, length)
    PROVE  Struct' /\ Items'
<1>1. /\ N \in Nat
      /\ DOMAIN Fixed = 1..N /\ DOMAIN Imm = 1..N /\ DOMAIN MaxLength = 1..N /\ DOMAIN saved = 1..N
      /\ \A j \in 1..N : Imm[j] \in Int /\ MaxLength[j] \in Nat /\ saved[j] \in Nat
                         /\ (IsOp(j) => List[j] \in Call /\ Accepts(List[j]))
      /\ Numbers(MaxLength, N) /\ Numbers(saved, N)
      /\ MaxItems \in Nat /\ MaxOffset \in Int
  <2>1. MaxItems \in Nat /\ MaxOffset \in Int
    BY BoundsAssumption
  <2> QED
    BY <2>1, Parts, Zenon
<1>b. MaxOffset \in Offsets /\ length <= MaxOpLength /\ \A j \in 1..N : MaxLength[j] <= MaxOpLength
  <2>1. MaxOffset \in Offsets
    BY BoundsAssumption DEF Offsets
  <2>2. item \in Name => length <= MaxOpLength
    BY BoundsAssumption DEF NewItem, MaxOpLength
  <2>3. item \notin Name => length <= MaxOpLength
    BY Encodes DEF NewItem
  <2> QED
    BY <2>1, <2>2, <2>3 DEF Struct
<1>m. PICK m \in Nat : m = N + 1
  BY <1>1
<1>2. /\ N' = N + 1 /\ N' = m /\ 1..N' = 1..N \cup {N + 1} /\ N + 1 \notin 1..N
      /\ \A j \in 1..N : List'[j] = List[j] /\ Imm'[j] = Imm[j] /\ MaxLength'[j] = MaxLength[j]
                         /\ saved'[j] = saved[j]
      /\ List'[N + 1] = item /\ Imm'[N + 1] = imm /\ MaxLength'[N + 1] = length /\ saved'[N + 1] = 0
  BY <1>1, <1>m, SMTT(90), Z3T(90) DEF Struct, N
<1>3. (\A j \in 1..N : Fixed'[j] = Fixed[j]) /\ Fixed'[N + 1] = fixed
  BY AppendAt DEF Struct
<1>4. \A l \in Name : /\ Seen(l) => Seen(l)' /\ Index'[l] = Index[l] /\ l # item
                      /\ Index'[l] \in 0 .. N + 1
                      /\ Seen(l)' => Seen(l) \/ (l = item /\ Index'[l] = N + 1)
  <2>1. \A l \in Name : Index[l] \in 0..N
    BY DEF Struct
  <2>2. CASE item \in Name /\ ~ Seen(item) /\ Index' = [Index EXCEPT ![item] = N + 1]
    <3>1. \A l \in Name : Index'[l] = IF l = item THEN N + 1 ELSE Index[l]
      BY <2>2 DEF Struct
    <3> QED
      BY <1>1, <2>1, <2>2, <3>1 DEF Seen
  <2>3. CASE item \notin Name /\ Index' = Index
    BY <1>1, <2>1, <2>3 DEF Seen
  <2> QED
    BY <2>2, <2>3 DEF NewItem
<1>5. /\ \A j \in 1..N : IsOp(j)' <=> IsOp(j)
      /\ IsOp(m)' <=> item \notin Name
      /\ \A j \in 1..N : j \in Jumps' <=> j \in Jumps
      /\ m \in Jumps' <=> item \notin Name /\ item.label # None
      /\ Jumps' \subseteq 1..N'
  <2>1. (\A j \in 1..N : IsOp(j)' <=> IsOp(j)) /\ (IsOp(m)' <=> item \notin Name)
    BY <1>m, <1>2, ZenonT(40) DEF IsOp
  <2>2. Jumps' = {j \in 1..N' : IsOp(j)' /\ List'[j].label # None}
    BY DEF Jumps
  <2>3. m \in 1..N'
    BY <1>1, <1>m, <1>2, Zenon
  <2> QED
    BY <1>m, <1>2, <2>1, <2>2, <2>3, Zenon DEF Jumps
<1>6. Struct'
  <2>1. /\ List' \in Seq(Call \cup Name) /\ N' <= MaxItems
        /\ XP' \in Seq(Nat \cup {Unknown}) /\ Len(XP') = N'
    BY <1>1, <1>2, SMTT(40), Z3T(40) DEF Struct
  <2>2. /\ Imm' \in Seq(Int) /\ Len(Imm') = N' /\ MaxLength' \in Seq(Nat) /\ Len(MaxLength') = N'
        /\ saved' \in Seq(Nat) /\ Len(saved') = N'
    BY <1>1, <1>2, SMTT(40), Z3T(40) DEF Struct
  <2>7. \A j \in 1..N' : MaxLength'[j] <= MaxOpLength
    BY <1>1, <1>b, <1>2, ZenonT(20)
  <2>3. Fixed' \in Seq(BOOLEAN) /\ Len(Fixed') = N'
    <3> DEFINE S == BOOLEAN
    <3>1. Fixed \in Seq(S) /\ Len(Fixed) = N /\ fixed \in S
      BY Zenon DEF Struct
    <3> HIDE DEF S
    <3>2. Fixed' \in Seq(S) /\ Len(Fixed') = N + 1
      BY <3>1, AppendType, Zenon
    <3>3. N' = N + 1
      BY <1>2, Zenon
    <3> QED
      BY <3>2, <3>3, Zenon DEF S
  <2>4. Index' \in [Name -> 0..N']
    <3>1. Index' = [l \in Name |-> Index'[l]]
      BY DEF NewItem, Struct
    <3> QED
      BY <1>2, <1>4, <3>1
  <2>5. ASSUME NEW l \in Name, Seen(l)' PROVE List'[Index'[l]] = l
    <3>1. CASE Seen(l)
      <4>1. Index'[l] = Index[l] /\ Index[l] \in 1..N /\ List[Index[l]] = l
        BY <1>1, <1>4, <3>1, SMTT(40), Z3T(40) DEF Struct, Seen
      <4> QED
        BY <1>2, <4>1, Zenon
    <3> QED
      BY <1>2, <1>4, <2>5, <3>1, Zenon
  <2>6. ASSUME NEW j \in 1..N' PROVE IF IsOp(j)' THEN Accepts(List'[j]) ELSE Index'[List'[j]] = j
    <3>1. CASE j \in 1..N
      <4>1. IF IsOp(j) THEN Accepts(List[j]) ELSE Index[List[j]] = j
        BY <3>1 DEF Struct
      <4>2. ~ IsOp(j) => Index'[List[j]] = j
        <5>1. ~ IsOp(j) => List[j] \in Name /\ Index[List[j]] = j /\ Seen(List[j])
          BY <1>1, <3>1, <4>1, SMTT(40), Z3T(40) DEF IsOp, Seen
        <5> QED
          BY <1>4, <5>1, ZenonT(20)
      <4> QED
        BY <1>2, <1>5, <3>1, <4>1, <4>2, Zenon
    <3>2. CASE j = m
      <4>1. item \in Name => Index'[item] = N + 1
        BY DEF NewItem, Struct
      <4>2. item \notin Name => Accepts(item)
        BY DEF NewItem
      <4> QED
        BY <1>m, <1>2, <1>5, <3>2, <4>1, <4>2, Zenon
    <3> QED
      BY <1>m, <1>2, <3>1, <3>2, Zenon
  <2>8. \A j \in 1..N' : Imm'[j] \in Offsets
    BY <1>2, Zenon DEF Struct
  <2> QED
    BY <2>1, <2>2, <2>3, <2>4, <2>5, <2>6, <2>7, <2>8, ZenonT(40) DEF Struct
<1>7. /\ Numbers(MaxLength', N + 1) /\ Numbers(saved', N + 1)
      /\ Numbers(MaxLength', N) /\ Numbers(saved', N)
      /\ \A j \in 1 .. N + 1 : MaxLength'[j] \in Nat
  <2>1. \A j \in 1 .. N + 1 : j \in 1..N \/ j = N + 1
    BY <1>1
  <2>2. \A j \in 1 .. N + 1 : MaxLength'[j] \in Nat /\ saved'[j] \in Nat
    BY <1>1, <1>2, <2>1, SMTT(40), Z3T(40)
  <2>3. \A j \in 1..N : j \in 1 .. N + 1
    BY <1>1
  <2>4. \A j \in 1 .. N + 1 : MaxLength'[j] \in Int /\ saved'[j] \in Int
    <3>1. \A x \in Nat : x \in Int
      OBVIOUS
    <3> QED
      BY <2>2, <3>1, Zenon
  <2>5. Numbers(MaxLength', N + 1) /\ Numbers(saved', N + 1)
    BY <2>4, Zenon DEF Numbers
  <2>6. Numbers(MaxLength', N) /\ Numbers(saved', N)
    BY <2>3, <2>4, Zenon DEF Numbers
  <2> QED
    BY <2>2, <2>5, <2>6, Zenon
<1>8. \A S : S \subseteq 1..N => /\ Sum(MaxLength', S, N + 1) = Lengths(S)
                                 /\ Sum(saved', S, N + 1) = Saved(S)
  <2> SUFFICES ASSUME NEW S, S \subseteq 1..N
               PROVE  Sum(MaxLength', S, N + 1) = Lengths(S) /\ Sum(saved', S, N + 1) = Saved(S)
    BY Zenon
  <2>1. N + 1 \notin S
    BY <1>2, Zenon
  <2>2. Sum(MaxLength', S, N + 1) = Sum(MaxLength', S, N) /\ Sum(saved', S, N + 1) = Sum(saved', S, N)
    BY <1>1, <1>7, <2>1, SumTail
  <2>3. \A j \in 1..N : j \in S => MaxLength'[j] = MaxLength[j] /\ saved'[j] = saved[j]
    BY <1>2, Zenon
  <2>4. Sum(MaxLength', S, N) = Sum(MaxLength, S, N)
    BY <1>1, <1>7, <2>3, SumSame, Zenon
  <2>5. Sum(saved', S, N) = Sum(saved, S, N)
    BY <1>1, <1>7, <2>3, SumSame, Zenon
  <2> QED
    BY <2>2, <2>4, <2>5 DEF Lengths, Saved
<1>9. \A j : Offset(j)' \in Offsets
  <2>1. \A S : Sum(MaxLength', S, N') \in Nat /\ Sum(MaxLength', S, N') <= MaxOffset
    <3>1. N' \in Nat /\ N' <= MaxItems /\ \A j \in 1..N' : MaxLength'[j] \in Nat /\ MaxLength'[j] <= MaxOpLength
      BY <1>1, <1>2, <1>6, <1>7, Zenon DEF Struct
    <3> QED
      BY <3>1, SumFits, Zenon
  <2>2. \A j : Lengths(Span(j))' \in Nat /\ Lengths(Span(j))' <= MaxOffset
    BY <2>1 DEF Lengths
  <2> QED
    BY <2>2, BoundsAssumption, SMTT(40), Z3T(40) DEF Offset, Offsets
<1>10. ASSUME NEW j \in Jumps, Seen(List[j].label)
       PROVE  /\ Span(j)' = Span(j) /\ (Forward(j)' <=> Forward(j))
              /\ Lengths(Span(j))' = Lengths(Span(j)) /\ Saved(Span(j))' = Saved(Span(j))
              /\ Offset(j)' = Offset(j)
  <2>1. j \in 1..N /\ List[j].label \in Name /\ Span(j) \subseteq 1..N
    BY <1>10, Spans, ZenonT(20)
  <2>2. List'[j] = List[j] /\ Index'[List[j].label] = Index[List[j].label]
    BY <1>2, <1>4, <1>10, <2>1, Zenon
  <2>3. Span(j)' = Span(j) /\ (Forward(j)' <=> Forward(j))
    BY <2>2, ZenonT(20) DEF Span, Forward
  <2>4. Lengths(Span(j))' = Lengths(Span(j)) /\ Saved(Span(j))' = Saved(Span(j))
    BY <1>2, <1>8, <2>1, <2>3, ZenonT(20) DEF Lengths, Saved
  <2> QED
    BY <2>3, <2>4 DEF Offset
<1>11. ASSUME NEW j \in 1..N PROVE ItemOK(j)'
  <2>1. ItemOK(j) /\ List'[j] = List[j] /\ Imm'[j] = Imm[j] /\ MaxLength'[j] = MaxLength[j]
        /\ Fixed'[j] = Fixed[j] /\ (IsOp(j)' <=> IsOp(j)) /\ (j \in Jumps' <=> j \in Jumps)
    BY <1>2, <1>3, <1>5, Zenon DEF Items
  <2>2. \A s : encoded(j, s)' = encoded(j, s)
    BY <2>1, ZenonT(20) DEF encoded
  <2>3. encoded(j, Imm[j])' = encoded(j, Imm[j]) /\ encoded(j, Offset(j))' = encoded(j, Offset(j)')
    BY <2>1 DEF encoded
  <2>4. ASSUME ~ Fixed[j]
        PROVE  /\ j \in Jumps
               /\ IF Seen(List[j].label)' THEN encoded(j, Offset(j)') <= MaxLength[j]
                                          ELSE MaxLength[j] = encoded(j, MaxOffset)
    <3>1. j \in Jumps /\ IF Seen(List[j].label) THEN encoded(j, Offset(j)) <= MaxLength[j]
                                                ELSE MaxLength[j] = encoded(j, MaxOffset)
      BY <2>1, <2>4, ZenonT(20) DEF ItemOK
    <3>2. List[j].label \in Name /\ List[j] \in Call /\ Accepts(List[j])
      BY <3>1, Spans, ZenonT(20)
    <3>3. CASE Seen(List[j].label)
      <4>1. Offset(j)' = Offset(j)
        BY <1>10, <3>1, <3>3, Zenon
      <4>2. Seen(List[j].label)'
        BY <1>4, <2>1, <3>2, <3>3, ZenonT(40)
      <4>3. encoded(j, Offset(j)) <= MaxLength[j]
        BY <3>1, <3>3, Zenon
      <4> QED
        BY <3>1, <4>1, <4>2, <4>3, Zenon
    <3>4. CASE ~ Seen(List[j].label)
      <4>1. encoded(j, Offset(j)') <= encoded(j, MaxOffset)
        <5>1. \A s \in Offsets : Len(Encoding(List[j], s)) <= Len(Encoding(List[j], MaxOffset))
          BY <1>b, <3>2, Encodes, Zenon
        <5>2. \A s \in Offsets : encoded(j, s) <= encoded(j, MaxOffset)
          BY <5>1, Zenon DEF encoded
        <5>3. Offset(j)' \in Offsets
          BY <1>9, Zenon
        <5> QED
          BY <5>2, <5>3, Zenon
      <4>2. encoded(j, MaxOffset) = MaxLength[j]
        BY <3>1, <3>4, Zenon
      <4> QED
        BY <3>1, <4>1, <4>2, Zenon
    <3> QED
      BY <3>3, <3>4, Zenon
  <2>5. Fixed[j] /\ j \in Jumps => Seen(List[j].label)'
    <3>1. Fixed[j] /\ j \in Jumps => Seen(List[j].label)
      BY <2>1, ZenonT(40) DEF ItemOK
    <3>2. j \in Jumps => List[j].label \in Name
      BY Spans, ZenonT(40)
    <3> QED
      BY <1>4, <2>1, <3>1, <3>2, ZenonT(40)
  <2>6. /\ ~ IsOp(j) => Fixed[j] /\ MaxLength[j] = 0
        /\ IsOp(j) => MaxLength[j] # 0
        /\ IsOp(j) /\ Fixed[j] => MaxLength[j] = encoded(j, Imm[j])
    BY <2>1, Zenon DEF ItemOK
  <2> QED
    BY <2>1, <2>2, <2>3, <2>4, <2>5, <2>6, ZenonT(40) DEF ItemOK
<1>12. ItemOK(m)'
  <2>1. /\ List'[m] = item /\ Imm'[m] = imm /\ MaxLength'[m] = length /\ (Fixed'[m] <=> fixed)
        /\ (IsOp(m)' <=> item \notin Name) /\ (m \in Jumps' <=> item \notin Name /\ item.label # None)
    BY <1>m, <1>2, <1>3, <1>5
  <2>3. CASE item \in Name /\ fixed /\ length = 0
    <3>1. Fixed'[m] /\ MaxLength'[m] = 0 /\ ~ IsOp(m)' /\ m \notin Jumps'
      BY <2>1, <2>3, Zenon
    <3> QED
      BY <3>1 DEF ItemOK
  <2>4. CASE /\ item \notin Name /\ Accepts(item) /\ length = Len(Encoding(item, imm))
             /\ IF item.label = None THEN fixed ELSE ~ fixed /\ imm = MaxOffset
    <3>1. item \in Call /\ \A s \in Offsets : Len(Encoding(item, s)) <= Len(Encoding(item, MaxOffset))
      BY <2>4, Encodes
    <3>2. length # 0
      BY <2>4, <3>1, Encodes
    <3>3. Len(Encoding(item, Offset(m)')) <= Len(Encoding(item, MaxOffset))
      BY <1>9, <3>1, Zenon
    <3>4. encoded(m, Offset(m))' = Len(Encoding(item, Offset(m)'))
      BY <2>1 DEF encoded
    <3>5. encoded(m, Imm[m])' = Len(Encoding(item, imm))
      BY <2>1 DEF encoded
    <3>6. IsOp(m)' /\ (m \in Jumps' <=> item.label # None) /\ (Fixed'[m] <=> item.label = None)
      BY <2>1, <2>4, Zenon
    <3>7. Fixed'[m] \/ imm = MaxOffset
      BY <2>1, <2>4, Zenon
    <3> QED
      BY <2>1, <2>4, <3>2, <3>3, <3>4, <3>5, <3>6, <3>7, Zenon DEF ItemOK
  <2> QED
    BY <2>3, <2>4 DEF NewItem
<1>13. ASSUME NEW j \in Jumps' PROVE JumpOK(j)'
  <2>1. CASE j \in 1..N
    <3>1. j \in Jumps /\ Imm'[j] = Imm[j] /\ Fixed'[j] = Fixed[j]
      BY <1>2, <1>3, <1>5, <2>1, Zenon
    <3>2. ASSUME Fixed[j] PROVE Over(j)' \in 0 .. Saved(Span(j))'
      <4>1. Seen(List[j].label) /\ Over(j) \in 0 .. Saved(Span(j))
        BY <2>1, <3>1, <3>2, ZenonT(20) DEF Items, ItemOK, JumpOK
      <4> QED
        BY <1>10, <3>1, <4>1, Zenon DEF Over
    <3> QED
      BY <3>1, <3>2, ZenonT(20) DEF JumpOK
  <2>2. CASE j = m
    <3>1. ~ Fixed'[j]
      BY <1>m, <1>3, <1>5, <2>2, Zenon DEF NewItem
    <3> QED
      BY <3>1 DEF JumpOK
  <2> QED
    BY <1>m, <1>2, <1>5, <2>1, <2>2, ZenonT(20)
<1>14. Items'
  <2>1. \A j \in 1..N' : ItemOK(j)'
    BY <1>m, <1>2, <1>11, <1>12, Zenon
  <2> QED
    BY <1>13, <2>1, ZenonT(20) DEF Items
<1> QED
  BY <1>6, <1>14

-----------------------------------------------------------------------------
(* The rest of the invariant. *)

\* An address is known only after that of the item before, whose length is
\* final.
Placed(k) ==
    IF k = 1 THEN XP[k] = 0
    ELSE KnownXP(k - 1) /\ Fixed[k - 1] /\ XP[k] = XP[k - 1] + MaxLength[k - 1]

Addresses == \A k \in 1..N : KnownXP(k) => Placed(k)

\* What each loop of Fix has done so far.  In the second one, a round without
\* progress still has the first item without an address in the queue.
Control ==
    /\ pc \in {"idle", "reason", "resort", "place"} /\ at \in Nat /\ progress \in BOOLEAN
    /\ Queue \in Seq(1..N)
    /\ Blocking \in [Name \cup 1..MaxItems -> Seq(1..N)]
    /\ pc = "resort" => at \in 1 .. N + 1 /\ \A k \in 1 .. at - 1 : Fixed[k]
    /\ pc = "place" => \A k \in 1..N : Fixed[k]
    /\ pc = "place" /\ ~ progress =>
          \A k \in 1..N : ~ KnownXP(k) /\ (k = 1 \/ KnownXP(k - 1)) =>
                            \E i \in 1 .. Len(Queue) : Queue[i] = k
    /\ ret \notin {"max length grew", "I done goofed"}
    /\ ret = "index out of range" => \E k \in Jumps : ~ Seen(List[k].label)

Inv == Struct /\ Items /\ Addresses /\ Control

\* What a step leaves alone.
Kept(k) ==
    /\ Fixed[k] => Fixed'[k] /\ Imm'[k] = Imm[k] /\ MaxLength'[k] = MaxLength[k]
    /\ KnownXP(k) => XP'[k] = XP[k]

LEMMA AddressesKept ==
    ASSUME Struct, Addresses, \A k \in 1..N : Kept(k),
           \A k \in 1..N' : KnownXP(k)' => k \in 1..N /\ (KnownXP(k) \/ Placed(k)')
    PROVE  Addresses'
<1> SUFFICES ASSUME NEW k \in 1..N', KnownXP(k)', KnownXP(k), k \in 1..N
             PROVE  Placed(k)'
  BY DEF Addresses
<1>1. Placed(k) /\ N \in Nat
  BY Parts, ZenonT(20) DEF Addresses
<1>2. XP'[k] = XP[k]
  <2>1. Kept(k)
    OBVIOUS
  <2> QED
    BY <2>1, Zenon DEF Kept
<1>3. CASE k = 1
  BY <1>1, <1>2, <1>3 DEF Placed
<1>4. CASE k # 1
  <2>1. k - 1 \in 1..N
    BY <1>1, <1>4
  <2>2. KnownXP(k - 1) /\ Fixed[k - 1] /\ XP[k] = XP[k - 1] + MaxLength[k - 1]
    BY <1>1, <1>4 DEF Placed
  <2>3. XP'[k - 1] = XP[k - 1] /\ Fixed'[k - 1] /\ MaxLength'[k - 1] = MaxLength[k - 1]
    BY <2>1, <2>2 DEF Kept
  <2> QED
    BY <1>2, <1>4, <2>2, <2>3 DEF Placed, KnownXP
<1> QED
  BY <1>3, <1>4

LEMMA SeqMono ==
    ASSUME NEW S, NEW T, S \subseteq T, NEW s \in Seq(S)
    PROVE  s \in Seq(T)
  OBVIOUS

LEMMA SeqTail ==
    ASSUME NEW T, NEW s \in Seq(T), NEW t \in Seq(T), s # <<>>
    PROVE  Tail(s) \o t \in Seq(T) /\ Head(s) \in T
  OBVIOUS

\* An item that is not the head stays in the queue.
LEMMA StaysInQueue ==
    ASSUME NEW T, NEW s \in Seq(T), NEW t \in Seq(T), s # <<>>,
           NEW i \in 1 .. Len(s), s[i] # Head(s)
    PROVE  \E j \in 1 .. Len(Tail(s) \o t) : (Tail(s) \o t)[j] = s[i]
<1>1. i - 1 \in 1 .. Len(Tail(s) \o t) /\ (Tail(s) \o t)[i - 1] = s[i]
  OBVIOUS
<1> QED
  BY <1>1, Zenon

-----------------------------------------------------------------------------
(* The steps. *)

LEMMA LinkStep ==
    ASSUME EncoderGrows(Offsets), Inv, pc = "idle",
           NEW item \in Call \cup Name, NEW fixed \in BOOLEAN, NEW imm \in Int, imm \in Offsets, NEW length \in Nat,
           link(item, fixed, imm, length), NewItem(item, fixed, imm, length),
           \/ Blocking' = Blocking
           \/ \E l \in Name : Blocking' = [Blocking EXCEPT ![l] = Append(@, N + 1)]
    PROVE  Inv' /\ \A k \in 1..N : Kept(k)
<1>1. Struct' /\ Items'
  BY Grow, Zenon DEF Inv, link
<1>2. N \in Nat /\ N' = N + 1 /\ 1..N \subseteq 1..N' /\ N + 1 \in 1..N'
  <2>1. N \in Nat /\ N' = N + 1
    BY DEF Inv, Struct, link, N
  <2> QED
    BY <2>1
<1>3. \A k \in 1..N : Fixed'[k] = Fixed[k] /\ XP'[k] = XP[k]
  <2>1. Len(Fixed) = N /\ Fixed \in Seq(BOOLEAN) /\ Fixed' = Append(Fixed, fixed)
    BY DEF Inv, Struct, link
  <2>2. Len(XP) = N /\ XP \in Seq(Nat \cup {Unknown}) /\ XP' = Append(XP, Unknown)
    BY DEF Inv, Struct, link
  <2>3. \A k \in 1..N : Fixed'[k] = Fixed[k]
    BY <2>1, AppendAt
  <2>4. \A k \in 1..N : XP'[k] = XP[k]
    BY <2>2, AppendAt
  <2> QED
    BY <2>3, <2>4
<1>4. \A k \in 1..N : Imm'[k] = Imm[k] /\ MaxLength'[k] = MaxLength[k]
  <2>1. /\ Len(Imm) = N /\ Imm \in Seq(Int) /\ Imm' = Append(Imm, imm)
        /\ Len(MaxLength) = N /\ MaxLength \in Seq(Nat) /\ MaxLength' = Append(MaxLength, length)
    BY ZenonT(20) DEF Inv, Struct, link
  <2> QED
    BY <2>1, AppendAt
<1>5. \A k \in 1..N : Kept(k)
  BY <1>3, <1>4, ZenonT(20) DEF Kept
<1>6. Addresses'
  <2>1. XP'[N + 1] = Unknown
    BY AppendAt, SMTT(40), Z3T(40) DEF Inv, Struct, link
  <2>2. ASSUME NEW k \in 1..N', KnownXP(k)' PROVE k \in 1..N /\ KnownXP(k)
    <3>1. k # N + 1
      BY <2>1, <2>2 DEF KnownXP
    <3>2. k \in 1..N
      BY <1>2, <3>1
    <3> QED
      BY <1>3, <2>2, <3>2 DEF KnownXP
  <2> QED
    BY <1>5, <2>2, AddressesKept, ZenonT(20) DEF Inv
<1>7. Control'
  <2>1. pc' = "idle" /\ at' = at /\ progress' = progress /\ Queue' = Queue /\ ret' = "nil"
    BY DEF link
  <2>2. Queue \in Seq(1..N')
    BY <1>2, SeqMono, Zenon DEF Inv, Control
  <2>3. Blocking' \in [Name \cup 1..MaxItems -> Seq(1..N')]
    <3>1. \A i \in Name \cup 1..MaxItems : Blocking[i] \in Seq(1..N')
      BY <1>2, SeqMono, Zenon DEF Inv, Control
    <3>2. Blocking \in [Name \cup 1..MaxItems -> Seq(1..N')]
      BY <3>1, Zenon DEF Inv, Control
    <3>3. \A i \in Name \cup 1..MaxItems : Append(Blocking[i], N + 1) \in Seq(1..N')
      BY <1>2, <3>1
    <3> QED
      BY <3>2, <3>3, Zenon
  <2> QED
    BY <2>1, <2>2, <2>3, Zenon DEF Inv, Control
<1> QED
  BY <1>1, <1>5, <1>6, <1>7 DEF Inv

LEMMA PanicStep ==
    ASSUME Inv, NEW m, panic(m), m \notin {"max length grew", "I done goofed"},
           m = "index out of range" => \E k \in Jumps : ~ Seen(List[k].label)
    PROVE  Inv' /\ \A k \in 1..N : Kept(k)
<1>1. UNCHANGED <<List, Index, XP, Fixed, Imm, MaxLength, Blocking, Queue, progress, at, saved>>
      /\ pc' = "idle" /\ ret' = m
  BY Zenon DEF panic, items
<1>2. Struct' /\ Items' /\ Addresses'
  BY <1>1, ZenonT(40) DEF Inv, Struct, Items, Addresses, N, Seen, IsOp, Jumps, ItemOK, JumpOK, Over, Offset, Placed,
     Lengths, Saved, Span, Forward, encoded, KnownXP
<1>3. Control'
  BY <1>1, Zenon DEF Inv, Control, N, Jumps, IsOp, Seen
<1>4. \A k \in 1..N : Kept(k)
  BY <1>1, Zenon DEF Kept
<1> QED
  BY <1>2, <1>3, <1>4, Zenon DEF Inv

LEMMA EmitStep ==
    ASSUME EncoderGrows(Offsets), Inv, (\E l \in Name : EmitLabel(l)) \/ (\E c \in Call : EmitOp(c))
    PROVE  Inv' /\ \A k \in 1..N : Kept(k)
<1>1. ASSUME NEW l \in Name, EmitLabel(l) PROVE Inv' /\ \A k \in 1..N : Kept(k)
  <2>1. CASE panic("item used twice")
    BY <2>1, PanicStep, Zenon
  <2>2. CASE ~ Seen(l) /\ Index' = [Index EXCEPT ![l] = N + 1] /\ link(l, TRUE, 0, 0) /\ UNCHANGED Blocking
    <3>1. NewItem(l, TRUE, 0, 0)
      BY <2>2 DEF NewItem
    <3>2. pc = "idle"
      BY <1>1, Zenon DEF EmitLabel
    <3>3. l \in Call \cup Name /\ TRUE \in BOOLEAN /\ 0 \in Int /\ 0 \in Nat /\ 0 \in Offsets
      BY BoundsAssumption DEF Offsets
    <3> QED
      BY <2>2, <3>1, <3>2, <3>3, LinkStep, Zenon
  <2> QED
    BY <1>1, <2>1, <2>2, Zenon DEF EmitLabel
<1>2. ASSUME NEW c \in Call, EmitOp(c) PROVE Inv' /\ \A k \in 1..N : Kept(k)
  <2>0. c \notin Name /\ MaxOffset \in Int /\ 0 \in Int /\ c.label \in Name \cup {None}
        /\ 0 \in Offsets /\ MaxOffset \in Offsets
    BY BoundsAssumption DEF Offsets
  <2>1. CASE panic("bad immediate")
    BY <2>1, PanicStep, Zenon
  <2>2. CASE /\ Accepts(c) /\ c.label = None /\ link(c, TRUE, 0, Len(Encoding(c, 0)))
             /\ UNCHANGED <<Index, Blocking>>
    <3>1. Len(Encoding(c, 0)) \in Nat
      BY <2>0, <2>2, Encodes, ZenonT(20)
    <3>2. NewItem(c, TRUE, 0, Len(Encoding(c, 0)))
      BY <2>0, <2>2 DEF NewItem
    <3>3. pc = "idle"
      BY <1>2, Zenon DEF EmitOp
    <3>4. c \in Call \cup Name /\ TRUE \in BOOLEAN /\ 0 \in Int /\ Blocking' = Blocking
      BY <2>2
    <3> QED
      BY <2>0, <2>2, <3>1, <3>2, <3>3, <3>4, LinkStep, Zenon
  <2>3. CASE /\ Accepts(c) /\ c.label # None /\ link(c, FALSE, MaxOffset, Len(Encoding(c, MaxOffset)))
             /\ Blocking' = [Blocking EXCEPT ![c.label] = Append(@, N + 1)] /\ UNCHANGED Index
    <3>1. Len(Encoding(c, MaxOffset)) \in Nat /\ c.label \in Name
      BY <2>0, <2>3, Encodes
    <3>2. NewItem(c, FALSE, MaxOffset, Len(Encoding(c, MaxOffset)))
      BY <2>0, <2>3 DEF NewItem
    <3>3. pc = "idle"
      BY <1>2, Zenon DEF EmitOp
    <3> QED
      BY <2>0, <2>3, <3>1, <3>2, <3>3, LinkStep, ZenonT(40)
  <2> QED
    BY <1>2, <2>1, <2>2, <2>3, Zenon DEF EmitOp
<1> QED
  BY <1>1, <1>2

\* A jump that is to be fixed has a distance, which needs no more than its
\* length.
LEMMA Pending ==
    ASSUME EncoderGrows(Offsets), Struct, Items, NEW k \in 1..N
    PROVE  /\ ~ Fixed[k] => k \in Jumps
           /\ ~ Fixed[k] /\ Seen(List[k].label) =>
                 /\ distance(k) = Offset(k) /\ Offset(k) \in Offsets /\ Offset(k) \in Int
                 /\ encoded(k, Offset(k)) \in Nat
                 /\ encoded(k, Offset(k)) <= MaxLength[k]
                 /\ ~ Forward(k) => ~ exact(k) /\ Offset(k) + 1 <= 0 /\ Offset(k) + 1 \in Offsets
                                    /\ encoded(k, Offset(k) + 1) \in Nat
                                    /\ encoded(k, Offset(k) + 1) <= encoded(k, Offset(k))
           /\ ~ grew(k)
<1>0. ItemOK(k) /\ MaxLength[k] \in Nat
  BY Parts DEF Items
<1>1. ~ Fixed[k] => k \in Jumps
  BY <1>0 DEF ItemOK
<1>2. ASSUME ~ Fixed[k], Seen(List[k].label)
      PROVE  /\ distance(k) = Offset(k) /\ Offset(k) \in Offsets /\ Offset(k) \in Int
             /\ encoded(k, Offset(k)) \in Nat
             /\ encoded(k, Offset(k)) <= MaxLength[k]
  <2>1. distance(k) = Offset(k) /\ Offset(k) \in Offsets /\ Offset(k) \in Int
    BY <1>1, <1>2, DistanceIs, BoundsAssumption, SMTT(40), Z3T(40) DEF Offsets
  <2>2. encoded(k, Offset(k)) \in Nat
    BY <1>1, <1>2, <2>1, Spans, Encodes DEF encoded
  <2> QED
    BY <1>0, <1>2, <2>1, <2>2, ZenonT(20) DEF ItemOK
<1>3. ASSUME ~ Fixed[k], Seen(List[k].label), ~ Forward(k)
      PROVE  /\ ~ exact(k) /\ Offset(k) + 1 <= 0 /\ Offset(k) + 1 \in Offsets
             /\ encoded(k, Offset(k) + 1) \in Nat
             /\ encoded(k, Offset(k) + 1) <= encoded(k, Offset(k))
  <2>1. k \in Jumps /\ k \in Span(k) /\ List[k] \in Call /\ Accepts(List[k]) /\ IsOp(k)
    BY <1>1, <1>3, Spans, Zenon
  <2>2. ~ exact(k)
    BY <1>3, <2>1 DEF exact
  <2>3. MaxLength[k] # 0
    BY <1>0, <2>1 DEF ItemOK
  <2>4. Lengths(Span(k)) \in Nat /\ Lengths(Span(k)) <= MaxOffset /\ MaxLength[k] <= Lengths(Span(k))
    BY <2>1, LengthsType
  <2>5. Offset(k) = - Lengths(Span(k))
    BY <1>3 DEF Offset
  <2>6. /\ Offset(k) \in Offsets /\ Offset(k) \in Int /\ Offset(k) + 1 \in Int
        /\ Offset(k) <= Offset(k) + 1 /\ Offset(k) + 1 <= 0 /\ Offset(k) + 1 \in Offsets
    BY <1>0, <2>3, <2>4, <2>5, BoundsAssumption, SMTT(40), Z3T(40) DEF Offsets
  <2>7. /\ Len(Encoding(List[k], Offset(k) + 1)) \in Nat
        /\ Len(Encoding(List[k], Offset(k) + 1)) <= Len(Encoding(List[k], Offset(k)))
    BY <2>1, <2>6, Encodes
  <2> QED
    BY <2>2, <2>6, <2>7, ZenonT(20) DEF encoded
<1>4. ~ grew(k)
  <2>1. CASE ~ Fixed[k] /\ Seen(List[k].label)
    BY <1>0, <1>2, <2>1, SMTT(40), Z3T(40) DEF grew
  <2> QED
    BY <2>1 DEF grew, pending
<1> QED
  BY <1>1, <1>2, <1>3, <1>4, ZenonT(20)

\* A change of addresses alone does not disturb lengths and offsets.
LEMMA SameItems ==
    ASSUME Struct, Items, UNCHANGED <<List, Index, Fixed, Imm, MaxLength, saved>>,
           XP' \in Seq(Nat \cup {Unknown}), Len(XP') = N
    PROVE  Struct' /\ Items'
<1>1. Struct'
  BY ZenonT(20) DEF Struct, N, Seen, IsOp
<1>2. Items'
  BY ZenonT(40) DEF Items, N, Seen, IsOp, Jumps, ItemOK, JumpOK, Over, Offset, Lengths, Saved, Span,
                    Forward, encoded
<1> QED
  BY <1>1, <1>2

LEMMA UpdateSeq ==
    ASSUME NEW T, NEW s \in Seq(T), NEW k \in 1 .. Len(s), NEW e \in T,
           NEW r, r = [s EXCEPT ![k] = e]
    PROVE  /\ r \in Seq(T) /\ Len(r) = Len(s)
           /\ r[k] = e /\ \A j \in 1 .. Len(s) : j # k => r[j] = s[j]
  OBVIOUS

LEMMA AddressOf ==
    ASSUME Struct, Items, NEW k \in 1..N
    PROVE  /\ address(k) \in Nat \cup {Unknown}
           /\ address(k) # Unknown =>
                 IF k = 1 THEN address(k) = 0
                 ELSE KnownXP(k - 1) /\ Fixed[k - 1] /\ address(k) = XP[k - 1] + MaxLength[k - 1]
           /\ address(k) = Unknown => k # 1 /\ ~ (KnownXP(k - 1) /\ Fixed[k - 1])
<1>1. CASE k = 1
  BY <1>1 DEF address, Unknown
<1>2. CASE k # 1
  <2>1. k - 1 \in 1..N
    BY <1>2, Parts
  <2>2. XP[k - 1] \in Nat \cup {Unknown} /\ MaxLength[k - 1] \in Nat
    BY <2>1, Parts
  <2>3. Fixed[k - 1] => Len(Bytes(k - 1)) = MaxLength[k - 1]
    BY <2>1, SizeIs DEF Items
  <2>4. KnownXP(k - 1) => XP[k - 1] \in Nat
    BY <2>2 DEF KnownXP
  <2> QED
    BY <1>2, <2>2, <2>3, <2>4, SMTT(40), Z3T(40) DEF address, Unknown
<1> QED
  BY <1>1, <1>2, ZenonT(20)

LEMMA ProcessItemStep ==
    ASSUME EncoderGrows(Offsets), Inv, processItem
    PROVE  Inv' /\ \A j \in 1..N : Kept(j)
<1>0. /\ Struct /\ Items /\ Addresses /\ Control
      /\ pc \in {"reason", "place"} /\ Queue # <<>> /\ UNCHANGED <<List, Index, at>>
  BY Zenon DEF Inv, processItem
<1>1. PICK k \in 1..N : k = Head(Queue)
  BY <1>0, SeqTail, Zenon DEF Control
<1>2. ~ grew(k)
  BY <1>0, Pending
<1>3. PICK prog0 \in BOOLEAN : \E prog1 \in BOOLEAN :
         trySetXP(k, prog0) /\ tryFix(k, prog1) /\ progress' = (progress \/ prog0 \/ prog1)
  BY <1>1, Zenon DEF processItem
<1>4. PICK prog1 \in BOOLEAN :
         trySetXP(k, prog0) /\ tryFix(k, prog1) /\ progress' = (progress \/ prog0 \/ prog1)
  BY <1>3
<1>5. /\ Queue' = Tail(Queue) \o Blocking[Item(k)]
      /\ Blocking' = [(IF waits(k) THEN [Blocking EXCEPT ![Item(k - 1)] = Append(@, k)] ELSE Blocking)
                        EXCEPT ![Item(k)] = <<>>]
      /\ ret' = ret /\ pc' = pc
      /\ saved' = [saved EXCEPT ![k] = IF Passed(k) THEN @ + MaxLength[k] - MaxLength'[k] ELSE @]
  BY <1>1, <1>2, Zenon DEF processItem
<1>6. /\ N \in Nat /\ DOMAIN XP = 1..N /\ DOMAIN MaxLength = 1..N /\ DOMAIN saved = 1..N
      /\ DOMAIN Fixed = 1..N /\ DOMAIN Imm = 1..N
      /\ MaxLength[k] \in Nat /\ saved[k] \in Nat
  BY <1>0, Parts
<1>7. N' = N
  BY <1>0 DEF N
<1>8. /\ XP' \in Seq(Nat \cup {Unknown}) /\ Len(XP') = N
      /\ \A j \in 1..N : j # k => XP'[j] = XP[j]
      /\ KnownXP(k) => XP'[k] = XP[k]
      /\ ~ KnownXP(k) => XP'[k] = address(k) /\ (prog0 <=> address(k) # Unknown)
  <2>1. CASE KnownXP(k) /\ XP' = XP
    BY <1>0, <2>1 DEF Struct
  <2>2. CASE ~ KnownXP(k) /\ XP' = [XP EXCEPT ![k] = address(k)] /\ prog0 = (address(k) # Unknown)
    <3>1. address(k) \in Nat \cup {Unknown}
      BY <1>0, AddressOf
    <3>2. XP \in Seq(Nat \cup {Unknown}) /\ Len(XP) = N
      BY <1>0 DEF Struct
    <3>3. /\ XP' \in Seq(Nat \cup {Unknown}) /\ Len(XP') = N
          /\ XP'[k] = address(k) /\ \A j \in 1..N : j # k => XP'[j] = XP[j]
      BY <2>2, <3>1, <3>2, UpdateSeq
    <3>4. prog0 <=> address(k) # Unknown
      BY <2>2, Zenon
    <3> QED
      BY <2>2, <3>3, <3>4
  <2> QED
    BY <1>4, <2>1, <2>2 DEF trySetXP
<1>9. /\ Struct' /\ Items'
      /\ \A j \in 1..N : Fixed[j] => Fixed'[j] /\ Imm'[j] = Imm[j] /\ MaxLength'[j] = MaxLength[j]
  <2>1. CASE ~ pending(k) /\ UNCHANGED <<Imm, MaxLength, Fixed>>
    <3>1. saved' = saved
      <4>1. (IF Passed(k) THEN saved[k] + MaxLength[k] - MaxLength'[k] ELSE saved[k]) = saved[k]
        BY <1>6, <2>1
      <4> QED
        BY <1>0, <1>5, <1>6, <4>1, SMTT(40), Z3T(40) DEF Struct
    <3>2. Struct' /\ Items'
      BY <1>0, <1>8, <2>1, <3>1, SameItems, ZenonT(20)
    <3> QED
      BY <2>1, <3>2
  <2>2. CASE /\ pending(k)
             /\ Imm' = [Imm EXCEPT ![k] = distance(k)]
             /\ MaxLength' = [MaxLength EXCEPT ![k] = IF grew(k) THEN @ ELSE encoded(k, distance(k))]
             /\ Fixed' = [Fixed EXCEPT ![k] = exact(k)]
    <3> DEFINE n == Offset(k)
               d == IF Passed(k) THEN MaxLength[k] - encoded(k, n) ELSE 0
    <3>1. ~ Fixed[k] /\ Seen(List[k].label)
      BY <2>2 DEF pending
    <3>2. /\ k \in Jumps /\ distance(k) = n /\ n \in Int /\ n \in Offsets
          /\ encoded(k, n) \in Nat /\ encoded(k, n) <= MaxLength[k]
          /\ ~ Forward(k) => ~ exact(k)
      BY <1>0, <3>1, Pending
    <3>3. /\ Imm' = [Imm EXCEPT ![k] = n] /\ MaxLength' = [MaxLength EXCEPT ![k] = encoded(k, n)]
          /\ Fixed' = [Fixed EXCEPT ![k] = exact(k)]
      BY <1>2, <2>2, <3>2
    <3>4. d \in Nat
      BY <1>6, <3>2
    <3>5. saved' = [saved EXCEPT ![k] = @ + d]
      <4>1. MaxLength'[k] = encoded(k, n)
        BY <1>6, <3>3
      <4>2. (IF Passed(k) THEN saved[k] + MaxLength[k] - MaxLength'[k] ELSE saved[k]) = saved[k] + d
        BY <1>6, <3>2, <4>1
      <4> QED
        BY <1>5, <4>2, ZenonT(40)
    <3>6. Passed(k) \/ (exact(k) /\ ~ Forward(k)) => d = MaxLength[k] - encoded(k, n)
      BY <3>2
    <3>7. exact(k) \in BOOLEAN
      BY DEF exact
    <3> HIDE DEF n, d
    <3>8. n = Offset(k)
      BY DEF n
    <3>9. Struct' /\ Items'
      BY <1>0, <1>8, <3>1, <3>2, <3>3, <3>4, <3>5, <3>6, <3>7, <3>8, Shrink, Zenon
    <3>10. \A j \in 1..N : Fixed[j] => j # k
      BY <3>1
    <3>11. \A j \in 1..N : j # k => Fixed'[j] = Fixed[j]
      BY <1>6, <3>3, Zenon
    <3>12. \A j \in 1..N : j # k => Imm'[j] = Imm[j] /\ MaxLength'[j] = MaxLength[j]
      BY <1>6, <3>3, ZenonT(20)
    <3> QED
      BY <3>9, <3>10, <3>11, <3>12
  <2> QED
    BY <1>4, <2>1, <2>2 DEF tryFix
<1>10. \A j \in 1..N : Kept(j)
  BY <1>8, <1>9 DEF Kept
<1>11. Addresses'
  <2>1. ASSUME NEW j \in 1..N, KnownXP(j)', ~ KnownXP(j) PROVE Placed(j)'
    <3>1. j = k
      BY <1>8, <2>1 DEF KnownXP
    <3>2. XP'[k] = address(k) /\ address(k) # Unknown
      BY <1>8, <2>1, <3>1 DEF KnownXP, Unknown
    <3>3. IF k = 1 THEN address(k) = 0
          ELSE KnownXP(k - 1) /\ Fixed[k - 1] /\ address(k) = XP[k - 1] + MaxLength[k - 1]
      BY <1>0, <3>2, AddressOf
    <3>4. CASE k = 1
      BY <3>1, <3>2, <3>3, <3>4 DEF Placed
    <3>5. CASE k # 1
      <4>1. k - 1 \in 1..N /\ k - 1 # k
        BY <1>6, <3>5
      <4>2. XP'[k - 1] = XP[k - 1] /\ Fixed'[k - 1] /\ MaxLength'[k - 1] = MaxLength[k - 1]
        BY <1>8, <1>9, <3>3, <3>5, <4>1
      <4> QED
        BY <3>1, <3>2, <3>3, <3>5, <4>2 DEF Placed, KnownXP
    <3> QED
      BY <3>4, <3>5
  <2> QED
    BY <1>0, <1>7, <1>10, <2>1, AddressesKept
<1>12. /\ Queue \in Seq(1..N) /\ Blocking[Item(k)] \in Seq(1..N)
       /\ Queue' \in Seq(1..N)
       /\ Blocking' \in [Name \cup 1..MaxItems -> Seq(1..N)]
  <2>1. \A j \in 1..N : Item(j) \in Name \cup 1..MaxItems
    <3>1. 1..N \subseteq 1..MaxItems
      BY <1>0, <1>6, BoundsAssumption DEF Struct
    <3> QED
      BY <3>1 DEF Item, IsOp
  <2>2. Queue \in Seq(1..N) /\ Blocking \in [Name \cup 1..MaxItems -> Seq(1..N)]
    BY <1>0, Zenon DEF Control
  <2>3. Blocking[Item(k)] \in Seq(1..N)
    BY <2>1, <2>2, ZenonT(20)
  <2>4. Queue' \in Seq(1..N)
    BY <1>0, <1>5, <2>2, <2>3, SeqTail, ZenonT(20)
  <2>5. waits(k) => k # 1 /\ Item(k - 1) \in Name \cup 1..MaxItems
    <3>1. waits(k) => k # 1
      BY <1>0, AddressOf DEF waits
    <3>2. k # 1 => k - 1 \in 1..N
      BY <1>6
    <3> QED
      BY <2>1, <3>1, <3>2
  <2> DEFINE b == IF waits(k) THEN [Blocking EXCEPT ![Item(k - 1)] = Append(@, k)] ELSE Blocking
  <2>6. b \in [Name \cup 1..MaxItems -> Seq(1..N)]
    BY <2>2, <2>5
  <2>7. <<>> \in Seq(1..N) /\ Blocking' = [b EXCEPT ![Item(k)] = <<>>]
    BY <1>5
  <2> HIDE DEF b
  <2>8. Blocking' \in [Name \cup 1..MaxItems -> Seq(1..N)]
    BY <2>6, <2>7, Zenon
  <2> QED
    BY <2>2, <2>3, <2>4, <2>8
<1>13. pc = "place" => \A j \in 1..N : Fixed'[j]
  BY <1>0, <1>9, Zenon DEF Control
<1>14. ASSUME pc = "place", ~ progress', NEW j \in 1..N, ~ KnownXP(j)', j = 1 \/ KnownXP(j - 1)'
       PROVE  \E i \in 1 .. Len(Queue') : Queue'[i] = j
  <2>1. ~ progress /\ ~ prog0
    BY <1>4, <1>14, Zenon
  <2>2. \A i \in 1..N : XP'[i] = XP[i]
    BY <1>8, <2>1 DEF KnownXP
  <2>3. ~ KnownXP(j) /\ (j = 1 \/ KnownXP(j - 1))
    <3>1. j # 1 => j - 1 \in 1..N
      BY <1>6
    <3> QED
      BY <1>14, <2>2, <3>1 DEF KnownXP
  <2>4. PICK i \in 1 .. Len(Queue) : Queue[i] = j
    BY <1>0, <1>14, <2>1, <2>3, Zenon DEF Control
  <2>5. j # k
    <3>1. SUFFICES ASSUME j = k PROVE FALSE
      OBVIOUS
    <3>2. address(k) = Unknown
      BY <1>8, <2>1, <2>3, <3>1
    <3>3. k # 1 /\ ~ (KnownXP(k - 1) /\ Fixed[k - 1])
      BY <1>0, <3>2, AddressOf
    <3>4. k - 1 \in 1..N
      BY <1>6, <3>3
    <3>5. Fixed[k - 1]
      BY <1>0, <1>14, <3>4, Zenon DEF Control
    <3> QED
      BY <2>3, <3>1, <3>3, <3>5
  <2>6. Queue # <<>> /\ Queue[i] # Head(Queue)
    BY <1>0, <1>1, <2>4, <2>5
  <2> DEFINE t == Blocking[Item(k)]
  <2>7. t \in Seq(1..N) /\ Queue \in Seq(1..N)
    BY <1>12
  <2>8. Queue' = Tail(Queue) \o t
    BY <1>5
  <2> HIDE DEF t
  <2>9. \E m \in 1 .. Len(Tail(Queue) \o t) : (Tail(Queue) \o t)[m] = Queue[i]
    BY <2>6, <2>7, StaysInQueue, Zenon
  <2> QED
    BY <2>4, <2>8, <2>9, Zenon
<1>15. Control'
  <2>1. progress' \in BOOLEAN
    BY <1>4
  <2>2. ret' = "index out of range" => \E j \in Jumps' : ~ Seen(List[j].label)'
    BY <1>0, <1>5, Zenon DEF Control, Jumps, Seen, IsOp, N
  <2>3. pc' \in {"idle", "reason", "resort", "place"} /\ pc' # "resort" /\ at' \in Nat
        /\ ret' \notin {"max length grew", "I done goofed"}
    BY <1>0, <1>5, Zenon DEF Control
  <2>4. pc' = "place" /\ ~ progress' => \A j \in 1..N' : ~ KnownXP(j)' /\ (j = 1 \/ KnownXP(j - 1)') =>
                                            \E i \in 1 .. Len(Queue') : Queue'[i] = j
    BY <1>5, <1>7, <1>14, Zenon
  <2>5. pc' = "place" => \A j \in 1..N' : Fixed'[j]
    BY <1>5, <1>7, <1>13
  <2>6. Queue' \in Seq(1..N') /\ Blocking' \in [Name \cup 1..MaxItems -> Seq(1..N')]
    BY <1>7, <1>12
  <2> QED
    BY <2>1, <2>2, <2>3, <2>4, <2>5, <2>6, Zenon DEF Control
<1> QED
  BY <1>9, <1>10, <1>11, <1>15 DEF Inv

LEMMA LastResortStep ==
    ASSUME EncoderGrows(Offsets), Inv, LastResort
    PROVE  Inv' /\ \A j \in 1..N : Kept(j)
<1>0. Struct /\ Items /\ Addresses /\ Control /\ pc = "resort" /\ at <= N
  BY Zenon DEF Inv, LastResort
<1>1. PICK k \in 1..N : k = at
  <2>1. N \in Nat /\ at \in 1 .. N + 1
    BY <1>0, Parts, Zenon DEF Control
  <2>2. at \in 1..N
    BY <1>0, <2>1
  <2> QED
    BY <2>2
<1>2. /\ N \in Nat /\ DOMAIN MaxLength = 1..N /\ DOMAIN saved = 1..N
      /\ DOMAIN Fixed = 1..N /\ DOMAIN Imm = 1..N
      /\ MaxLength[k] \in Nat /\ saved[k] \in Nat /\ \A j \in 1..N : Fixed[j] \in BOOLEAN
  BY <1>0, Parts
<1>3. CASE /\ Fixed[k] /\ at' = k + 1
           /\ UNCHANGED <<items, Blocking, Queue, progress, pc, program, ret, calls, saved>>
  <2>1. UNCHANGED <<List, Index, XP, Fixed, Imm, MaxLength, Blocking, Queue, progress, pc, ret, saved>>
    BY <1>3 DEF items
  <2>2. XP' \in Seq(Nat \cup {Unknown}) /\ Len(XP') = N
    BY <1>0, <2>1 DEF Struct
  <2>3. Struct' /\ Items'
    BY <1>0, <2>1, <2>2, SameItems
  <2>4. Addresses'
    BY <1>0, <2>1 DEF Addresses, Placed, KnownXP, N
  <2>5. at' \in 1 .. N + 1 /\ \A j \in 1 .. at' - 1 : Fixed[j]
    <3>1. \A j \in 1 .. at' - 1 : j \in 1 .. at - 1 \/ j = k
      BY <1>1, <1>2, <1>3
    <3>2. \A j \in 1 .. at - 1 : Fixed[j]
      BY <1>0, Zenon DEF Control
    <3>3. at' \in 1 .. N + 1
      BY <1>1, <1>2, <1>3
    <3> QED
      BY <1>3, <3>1, <3>2, <3>3
  <2>6. N' = N /\ Jumps' = Jumps /\ \A l : Seen(l)' <=> Seen(l)
    BY <2>1, SameList
  <2>7. at' \in Nat
    BY <1>2, <2>5
  <2>8. Control'
    BY <1>0, <2>1, <2>5, <2>6, <2>7, Zenon DEF Control
  <2>9. \A j \in 1..N : Kept(j)
    BY <2>1 DEF Kept
  <2> QED
    BY <2>3, <2>4, <2>8, <2>9 DEF Inv
<1>4. CASE ~ Fixed[k] /\ ~ Seen(List[k].label) /\ panic("index out of range")
  <2>1. k \in Jumps
    BY <1>0, <1>4, Pending, Zenon
  <2> QED
    BY <1>4, <2>1, PanicStep, ZenonT(40)
<1>5. CASE /\ ~ Fixed[k] /\ Seen(List[k].label)
           /\ Imm' = [Imm EXCEPT ![k] = lastResort(k)]
           /\ MaxLength' = [MaxLength EXCEPT ![k] = encoded(k, lastResort(k))]
           /\ Fixed' = [Fixed EXCEPT ![k] = TRUE]
           /\ saved' = [saved EXCEPT ![k] = @ + MaxLength[k] - MaxLength'[k]]
           /\ at' = k + 1
           /\ UNCHANGED <<List, Index, XP, Blocking, Queue, progress, pc, program, ret, calls>>
  <2> DEFINE n == lastResort(k)
             d == MaxLength[k] - encoded(k, n)
  <2>1. /\ k \in Jumps /\ distance(k) = Offset(k) /\ Offset(k) \in Offsets /\ Offset(k) \in Int
        /\ encoded(k, Offset(k)) \in Nat /\ encoded(k, Offset(k)) <= MaxLength[k]
        /\ ~ Forward(k) => /\ encoded(k, Offset(k) + 1) \in Nat /\ Offset(k) + 1 \in Offsets
                           /\ encoded(k, Offset(k) + 1) <= encoded(k, Offset(k))
    BY <1>0, <1>5, Pending, ZenonT(40)
  <2>2. /\ n \in Int /\ n \in Offsets /\ encoded(k, n) \in Nat /\ encoded(k, n) <= MaxLength[k]
        /\ \/ n = Offset(k)
           \/ n = Offset(k) + 1 /\ ~ Forward(k) /\ encoded(k, n) < MaxLength[k]
    <3>1. CASE k > Index[List[k].label] /\ encoded(k, Offset(k) + 1) # encoded(k, Offset(k))
      <4>1. n = Offset(k) + 1
        BY <2>1, <3>1, ZenonT(20) DEF lastResort
      <4>2. ~ Forward(k)
        BY <1>0, <1>2, <2>1, <3>1, Spans, SMTT(40), Z3T(40) DEF Forward
      <4> HIDE DEF n
      <4> QED
        BY <1>2, <2>1, <3>1, <4>1, <4>2, SMTT(40), Z3T(40)
    <3>2. CASE ~ (k > Index[List[k].label] /\ encoded(k, Offset(k) + 1) # encoded(k, Offset(k)))
      <4>1. n = Offset(k)
        BY <2>1, <3>2 DEF lastResort
      <4> HIDE DEF n
      <4> QED
        BY <2>1, <4>1, ZenonT(20)
    <3> QED
      BY <3>1, <3>2, ZenonT(20)
  <2>3. /\ Imm' = [Imm EXCEPT ![k] = n] /\ MaxLength' = [MaxLength EXCEPT ![k] = encoded(k, n)]
    BY <1>5
  <2> HIDE DEF n
  <2>4. d \in Nat
    BY <1>2, <2>2
  <2>5. saved' = [saved EXCEPT ![k] = @ + d]
    <3>1. MaxLength'[k] = encoded(k, n)
      BY <1>2, <2>3
    <3>2. saved[k] + MaxLength[k] - MaxLength'[k] = saved[k] + d
      BY <1>2, <2>2, <3>1
    <3> QED
      BY <1>5, <3>2, Zenon
  <2>6. d = MaxLength[k] - encoded(k, n)
    OBVIOUS
  <2> HIDE DEF d
  <2>7. XP' \in Seq(Nat \cup {Unknown}) /\ Len(XP') = N /\ UNCHANGED <<List, Index>>
    BY <1>0, <1>5, Zenon DEF Struct
  <2>8. TRUE \in BOOLEAN /\ Fixed' = [Fixed EXCEPT ![k] = TRUE]
    BY <1>5, ZenonT(20)
  <2>9. Struct' /\ Items'
    BY <1>0, <1>5, <2>1, <2>2, <2>3, <2>4, <2>5, <2>6, <2>7, <2>8, Shrink, Zenon
  <2>10. \A j \in 1..N : j # k => Fixed'[j] = Fixed[j]
    BY <1>2, <2>8, Zenon
  <2>11. Fixed'[k]
    BY <1>2, <2>8, Zenon
  <2>12. \A j \in 1..N : j # k => Imm'[j] = Imm[j] /\ MaxLength'[j] = MaxLength[j]
    BY <1>2, <2>3
  <2>13. \A j \in 1..N : Fixed[j] => j # k
    BY <1>5
  <2>14. \A j \in 1..N : Kept(j)
    BY <1>5, <2>10, <2>12, <2>13 DEF Kept
  <2>15. N' = N /\ Jumps' = Jumps /\ \A l : Seen(l)' <=> Seen(l)
    BY <2>7, SameList
  <2>16. Addresses'
    <3>1. \A j \in 1..N' : KnownXP(j)' => j \in 1..N /\ KnownXP(j)
      BY <1>5, <2>15 DEF KnownXP
    <3> QED
      BY <1>0, <2>14, <3>1, AddressesKept
  <2>17. at' \in 1 .. N + 1 /\ \A j \in 1 .. at' - 1 : Fixed'[j]
    <3>1. \A j \in 1 .. at' - 1 : j \in 1 .. at - 1 \/ j = k
      BY <1>1, <1>2, <1>5
    <3>2. \A j \in 1 .. at - 1 : Fixed[j]
      BY <1>0, Zenon DEF Control
    <3>4. \A j \in 1 .. at - 1 : j \in 1..N /\ j # k
      BY <1>1, <1>2
    <3>3. at' \in 1 .. N + 1
      BY <1>1, <1>2, <1>5
    <3> QED
      BY <2>10, <2>11, <3>1, <3>2, <3>3, <3>4
  <2>18. at' \in Nat
    BY <1>2, <2>17
  <2>19. Control'
    <3>1. UNCHANGED <<Blocking, Queue, progress, pc, ret, List>>
      BY <1>5
    <3> QED
      BY <1>0, <2>15, <2>17, <2>18, <3>1, Zenon DEF Control
  <2> QED
    BY <2>9, <2>14, <2>16, <2>19, ZenonT(20) DEF Inv
<1> QED
  BY <1>0, <1>1, <1>3, <1>4, <1>5, Zenon DEF LastResort

\* If the first item without an address is in the queue, and the queue is
\* empty, every item has one.
LEMMA AllPlaced ==
    ASSUME Inv, pc = "place", ~ progress, Queue = <<>>
    PROVE  Done
<1>0. Struct /\ Control /\ N \in Nat
  BY Parts DEF Inv
<1>1. \A k \in 1..N : Fixed[k]
  BY <1>0, Zenon DEF Control
<1>2. \A k \in 1..N : KnownXP(k) \/ ~ (k = 1 \/ KnownXP(k - 1))
  <2>1. 1 .. Len(Queue) = {}
    OBVIOUS
  <2>2. \A k \in 1..N : ~ KnownXP(k) /\ (k = 1 \/ KnownXP(k - 1)) =>
                            \E i \in 1 .. Len(Queue) : Queue[i] = k
    BY <1>0, Zenon DEF Control
  <2> QED
    BY <2>1, <2>2, Zenon
<1> DEFINE T == {k \in 1..N : ~ KnownXP(k)}
<1>3. T = {}
  <2>1. SUFFICES ASSUME T # {} PROVE FALSE
    OBVIOUS
  <2>2. T \subseteq Nat
    OBVIOUS
  <2>3. PICK n \in T : \A m \in T : n <= m
    <3> HIDE DEF T
    <3> QED
      BY <2>1, <2>2, LeastNat, Zenon
  <2>4. n \in 1..N /\ ~ KnownXP(n) /\ n # 1 /\ ~ KnownXP(n - 1)
    BY <1>2
  <2>5. n - 1 \in 1..N /\ ~ (n <= n - 1)
    BY <1>0, <2>4
  <2> QED
    BY <2>3, <2>4, <2>5
<1> QED
  BY <1>1, <1>3 DEF Done

\* The steps of Fix that decide nothing.
LEMMA ControlStep ==
    ASSUME Inv, Finish \/ EndOfRound \/ EndOfReasoning \/ EndOfLastResort \/ Return \/ UNCHANGED vars
    PROVE  Inv' /\ \A j \in 1..N : Kept(j)
<1>0. Struct /\ Items /\ Addresses /\ Control /\ N \in Nat
  BY Parts DEF Inv
<1>1. ~ (Return /\ panic("I done goofed") /\ ~ Done)
  BY AllPlaced, Zenon DEF Return
<1>2. UNCHANGED <<List, Index, XP, Fixed, Imm, MaxLength, Blocking, saved>>
  BY <1>1, Zenon DEF Finish, EndOfRound, EndOfReasoning, EndOfLastResort, Return, vars, items, panic
<1>3. XP' \in Seq(Nat \cup {Unknown}) /\ Len(XP') = N
  BY <1>0, <1>2 DEF Struct
<1>4. Struct' /\ Items'
  BY <1>0, <1>2, <1>3, SameItems
<1>5. Addresses'
  BY <1>0, <1>2 DEF Addresses, Placed, KnownXP, N
<1>6. \A j \in 1..N : Kept(j)
  BY <1>2 DEF Kept
<1>7. N' = N /\ Jumps' = Jumps /\ (\A l : Seen(l)' <=> Seen(l)) /\ \A j : KnownXP(j)' <=> KnownXP(j)
  BY <1>2, SameList DEF KnownXP
<1>8. Everything \in Seq(1..N) /\ Len(Everything) = N /\ \A j \in 1..N : Everything[j] = j
  BY <1>0 DEF Everything
<1>9. Control'
  <2>1. CASE Finish \/ EndOfRound
    <3>1. /\ Queue' = Everything /\ progress' = FALSE /\ pc' \in {"reason", "place"}
          /\ (pc' = "place" => pc = "place") /\ at' = at /\ ret' = ret
      BY <2>1 DEF Finish, EndOfRound
    <3> QED
      BY <1>0, <1>2, <1>7, <1>8, <3>1, ZenonT(40) DEF Control
  <2>2. CASE EndOfReasoning
    <3>1. Queue' = Queue /\ progress' = progress /\ pc' = "resort" /\ at' = 1 /\ ret' = ret
      BY <2>2 DEF EndOfReasoning
    <3>2. at' \in Nat /\ at' \in 1 .. N + 1 /\ \A j \in 1 .. at' - 1 : Fixed[j]
      BY <1>0, <3>1, SMTT(40), Z3T(40)
    <3> QED
      BY <1>0, <1>2, <1>7, <3>1, <3>2, Zenon DEF Control
  <2>3. CASE EndOfLastResort
    <3>1. /\ Queue' = Everything /\ progress' = FALSE /\ pc' = "place" /\ at' = at /\ ret' = ret
          /\ pc = "resort" /\ at = N + 1
      BY <2>3 DEF EndOfLastResort
    <3>2. \A j \in 1..N : j \in 1 .. at - 1
      BY <1>0, <3>1
    <3>3. \A j \in 1..N : Fixed[j]
      BY <1>0, <3>1, <3>2, ZenonT(40) DEF Control
    <3> QED
      BY <1>0, <1>2, <1>7, <1>8, <3>1, <3>3, Zenon DEF Control
  <2>4. CASE Return
    <3>1. Queue' = Queue /\ progress' = progress /\ pc' = "idle" /\ at' = at /\ ret' = "nil"
      BY <1>1, <2>4, ZenonT(40) DEF Return
    <3> QED
      BY <1>0, <1>2, <1>7, <3>1, ZenonT(40) DEF Control
  <2>5. CASE UNCHANGED vars
    <3>1. UNCHANGED <<Queue, progress, pc, at, ret>>
      BY <2>5 DEF vars
    <3> QED
      BY <1>0, <1>2, <1>7, <3>1, Zenon DEF Control
  <2> QED
    BY <2>1, <2>2, <2>3, <2>4, <2>5, ZenonT(20)
<1> QED
  BY <1>4, <1>5, <1>6, <1>9 DEF Inv

LEMMA Step ==
    ASSUME EncoderGrows(Offsets), Inv, [Next]_vars
    PROVE  Inv' /\ \A k \in 1..N : Kept(k)
  BY EmitStep, ProcessItemStep, LastResortStep, ControlStep DEF Next, Fix

LEMMA Start ==
    ASSUME Init
    PROVE  Inv
<1>1. N = 0 /\ 1..N = {} /\ Jumps = {} /\ MaxItems \in Nat
  BY BoundsAssumption DEF Init, N, Jumps
<1>2. Struct
  BY <1>1, SMTT(40), Z3T(40) DEF Init, Struct, Seen
<1>3. Items /\ Addresses
  BY <1>1 DEF Items, Addresses
<1>4. Control
  <2>1. <<>> \in Seq(1..N)
    OBVIOUS
  <2>2. Blocking \in [Name \cup 1..MaxItems -> Seq(1..N)]
    BY <2>1 DEF Init
  <2> QED
    BY <2>1, <2>2, Zenon DEF Init, Control
<1> QED
  BY <1>2, <1>3, <1>4, ZenonT(20) DEF Inv

LEMMA Invariant ==
    ASSUME EncoderGrows(Offsets)
    PROVE  Spec => []Inv
<1>1. Inv /\ [Next]_vars => Inv'
  BY Step
<1> QED
  BY <1>1, Start, PTL DEF Spec

-----------------------------------------------------------------------------
(* Addresses as sums. *)

LEMMA SumOne ==
    ASSUME NEW n \in Nat, NEW f, Numbers(f, n), NEW k \in 1..n
    PROVE  Sum(f, {k}, n) = f[k]
<1> DEFINE G == {m \in Nat : m <= n => Sum(f, {k}, m) = IF k <= m THEN f[k] ELSE 0}
<1>1. 0 \in G
  <2>1. Numbers(f, 0)
    BY DEF Numbers
  <2> QED
    BY <2>1, SumNext
<1>2. ASSUME NEW m \in G PROVE m + 1 \in G
  <2>1. SUFFICES ASSUME m + 1 <= n PROVE Sum(f, {k}, m + 1) = IF k <= m + 1 THEN f[k] ELSE 0
    OBVIOUS
  <2>2. m \in Nat /\ m + 1 \in Nat /\ m + 1 # 0 /\ (m + 1) - 1 = m /\ Numbers(f, m + 1)
    BY <2>1 DEF Numbers
  <2>3. Sum(f, {k}, m) = IF k <= m THEN f[k] ELSE 0
    BY <2>1
  <2>4. Sum(f, {k}, m + 1) = Sum(f, {k}, m) + IF m + 1 \in {k} THEN f[m + 1] ELSE 0
    BY <2>2, SumNext
  <2>5. f[k] \in Int
    BY DEF Numbers
  <2> QED
    BY <2>2, <2>3, <2>4, <2>5
<1>3. n \in G
  <2>1. G \subseteq Nat
    OBVIOUS
  <2> HIDE DEF G
  <2> QED
    BY <1>1, <1>2, <2>1, Induction, Zenon
<1> QED
  BY <1>3

\* The items up to k are those before it, and it.
LEMMA LengthsUpTo ==
    ASSUME Struct, NEW k \in 1..N
    PROVE  Lengths(1..k) = Lengths(1 .. k - 1) + MaxLength[k]
<1>1. N \in Nat /\ Numbers(MaxLength, N)
  BY Parts
<1>2. 1..k = (1 .. k - 1) \cup {k} /\ (1 .. k - 1) \cap {k} = {}
  BY <1>1
<1>3. Sum(MaxLength, (1 .. k - 1) \cup {k}, N) = Sum(MaxLength, 1 .. k - 1, N) + Sum(MaxLength, {k}, N)
  BY <1>1, <1>2, SumSplit
<1>4. Sum(MaxLength, {k}, N) = MaxLength[k]
  BY <1>1, SumOne
<1> QED
  BY <1>2, <1>3, <1>4, Zenon DEF Lengths

\* The items up to j are those up to i and those after it.
LEMMA LengthsBetween ==
    ASSUME Struct, NEW i \in 0..N, NEW j \in i..N
    PROVE  Lengths(1..j) = Lengths(1..i) + Lengths(i + 1 .. j)
<1>1. N \in Nat /\ Numbers(MaxLength, N)
  BY Parts
<1>2. 1..j = (1..i) \cup (i + 1 .. j) /\ (1..i) \cap (i + 1 .. j) = {}
  BY <1>1
<1>3. Sum(MaxLength, (1..i) \cup (i + 1 .. j), N) = Sum(MaxLength, 1..i, N) + Sum(MaxLength, i + 1 .. j, N)
  BY <1>1, <1>2, SumSplit
<1> QED
  BY <1>2, <1>3, Zenon DEF Lengths

LEMMA AddressIs ==
    ASSUME Struct, Addresses, NEW k \in 1..N, KnownXP(k)
    PROVE  XP[k] = Lengths(1 .. k - 1) /\ \A i \in 1 .. k - 1 : Fixed[i]
<1> DEFINE ok(m) == XP[m] = Lengths(1 .. m - 1) /\ \A i \in 1 .. m - 1 : Fixed[i]
           G == {m \in Nat : m \in 1..N /\ KnownXP(m) => ok(m)}
<1>0. N \in Nat /\ Numbers(MaxLength, N)
  BY Parts
<1>1. 0 \in G
  OBVIOUS
<1>2. ASSUME NEW m \in G PROVE m + 1 \in G
  <2>1. SUFFICES ASSUME m + 1 \in 1..N, KnownXP(m + 1) PROVE ok(m + 1)
    OBVIOUS
  <2>2. m \in Nat /\ (m + 1) - 1 = m /\ Placed(m + 1)
    BY <2>1 DEF Addresses
  <2>3. CASE m = 0
    <3>1. XP[m + 1] = 0
      BY <2>2, <2>3 DEF Placed
    <3>2. Lengths(1..0) = 0
      <4>1. Sum(MaxLength, 1..0, N) = Sum(MaxLength, (1..0) \cup (1..0), N)
        OBVIOUS
      <4>2. Sum(MaxLength, (1..0) \cup (1..0), N) = Sum(MaxLength, 1..0, N) + Sum(MaxLength, 1..0, N)
        <5>1. (1..0) \cap (1..0) = {}
          OBVIOUS
        <5> QED
          BY <1>0, <5>1, SumSplit
      <4>3. Sum(MaxLength, 1..0, N) \in Int
        BY <1>0, SumNext
      <4> QED
        BY <4>1, <4>2, <4>3 DEF Lengths
    <3>3. 1 .. (m + 1) - 1 = 1..0 /\ \A i \in 1..0 : FALSE
      BY <2>3
    <3> QED
      BY <3>1, <3>2, <3>3
  <2>4. CASE m # 0
    <3>1. m \in 1..N /\ m + 1 # 1
      BY <1>0, <2>1, <2>2, <2>4
    <3>2. KnownXP(m) /\ Fixed[m] /\ XP[m + 1] = XP[m] + MaxLength[m]
      BY <2>2, <3>1 DEF Placed
    <3>3. ok(m)
      BY <3>1, <3>2
    <3>4. Lengths(1..m) = Lengths(1 .. m - 1) + MaxLength[m]
      BY <3>1, LengthsUpTo
    <3>5. \A i \in 1..m : i \in 1 .. m - 1 \/ i = m
      BY <2>2
    <3> QED
      BY <2>2, <3>2, <3>3, <3>4, <3>5
  <2> QED
    BY <2>3, <2>4
<1>3. k \in G
  <2>1. G \subseteq Nat /\ k \in Nat
    BY <1>0
  <2> HIDE DEF G
  <2> QED
    BY <1>1, <1>2, <2>1, Induction, ZenonT(40)
<1> QED
  BY <1>3

\* How far a jump leads is what its offset has too much.
LEMMA MissIs ==
    ASSUME Struct, Items, Addresses, Done, NEW k \in Jumps
    PROVE  Miss(k) = IF Forward(k) THEN Over(k) ELSE - Over(k)
<1> DEFINE q == Index[List[k].label]
<1>1. k \in 1..N /\ List[k].label \in Name /\ q \in 0..N /\ Fixed[k] /\ N \in Nat
  BY Spans, Parts, ZenonT(20) DEF Done
<1>2. Seen(List[k].label)
  BY <1>1, ZenonT(20) DEF Items, ItemOK
<1>3. q \in 1..N /\ q # k
  BY <1>1, <1>2, Spans, SMTT(40), Z3T(40) DEF Seen
<1>4. Len(Bytes(k)) = MaxLength[k]
  BY <1>1, SizeIs DEF Items
<1>5. XP[k] = Lengths(1 .. k - 1) /\ XP[q] = Lengths(1 .. q - 1)
  <2> HIDE DEF q
  <2> QED
    BY <1>1, <1>3, AddressIs, ZenonT(20) DEF Done
<1>6. Lengths(1..k) = Lengths(1 .. k - 1) + MaxLength[k]
  BY <1>1, LengthsUpTo, ZenonT(20)
<1>7. Miss(k) = Lengths(1..k) + Imm[k] - Lengths(1 .. q - 1)
  BY <1>4, <1>5, <1>6, ZenonT(20) DEF Miss
<1>8. /\ Lengths(1..k) \in Int /\ Lengths(1 .. q - 1) \in Int /\ Lengths(Span(k)) \in Int /\ Imm[k] \in Int
  BY <1>1, LengthsType, Parts, SMTT(40), Z3T(40)
<1>9. CASE Forward(k)
  <2>1. q > k
    BY <1>9 DEF Forward
  <2>2. Span(k) = k + 1 .. q - 1
    <3>1. ~ (k + 1 > q)
      BY <1>1, <1>3, <2>1
    <3> QED
      BY <3>1 DEF Span
  <2> HIDE DEF q
  <2>3. k \in 0..N /\ q - 1 \in k..N
    BY <1>1, <1>3, <2>1
  <2>4. Lengths(1 .. q - 1) = Lengths(1..k) + Lengths(k + 1 .. q - 1)
    BY <2>3, LengthsBetween
  <2> QED
    BY <1>7, <1>8, <1>9, <2>2, <2>4, SMTT(40), Z3T(40) DEF Over
<1>10. CASE ~ Forward(k)
  <2>1. ~ (q > k)
    BY <1>10 DEF Forward
  <2>2. Span(k) = q .. k
    <3>1. k + 1 > q
      BY <1>1, <1>3, <2>1
    <3> QED
      BY <3>1 DEF Span
  <2> HIDE DEF q
  <2>3. q - 1 \in 0..N /\ k \in q - 1 .. N /\ (q - 1) + 1 = q
    BY <1>1, <1>3, <2>1
  <2>4. Lengths(1..k) = Lengths(1 .. q - 1) + Lengths((q - 1) + 1 .. k)
    BY <2>3, LengthsBetween
  <2>5. Lengths(1..k) = Lengths(1 .. q - 1) + Lengths(Span(k))
    BY <2>2, <2>3, <2>4
  <2> QED
    BY <1>7, <1>8, <1>10, <2>5 DEF Over
<1> QED
  BY <1>9, <1>10, ZenonT(20)

-----------------------------------------------------------------------------
(* The theorems. *)

\* Type correctness: the fields of the items and the index of the labels stay
\* in step with the list, through EmitOp, EmitLabel, Fix and its panics.
THEOREM AssemblerTypeTheorem ==
    ASSUME EncoderGrows(Offsets)
    PROVE  Spec => []TypeOK
<1>1. ASSUME NEW T, NEW s \in Seq(T) PROVE s \in [1 .. Len(s) -> T]
  BY SMTT(40), Z3T(40)
<1>2. ASSUME Inv PROVE TypeOK
  <2>1. Struct /\ Control
    BY <1>2 DEF Inv
  <2>2. XP \in [1..N -> Nat \cup {Unknown}] /\ Fixed \in [1..N -> BOOLEAN]
    BY <1>1, <2>1 DEF Struct
  <2>3. Imm \in [1..N -> Int] /\ MaxLength \in [1..N -> Nat] /\ saved \in [1..N -> Nat]
    BY <1>1, <2>1, ZenonT(20) DEF Struct
  <2>4. saved \in [1..N -> Int]
    BY <2>3
  <2> QED
    BY <2>1, <2>2, <2>3, <2>4, Zenon DEF Struct, Control, TypeOK
<1> QED
  BY <1>2, Invariant, PTL

\* Neither assertion of Fix ever fails: no length grows from one pass of tryFix
\* to the next, and the two loops leave no item without a length or an address.
THEOREM NeverGoofsTheorem ==
    ASSUME EncoderGrows(Offsets)
    PROVE  Spec => []FixNeverGoofs
<1>1. Inv => FixNeverGoofs
  BY Zenon DEF Inv, Control, FixNeverGoofs
<1> QED
  BY <1>1, Invariant, PTL

\* Finish panics for want of a label only if a label is missing, and places no
\* item while one is.
THEOREM MissingLabelTheorem ==
    ASSUME EncoderGrows(Offsets)
    PROVE  Spec => []PanicsOnlyWithoutLabel
<1>1. ASSUME Inv PROVE PanicsOnlyWithoutLabel
  <2>1. Struct /\ Items /\ Control /\ N \in Nat
    BY <1>1, Parts DEF Inv
  <2>2. \A k \in Jumps : k \in 1..N /\ List[k].label \in Name
    BY <2>1, Spans
  <2>3. \A l \in Name : Seen(l) <=> \E i \in 1..N : List[i] = l
    <3>1. \A l \in Name : Index[l] \in 0..N /\ (Seen(l) => List[Index[l]] = l)
      BY <2>1, Zenon DEF Struct
    <3>2. \A l \in Name : Seen(l) => Index[l] \in 1..N
      BY <2>1, <3>1 DEF Seen
    <3>3. \A l \in Name : \A i \in 1..N : List[i] = l => Index[l] = i
      BY <2>1, ZenonT(20) DEF Struct, IsOp
    <3>4. \A i \in 1..N : i # 0
      BY <2>1
    <3> QED
      BY <3>1, <3>2, <3>3, <3>4, Zenon DEF Seen
  <2>4. ret = "index out of range" => \E k \in Jumps : ~ \E i \in 1..N : List[i] = List[k].label
    BY <2>1, <2>2, <2>3, Zenon DEF Control
  <2>5. pc = "place" => \A k \in Jumps : \E i \in 1..N : List[i] = List[k].label
    <3>1. pc = "place" => \A k \in Jumps : Seen(List[k].label)
      BY <2>1, <2>2, Zenon DEF Control, Items, ItemOK
    <3> QED
      BY <2>2, <2>3, <3>1, ZenonT(20)
  <2> QED
    BY <2>4, <2>5, Zenon DEF PanicsOnlyWithoutLabel
<1> QED
  BY <1>1, Invariant, PTL

\* An address, once trySetXP has found it, is the length of the code before it.
THEOREM AddressesTheorem ==
    ASSUME EncoderGrows(Offsets)
    PROVE  Spec => []AddressesAreFinal
<1>1. ASSUME Inv PROVE AddressesAreFinal
  <2>1. Struct /\ Items /\ Addresses
    BY <1>1 DEF Inv
  <2>2. \A S : Total(S) = Lengths(S)
    BY <2>1, DistanceIs
  <2> QED
    BY <2>1, <2>2, AddressIs DEF AddressesAreFinal
<1> QED
  BY <1>1, Invariant, PTL

\* Jumps lead to their labels but for what the last resort, or a Finish after
\* one that panicked, took off the items in between.
THEOREM MissesTheorem ==
    ASSUME EncoderGrows(Offsets)
    PROVE  Spec => []MissesOnlyBySaving
<1>1. ASSUME Inv, Done, NEW k \in Jumps
      PROVE  IF Forward(k) THEN Miss(k) \in 0 .. Saved(Span(k)) ELSE - Miss(k) \in 0 .. Saved(Span(k))
  <2>1. Struct /\ Items /\ Addresses
    BY <1>1, ZenonT(20) DEF Inv
  <2>2. Fixed[k]
    BY <1>1, <2>1, Spans, ZenonT(20) DEF Done
  <2>3. Over(k) \in 0 .. Saved(Span(k))
    BY <2>1, <2>2 DEF Items, JumpOK
  <2>4. Miss(k) = IF Forward(k) THEN Over(k) ELSE - Over(k)
    BY <1>1, <2>1, MissIs
  <2>5. Saved(Span(k)) \in Nat
    BY <2>1, LengthsType
  <2> QED
    BY <2>3, <2>4, <2>5
<1>2. Inv => MissesOnlyBySaving
  BY <1>1 DEF MissesOnlyBySaving
<1> QED
  BY <1>2, Invariant, PTL

\* No step takes back a length, an offset or an address: neither another pass
\* of Fix, nor items emitted later, nor another Finish.
THEOREM DecisionsTheorem ==
    ASSUME EncoderGrows(Offsets)
    PROVE  Spec => DecisionsAreFinal
<1> DEFINE A == \A k \in 1..N :
                   /\ Fixed[k] => Fixed'[k] /\ Imm'[k] = Imm[k] /\ MaxLength'[k] = MaxLength[k]
                   /\ KnownXP(k) => XP'[k] = XP[k]
<1>1. Inv /\ [Next]_vars => [A]_vars
  BY Step DEF Kept
<1> HIDE DEF A
<1>2. Spec => [][A]_vars
  BY <1>1, Invariant, PTL DEF Spec
<1> QED
  BY <1>2 DEF DecisionsAreFinal, A

-----------------------------------------------------------------------------
(* The program. *)

LEMMA BytesType ==
    ASSUME EncoderGrows(Offsets), Struct, NEW k \in 1..N
    PROVE  Bytes(k) \in Seq(0..255)
<1>1. IsOp(k) => List[k] \in Call /\ Accepts(List[k]) /\ Imm[k] \in Offsets
  BY Parts
<1>2. IsOp(k) => Encoding(List[k], Imm[k]) \in Seq(0..255)
  BY <1>1, Zenon DEF EncoderGrows
<1>3. <<>> \in Seq(0..255)
  OBVIOUS
<1> QED
  BY <1>2, <1>3 DEF Bytes

\* The code up to an item is as long as the items are.
Encodings == [k \in 1..N |-> Bytes(k)]

LEMMA CodeLength ==
    ASSUME EncoderGrows(Offsets), Struct, Items, Done, NEW m \in 0..N
    PROVE  /\ Concat(Encodings, m) \in Seq(0..255)
           /\ Len(Concat(Encodings, m)) = Lengths(1..m)
<1>0. N \in Nat /\ \A k \in 1..N : Encodings[k] \in Seq(0..255) /\ Encodings[k] = Bytes(k)
  BY BytesType, Parts DEF Encodings
<1>1. \A k \in 0..N : Concat(Encodings, k) \in Seq(0..255)
  BY <1>0, ConcatPrefix
<1> DEFINE G == {n \in Nat : n <= N => Len(Concat(Encodings, n)) = Lengths(1..n)}
<1>2. 0 \in G
  <2>1. Lengths(1..0) = Lengths(1..0) + Lengths(1..0) /\ Lengths(1..0) \in Int
    <3>1. 0 \in 0..N /\ 0 + 1 = 1
      BY <1>0
    <3> QED
      BY <3>1, LengthsBetween, LengthsType
  <2>2. Lengths(1..0) = 0
    <3> DEFINE z == Lengths(1..0)
    <3>1. z = z + z /\ z \in Int
      BY <2>1
    <3> HIDE DEF z
    <3>2. z = 0
      BY <3>1
    <3> QED
      BY <3>2 DEF z
  <2>3. Concat(Encodings, 0) = <<>>
    BY <1>0, ConcatNext
  <2> QED
    BY <2>2, <2>3
<1>3. ASSUME NEW n \in G PROVE n + 1 \in G
  <2>1. SUFFICES ASSUME n + 1 <= N PROVE Len(Concat(Encodings, n + 1)) = Lengths(1 .. n + 1)
    OBVIOUS
  <2>2. n \in Nat /\ n \in 0..N /\ n + 1 \in 1..N /\ (n + 1) - 1 = n
    BY <1>0, <2>1
  <2>3. Len(Concat(Encodings, n)) = Lengths(1..n)
    BY <2>1, <2>2
  <2>4. Concat(Encodings, n + 1) = Concat(Encodings, n) \o Encodings[n + 1]
    BY <2>2, ConcatNext, Zenon
  <2>5. Len(Concat(Encodings, n + 1)) = Len(Concat(Encodings, n)) + Len(Encodings[n + 1])
    BY <1>0, <1>1, <2>2, <2>4
  <2>6. Len(Encodings[n + 1]) = MaxLength[n + 1]
    BY <1>0, <2>2, SizeIs DEF Items, Done
  <2>7. Lengths(1 .. n + 1) = Lengths(1..n) + MaxLength[n + 1]
    BY <2>2, LengthsUpTo
  <2> QED
    BY <2>3, <2>5, <2>6, <2>7
<1>4. m \in G
  <2>1. G \subseteq Nat /\ m \in Nat
    BY <1>0
  <2> HIDE DEF G
  <2> QED
    BY <1>2, <1>3, <2>1, Induction, Zenon
<1> QED
  BY <1>1, <1>4

LEMMA AddressesAscend ==
    ASSUME Struct, Addresses, Done, NEW i \in 1..N, NEW j \in i..N
    PROVE  XP[i] \in Nat /\ XP[j] \in Nat /\ XP[i] <= XP[j] /\ XP[j] <= Lengths(1..N)
<1>1. N \in Nat /\ i - 1 \in 0..N /\ j - 1 \in i - 1 .. N /\ j \in 1..N /\ (i - 1) + 1 = i /\ (j - 1) + 1 = j
      /\ N \in j - 1 .. N /\ j - 1 \in 0..N
  BY Parts
<1>2. XP[i] = Lengths(1 .. i - 1) /\ XP[j] = Lengths(1 .. j - 1)
  BY <1>1, AddressIs DEF Done
<1>3. Lengths(1 .. j - 1) = Lengths(1 .. i - 1) + Lengths((i - 1) + 1 .. j - 1)
  BY <1>1, LengthsBetween
<1>4. Lengths(1..N) = Lengths(1 .. j - 1) + Lengths((j - 1) + 1 .. N)
  BY <1>1, LengthsBetween
<1>5. \A S : Lengths(S) \in Nat
  BY LengthsType, ZenonT(20)
<1> QED
  BY <1>2, <1>3, <1>4, <1>5

\* The labels among the first items.
Labelling == [k \in 1..N |-> IF IsOp(k) THEN <<>> ELSE <<LabelAt(k)>>]

LEMMA LabelsUpTo ==
    ASSUME Struct, Addresses, Done, NEW m \in 0..N
    PROVE  LET ls == Concat(Labelling, m)
           IN  /\ Len(ls) \in Nat
               /\ \A i \in 1 .. Len(ls) : \E k \in 1..m : ls[i].Offset = XP[k]
               /\ \A i, j \in 1 .. Len(ls) : i < j => ls[i].Offset <= ls[j].Offset
<1> DEFINE S == {LabelAt(k) : k \in 1..N}
           ls(n) == Concat(Labelling, n)
           ok(n) == /\ \A i \in 1 .. Len(ls(n)) : \E k \in 1..n : ls(n)[i].Offset = XP[k]
                    /\ \A i, j \in 1 .. Len(ls(n)) : i < j => ls(n)[i].Offset <= ls(n)[j].Offset
           G == {n \in Nat : n <= N => ok(n)}
<1>0. N \in Nat /\ \A k \in 1..N : Labelling[k] = IF IsOp(k) THEN <<>> ELSE <<LabelAt(k)>>
  BY Parts DEF Labelling
<1>1. \A k \in 1..N : Labelling[k] \in Seq(S)
  <2>1. \A k \in 1..N : LabelAt(k) \in S
    OBVIOUS
  <2> HIDE DEF S
  <2>2. <<>> \in Seq(S) /\ \A l \in S : <<l>> \in Seq(S)
    OBVIOUS
  <2> QED
    BY <1>0, <2>1, <2>2, Zenon
<1> HIDE DEF S
<1>2. \A k \in 0..N : ls(k) \in Seq(S) /\ Len(ls(k)) \in Nat
  <2> TAKE k \in 0..N
  <2>1. ls(k) \in Seq(S)
    BY <1>0, <1>1, ConcatPrefix, Zenon
  <2> HIDE DEF ls
  <2> QED
    BY <2>1
<1>3. ls(0) = <<>> /\ \A n \in Nat : ls(n + 1) = ls(n) \o Labelling[n + 1]
  BY ConcatNext, Zenon
<1> HIDE DEF ls
<1>4. 0 \in G
  BY <1>3, SMTT(40), Z3T(40)
<1>5. ASSUME NEW n \in G PROVE n + 1 \in G
  <2>1. SUFFICES ASSUME n + 1 <= N PROVE ok(n + 1)
    BY SMTT(40), Z3T(40)
  <2>2. n \in Nat /\ n \in 0..N /\ n + 1 \in 1..N /\ ok(n) /\ ls(n) \in Seq(S) /\ Len(ls(n)) \in Nat
    BY <1>0, <1>2, <2>1, SMTT(40), Z3T(40)
  <2>3. ls(n + 1) = ls(n) \o Labelling[n + 1]
    BY <1>3, <2>2, ZenonT(40)
  <2>4. CASE IsOp(n + 1)
    <3>1. Labelling[n + 1] = <<>>
      BY <1>0, <2>2, <2>4, Zenon
    <3>2. ls(n + 1) = ls(n)
      BY <2>2, <2>3, <3>1, JoinedSeqs, ZenonT(20)
    <3>3. \A k \in 1..n : k \in 1 .. n + 1
      BY <2>2, SMTT(40), Z3T(40)
    <3> QED
      BY <2>2, <3>2, <3>3, Zenon
  <2>5. CASE ~ IsOp(n + 1)
    <3> DEFINE l == LabelAt(n + 1)
               s == ls(n)
               t == ls(n + 1)
               z == Len(s) + 1
    <3>1. l.Offset = XP[n + 1]
      BY ZenonT(20) DEF LabelAt
    <3>2. t = s \o <<l>> /\ <<l>> \in Seq(S) /\ Len(<<l>>) = 1 /\ <<l>>[1] = l
      BY <1>0, <1>1, <2>2, <2>3, <2>5, Zenon
    <3> HIDE DEF l
    <3>3. /\ Len(t) = z /\ z \in Nat
          /\ \A i \in 1 .. Len(s) : t[i] = s[i]
          /\ t[z] = l
      <4>1. /\ Len(s \o <<l>>) = Len(s) + Len(<<l>>)
            /\ \A i \in 1 .. Len(s) + Len(<<l>>) :
                  (s \o <<l>>)[i] = IF i <= Len(s) THEN s[i] ELSE <<l>>[i - Len(s)]
        BY <2>2, <3>2, SMTT(40), Z3T(40)
      <4> HIDE DEF t
      <4>2. /\ Len(t) = Len(s) + 1
            /\ \A i \in 1 .. Len(s) + 1 : t[i] = IF i <= Len(s) THEN s[i] ELSE <<l>>[i - Len(s)]
        BY <3>2, <4>1, ZenonT(20)
      <4>3. z \in 1 .. Len(s) + 1 /\ ~ z <= Len(s) /\ z - Len(s) = 1
        BY <2>2, SMTT(40), Z3T(40)
      <4>4. t[z] = l
        BY <3>2, <4>2, <4>3, ZenonT(20)
      <4> QED
        BY <2>2, <4>2, <4>4, SMTT(40), Z3T(40)
    <3>4. \A i \in 1 .. Len(t) : i \in 1 .. Len(s) \/ i = z
      BY <2>2, <3>3, SMTT(40), Z3T(40)
    <3>5. ASSUME NEW i \in 1 .. Len(t) PROVE \E k \in 1 .. n + 1 : t[i].Offset = XP[k]
      <4>1. CASE i = z
        BY <2>2, <3>1, <3>3, <4>1, SMTT(40), Z3T(40)
      <4>2. CASE i \in 1 .. Len(s)
        <5>1. PICK k \in 1..n : s[i].Offset = XP[k]
          BY <2>2, <4>2, ZenonT(20)
        <5>2. k \in 1 .. n + 1 /\ t[i].Offset = XP[k]
          BY <2>2, <3>3, <4>2, <5>1, SMTT(40), Z3T(40)
        <5> QED
          BY <5>2, ZenonT(20)
      <4> QED
        BY <3>4, <4>1, <4>2, ZenonT(20)
    <3>6. ASSUME NEW i \in 1 .. Len(t), NEW j \in 1 .. Len(t), i < j
          PROVE  t[i].Offset <= t[j].Offset
      <4>1. i \in 1 .. Len(s) /\ t[i] = s[i]
        BY <2>2, <3>3, <3>6, SMTT(40), Z3T(40)
      <4>2. CASE j = z
        <5>1. PICK k \in 1..n : s[i].Offset = XP[k]
          BY <2>2, <4>1, ZenonT(20)
        <5>2. k \in 1..N /\ n + 1 \in k..N
          BY <1>0, <2>2, SMTT(40), Z3T(40)
        <5>3. XP[k] <= XP[n + 1]
          BY <5>2, AddressesAscend, ZenonT(20)
        <5> QED
          BY <3>1, <3>3, <4>1, <4>2, <5>1, <5>3, ZenonT(20)
      <4>3. CASE j \in 1 .. Len(s)
        BY <2>2, <3>3, <3>6, <4>1, <4>3, ZenonT(40)
      <4> QED
        BY <3>4, <4>2, <4>3, ZenonT(20)
    <3> QED
      BY <3>5, <3>6, ZenonT(20)
  <2> QED
    BY <2>4, <2>5, ZenonT(20)
<1>6. m \in G
  <2>1. G \subseteq Nat /\ m \in Nat
    BY <1>0
  <2> HIDE DEF G
  <2> QED
    BY <1>4, <1>5, <2>1, Induction, Zenon
<1> QED
  BY <1>2, <1>6, SMTT(40), Z3T(40) DEF ls

\* The labels of a program that Finish returns are in the order of their
\* offsets, and none is past the end of its code.
THEOREM LabelsTheorem ==
    ASSUME EncoderGrows(Offsets)
    PROVE  Spec => []LabelsAscend
<1>1. Init => LabelsAscend
  BY DEF Init, LabelsAscend
<1>2. ASSUME Inv, LabelsAscend, [Next]_vars PROVE LabelsAscend'
  <2>1. CASE UNCHANGED program
    BY <1>2, <2>1, ZenonT(20) DEF LabelsAscend
  <2>2. CASE Done /\ program' = [Bytes |-> Code, Labels |-> Labels]
    <3>0. Struct /\ Items /\ Addresses /\ N \in Nat
      BY <1>2, Parts DEF Inv
    <3> DEFINE ls == Concat(Labelling, N)
    <3>1. program'.Labels = ls /\ program'.Bytes = Concat(Encodings, N)
      BY <2>2, ZenonT(20) DEF Code, Labels, Encodings, Labelling
    <3>2. /\ Len(ls) \in Nat
          /\ \A i \in 1 .. Len(ls) : \E k \in 1..N : ls[i].Offset = XP[k]
          /\ \A i, j \in 1 .. Len(ls) : i < j => ls[i].Offset <= ls[j].Offset
      BY <2>2, <3>0, LabelsUpTo, SMTT(40), Z3T(40)
    <3>3. Len(program'.Bytes) = Lengths(1..N)
      BY <1>2, <2>2, <3>0, <3>1, CodeLength
    <3>4. \A k \in 1..N : XP[k] <= Lengths(1..N)
      BY <2>2, <3>0, AddressesAscend
    <3> HIDE DEF ls
    <3> QED
      BY <3>1, <3>2, <3>3, <3>4 DEF LabelsAscend
  <2> QED
    BY <1>2, <2>1, <2>2, Zenon
    DEF Next, EmitLabel, EmitOp, link, panic, Finish, Fix, processItem, EndOfRound,
        EndOfReasoning, LastResort, EndOfLastResort, Return, vars
<1> QED
  BY <1>1, <1>2, Invariant, PTL DEF Spec
-----------------------------------------------------------------------------
(* The encoder of opcode.go. *)

\* The parameters of the assembler are those of EmitOp and OpMeta.Encode, and
\* offsets have 64 bits.
RealEncoder ==
    /\ \A c \in Call : IsCall(c) /\ (Accepts(c) <=> AcceptsArgs(c))
    /\ \A c \in Call, s \in Offsets : Encoding(c, s) = EncodeArgs(c, s)
    /\ \A s \in Offsets : AsInt(Raw(s)) = s

LEMMA SlotIs ==
    ASSUME NEW c, IsCall(c), NEW i \in 1..3
    PROVE  /\ IsImm(Slot(c, i))
           /\ Slot(c, i).Type = "CodeOffset" => Slot(c, i).Required
<1> DEFINE ok(m) == m.Type = "CodeOffset" => m.Required
<1>1. c.meta \in opMeta
  BY DEF IsCall
<1>2. \A meta \in opMeta : ok(meta.Imm0) /\ ok(meta.Imm1) /\ ok(meta.Imm2)
  <2>1. /\ ok(none) /\ ok(offset) /\ ok(count)
        /\ ok(required("Byte")) /\ ok(required("LiteralIdx"))
        /\ ok(required("MatcherIdx")) /\ ok(required("CaptureIdx"))
        /\ ok(required("Count"))
    BY DEF none, offset, count, required, optional
  <2> HIDE DEF ok
  <2> QED
    BY <2>1, SMTT(40), Z3T(40) DEF opMeta, Meta
<1>3. CASE i = 1
  BY <1>1, <1>2, <1>3, Table DEF Slot
<1>4. CASE i = 2
  BY <1>1, <1>2, <1>4, Table DEF Slot
<1>5. CASE i = 3
  BY <1>1, <1>2, <1>5, Table DEF Slot
<1> QED
  BY <1>3, <1>4, <1>5

LEMMA Offset64Type ==
    ASSUME NEW s \in Int
    PROVE  Offset64(s) \in Uint64
<1>1. <<255, 255, 255, 255, 255, 255, 255, 127>> \in Uint64
  BY DEF Uint64, Byte
<1> QED
  BY <1>1, RawType DEF Offset64

\* The conversion of a number to 64 bits.
LEMMA ConvertedIs ==
    ASSUME NEW x, x.type \in UnsignedTypes \cup SignedTypes, x.bytes \in [1 .. Width(x.type) -> Byte]
    PROVE  converted(x) \in Uint64 /\ IsNumber(converted(x), x)
<1> DEFINE w == Width(x.type)
           high == IF Negative(x) THEN 255 ELSE 0
           cell(j) == IF j <= w THEN x.bytes[j] ELSE high
<1>1. w \in Nat
  BY DEF Width
<1>2. high \in Byte
  BY DEF Byte
<1>3. converted(x) = [j \in 1..8 |-> cell(j)]
  BY Zenon DEF converted, extended
<1> HIDE DEF w
<1>4. \A j \in 1..8 : j <= w => x.bytes[j] \in Byte
  BY <1>1 DEF w
<1>5. \A j \in 1..8 : cell(j) \in Byte
  BY <1>2, <1>4, Zenon
<1>6. \A j \in 1..8 : converted(x)[j] = cell(j)
  BY <1>3, Zenon
<1>7. converted(x) \in Uint64
  <2> HIDE DEF cell
  <2> QED
    BY <1>3, <1>5 DEF Uint64
<1>8. IsNumber(converted(x), x)
  BY <1>6, Zenon DEF IsNumber, w
<1> QED
  BY <1>7, <1>8

\* What EmitOp puts into a slot.
LEMMA ValueType ==
    ASSUME NEW c, IsCall(c), AcceptsArgs(c), NEW i \in 1..3, NEW s \in Int
    PROVE  value(c, i, s) \in Uint64 /\ IsArgument(value(c, i, s), c, i, s)
<1> DEFINE x == c.args[i]
<1>1. /\ acceptsImm(Slot(c, i), x)
      /\ x.type \in UnsignedTypes \cup SignedTypes => x.bytes \in [1 .. Width(x.type) -> Byte]
  BY Zenon DEF AcceptsArgs, IsCall
<1>2. x.type \in {"nil", "label"} \cup UnsignedTypes \cup SignedTypes
  BY <1>1 DEF acceptsImm, UnsignedTypes, SignedTypes
<1>3. Default(Slot(c, i)) \in Uint64
  BY SlotIs, DefaultType
<1>4. Offset64(s) \in Uint64
  BY Offset64Type
<1>5. value(c, i, s) = CASE x.type = "nil" -> Default(Slot(c, i)) [] x.type = "label" -> Offset64(s)
                          [] OTHER -> converted(x)
  BY DEF value
<1>6. IsArgument(value(c, i, s), c, i, s) <=>
        /\ x.type = "nil" => value(c, i, s) = Default(Slot(c, i))
        /\ x.type = "label" => value(c, i, s) = Offset64(s)
        /\ x.type \in UnsignedTypes \cup SignedTypes => IsNumber(value(c, i, s), x)
  BY Zenon DEF IsArgument
<1> HIDE DEF x
<1>7. CASE x.type = "nil"
  BY <1>3, <1>5, <1>6, <1>7 DEF UnsignedTypes, SignedTypes
<1>8. CASE x.type = "label"
  BY <1>4, <1>5, <1>6, <1>8 DEF UnsignedTypes, SignedTypes
<1>9. CASE x.type \in UnsignedTypes \cup SignedTypes
  <2>1. x.type # "nil" /\ x.type # "label"
    BY <1>9 DEF UnsignedTypes, SignedTypes
  <2>2. value(c, i, s) = converted(x)
    BY <1>5, <2>1
  <2>3. converted(x) \in Uint64 /\ IsNumber(converted(x), x)
    BY <1>1, <1>9, ConvertedIs
  <2> QED
    BY <1>6, <2>1, <2>2, <2>3
<1> QED
  BY <1>2, <1>7, <1>8, <1>9, Zenon

LEMMA OffsetLength ==
    ASSUME NEW m, IsImm(m), m.Type = "CodeOffset", m.Required, NEW s \in Int, AsInt(Raw(s)) = s
    PROVE  Len(ImmEncode(m, Offset64(s))) = IF s = MaxOffset THEN 8 ELSE SignedLength(s)
<1>1. Signed(m.Type) /\ m.Type # "None"
  BY DEF Signed
<1>2. CASE s # MaxOffset
  BY <1>1, <1>2, SignedLengthIs DEF Offset64
<1>3. CASE s = MaxOffset
  <2> DEFINE raw == Offset64(s)
  <2>1. raw = <<255, 255, 255, 255, 255, 255, 255, 127>>
    BY <1>3 DEF Offset64
  <2>2. raw[8] = 127
    BY <2>1
  <2>3. \A i \in 1..8 : raw[i] \in Byte
    BY Offset64Type DEF Uint64
  <2> HIDE DEF raw
  <2>4. ImmEncode(m, raw) = SubSeq(raw, 1, 8)
    BY <1>1, <2>2 DEF ImmEncode, IsPresent
  <2>5. Len(SubSeq(raw, 1, 8)) = 8
    BY <2>3, SubSequence
  <2> QED
    BY <1>3, <2>4, <2>5 DEF raw
<1> QED
  BY <1>2, <1>3

LEMMA ValueGrows ==
    ASSUME RealEncoder, NEW c, IsCall(c), AcceptsArgs(c), NEW i \in 1..3,
           NEW s \in Offsets, NEW t \in Offsets, t = MaxOffset \/ Nearer(s, t)
    PROVE  Len(ImmEncode(Slot(c, i), value(c, i, s))) <= Len(ImmEncode(Slot(c, i), value(c, i, t)))
<1> DEFINE m == Slot(c, i)
<1>1. IsImm(m) /\ (m.Type = "CodeOffset" => m.Required)
  BY SlotIs
<1>2. CASE c.args[i].type = "label"
  <2>1. m.Type = "CodeOffset"
    BY <1>2 DEF AcceptsArgs, acceptsImm
  <2>2. value(c, i, s) = Offset64(s) /\ value(c, i, t) = Offset64(t)
    BY <1>2 DEF value
  <2>3. s \in Int /\ t \in Int /\ AsInt(Raw(s)) = s /\ AsInt(Raw(t)) = t
    BY BoundsAssumption DEF RealEncoder, Offsets
  <2> HIDE DEF m
  <2>4. /\ Len(ImmEncode(m, Offset64(s))) = IF s = MaxOffset THEN 8 ELSE SignedLength(s)
        /\ Len(ImmEncode(m, Offset64(t))) = IF t = MaxOffset THEN 8 ELSE SignedLength(t)
    BY <1>1, <2>1, <2>3, OffsetLength
  <2>5. /\ SignedLength(s) \in {1, 2, 4, 8} /\ SignedLength(t) \in {1, 2, 4, 8}
        /\ Nearer(s, t) => SignedLength(s) <= SignedLength(t)
    BY <2>3, SignedLengthGrows
  <2>6. s = MaxOffset => t = MaxOffset
    BY <2>3, BoundsAssumption DEF Nearer, Offsets
  <2>7. Len(ImmEncode(m, Offset64(s))) <= Len(ImmEncode(m, Offset64(t)))
    BY <2>4, <2>5, <2>6
  <2> QED
    BY <2>2, <2>7 DEF m
<1>3. CASE c.args[i].type # "label"
  <2>1. value(c, i, s) = value(c, i, t)
    BY <1>3 DEF value
  <2>2. value(c, i, t) \in Uint64
    BY ValueType, BoundsAssumption DEF Offsets
  <2>3. Len(ImmEncode(m, value(c, i, t))) \in Length
    BY <1>1, <2>2, ImmEncoded, Zenon DEF Length
  <2> QED
    BY <2>1, <2>3 DEF Length
<1> QED
  BY <1>2, <1>3
LEMMA ArgsGrow ==
    ASSUME RealEncoder, NEW c \in Call, Accepts(c), NEW s \in Offsets, NEW t \in Offsets,
           t = MaxOffset \/ Nearer(s, t)
    PROVE  /\ Encoding(c, s) \in Seq(Byte)
           /\ Len(Encoding(c, s)) \in 1..26
           /\ Len(Encoding(c, s)) <= Len(Encoding(c, t))
<1>1. IsCall(c) /\ AcceptsArgs(c)
  BY DEF RealEncoder
<1>2. Encoding(c, s) = EncodeArgs(c, s) /\ Encoding(c, t) = EncodeArgs(c, t)
  BY DEF RealEncoder
<1>3. c.meta \in opMeta /\ s \in Int /\ t \in Int
  BY <1>1, BoundsAssumption DEF IsCall, Offsets
<1> DEFINE i0 == value(c, 1, s)
           i1 == value(c, 2, s)
           i2 == value(c, 3, s)
           j0 == value(c, 1, t)
           j1 == value(c, 2, t)
           j2 == value(c, 3, t)
<1>4. /\ i0 \in Uint64 /\ i1 \in Uint64 /\ i2 \in Uint64
      /\ j0 \in Uint64 /\ j1 \in Uint64 /\ j2 \in Uint64
  BY <1>1, <1>3, ValueType
<1>5. Slot(c, 1) = c.meta.Imm0 /\ Slot(c, 2) = c.meta.Imm1 /\ Slot(c, 3) = c.meta.Imm2
  BY DEF Slot
<1>6. /\ Len(ImmEncode(c.meta.Imm0, i0)) <= Len(ImmEncode(c.meta.Imm0, j0))
      /\ Len(ImmEncode(c.meta.Imm1, i1)) <= Len(ImmEncode(c.meta.Imm1, j1))
      /\ Len(ImmEncode(c.meta.Imm2, i2)) <= Len(ImmEncode(c.meta.Imm2, j2))
  <2>1. \A i \in 1..3 : Len(ImmEncode(Slot(c, i), value(c, i, s)))
                          <= Len(ImmEncode(Slot(c, i), value(c, i, t)))
    BY <1>1, ValueGrows
  <2>2. 1 \in 1..3 /\ 2 \in 1..3 /\ 3 \in 1..3
    OBVIOUS
  <2> QED
    BY <1>5, <2>1, <2>2, Zenon
<1>7. EncodeArgs(c, s) = Encode(c.meta, i0, i1, i2) /\ EncodeArgs(c, t) = Encode(c.meta, j0, j1, j2)
  BY DEF EncodeArgs
<1> HIDE DEF i0, i1, i2, j0, j1, j2
<1>8. /\ Encode(c.meta, i0, i1, i2) \in Seq(Byte)
      /\ Len(Encode(c.meta, i0, i1, i2)) \in 1..26
      /\ Len(Encode(c.meta, i0, i1, i2)) <= Len(Encode(c.meta, j0, j1, j2))
  BY <1>3, <1>4, <1>6, EncodeGrows, ZenonT(20)
<1> QED
  BY <1>2, <1>7, <1>8, Zenon

\* What Fix relies on holds of the encoder of opcode.go, for all calls of EmitOp
\* and all offsets of 64 bits: ImmMeta.Encode takes as few bytes as hold the
\* offset and its sign, OpMeta.Encode a longer header only for longer immediates.
THEOREM EncoderTheorem ==
    ASSUME RealEncoder
    PROVE  EncoderGrows(Offsets)
<1>1. SUFFICES ASSUME NEW c \in Call, Accepts(c), NEW s \in Offsets
               PROVE  /\ Encoding(c, s) \in Seq(0..255)
                      /\ Len(Encoding(c, s)) \in 1 .. MaxOpLength
                      /\ Len(Encoding(c, s)) <= Len(Encoding(c, MaxOffset))
                      /\ \A t \in Offsets : (0 <= s /\ s <= t) \/ (t <= s /\ s <= 0) =>
                            Len(Encoding(c, s)) <= Len(Encoding(c, t))
  BY DEF EncoderGrows
<1>2. MaxOffset \in Offsets
  BY BoundsAssumption DEF Offsets
<1>3. /\ Encoding(c, s) \in Seq(Byte)
      /\ Len(Encoding(c, s)) \in 1..26
      /\ Len(Encoding(c, s)) <= Len(Encoding(c, MaxOffset))
  BY <1>1, <1>2, ArgsGrow
<1>4. \A t \in Offsets : Nearer(s, t) => Len(Encoding(c, s)) <= Len(Encoding(c, t))
  BY <1>1, ArgsGrow
<1>5. MaxOpLength = 26 /\ Byte = 0..255
  BY DEF MaxOpLength, Byte
<1> QED
  BY <1>3, <1>4, <1>5, Zenon DEF Nearer

\* The code of an item stands at its address.
LEMMA ItemInCode ==
    ASSUME EncoderGrows(Offsets), Struct, Items, Addresses, Done, NEW k \in 1..N
    PROVE  /\ Code \in Seq(Byte) /\ XP[k] \in Nat
           /\ XP[k] + Len(Bytes(k)) <= Len(Code)
           /\ Holds(Code, XP[k], Bytes(k))
<1>1. N \in Nat /\ k - 1 \in 0..N /\ k \in 0..N /\ (k - 1) + 1 = k /\ k - 1 \in Nat /\ N \in 0..N
      /\ k \in Nat /\ k \in 0..N /\ N \in k..N
  BY Parts
<1>2. Code = Concat(Encodings, N)
  BY DEF Code, Encodings
<1>3. \A j \in 1..N : Encodings[j] \in Seq(0..255) /\ Encodings[j] = Bytes(j)
  BY BytesType DEF Encodings
<1> DEFINE before == Concat(Encodings, k - 1)
           upto == Concat(Encodings, k)
<1>4. before \in Seq(0..255) /\ upto \in Seq(0..255) /\ Code \in Seq(0..255)
  BY <1>1, <1>2, CodeLength
<1>5. upto = before \o Bytes(k)
  BY <1>1, <1>3, ConcatNext, Zenon
<1>6. Len(before) = XP[k]
  BY <1>1, CodeLength, AddressIs DEF Done
<1>7. /\ Len(upto) <= Len(Code)
      /\ \A i \in 1 .. Len(upto) : Code[i] = upto[i]
  BY <1>1, <1>2, <1>3, ConcatPrefix, ZenonT(20)
<1>8. 0..255 = Byte
  BY DEF Byte
<1>9. Bytes(k) \in Seq(Byte)
  BY <1>3, <1>8, ZenonT(20)
<1> HIDE DEF before, upto
<1>10. /\ Len(upto) = Len(before) + Len(Bytes(k)) /\ Len(before) \in Nat /\ Len(Bytes(k)) \in Nat
       /\ \A i \in 1 .. Len(Bytes(k)) : upto[Len(before) + i] = Bytes(k)[i]
  BY <1>4, <1>5, <1>8, <1>9, Glued, SMTT(40), Z3T(40)
<1>11. DOMAIN Bytes(k) = 1 .. Len(Bytes(k))
  BY <1>9
<1>12. ASSUME NEW i \in 1 .. Len(Bytes(k)) PROVE Code[XP[k] + i] = Bytes(k)[i]
  <2>1. Len(before) + i \in 1 .. Len(upto)
    BY <1>10, SMTT(40), Z3T(40)
  <2> QED
    BY <1>6, <1>7, <1>10, <2>1, ZenonT(20)
<1>13. Len(upto) <= Len(Code) /\ Len(Code) \in Nat
  BY <1>4, <1>7, SMTT(40), Z3T(40)
<1> QED
  BY <1>4, <1>6, <1>8, <1>10, <1>11, <1>12, <1>13, ZenonT(20) DEF Holds

\* Op.Decode finds, at the address of each op of a finished program, the
\* instruction that EmitOp was called for, with the numbers it was given, of
\* whatever Go type, and the offset that Fix chose.
THEOREM CodeTheorem ==
    ASSUME RealEncoder
    PROVE  Spec => []CodeDecodes
<1>0. EncoderGrows(Offsets)
  BY EncoderTheorem
<1>1. ASSUME Inv PROVE CodeDecodes
  <2>1. Struct /\ Items /\ Addresses
    BY <1>1 DEF Inv
  <2>2. SUFFICES ASSUME Done, NEW k \in 1..N, IsOp(k)
                 PROVE  LET c == List[k]
                            d == Decode(Code, XP[k])
                            same(i, got) == Survives(Slot(c, i), value(c, i, Imm[k])) =>
                                                IsArgument(got, c, i, Imm[k])
                        IN  /\ d.err = "nil" /\ d.Meta = c.meta /\ d.Len = Len(Bytes(k))
                            /\ same(1, d.Imm0) /\ same(2, d.Imm1) /\ same(3, d.Imm2)
    BY Zenon DEF CodeDecodes
  <2> DEFINE c == List[k]
             d == Decode(Code, XP[k])
             i0 == value(c, 1, Imm[k])
             i1 == value(c, 2, Imm[k])
             i2 == value(c, 3, Imm[k])
  <2>3. c \in Call /\ Accepts(c) /\ Imm[k] \in Offsets
    BY <2>1, <2>2, Parts
  <2>4. IsCall(c) /\ AcceptsArgs(c) /\ Encoding(c, Imm[k]) = EncodeArgs(c, Imm[k])
    BY <2>3, Zenon DEF RealEncoder
  <2>5. Bytes(k) = Encode(c.meta, i0, i1, i2)
    BY <2>2, <2>4, ZenonT(20) DEF Bytes, Done, EncodeArgs
  <2>6. /\ i0 \in Uint64 /\ i1 \in Uint64 /\ i2 \in Uint64 /\ c.meta \in opMeta
        /\ IsArgument(i0, c, 1, Imm[k]) /\ IsArgument(i1, c, 2, Imm[k]) /\ IsArgument(i2, c, 3, Imm[k])
    <3>1. Imm[k] \in Int
      BY <2>3, BoundsAssumption, SMTT(40), Z3T(40) DEF Offsets
    <3>2. \A i \in 1..3 : value(c, i, Imm[k]) \in Uint64 /\ IsArgument(value(c, i, Imm[k]), c, i, Imm[k])
      BY <2>4, <3>1, ValueType, Zenon
    <3>3. 1 \in 1..3 /\ 2 \in 1..3 /\ 3 \in 1..3
      OBVIOUS
    <3> QED
      BY <2>4, <3>2, <3>3, Zenon DEF IsCall
  <2>7. /\ Code \in Seq(Byte) /\ XP[k] \in Nat
        /\ XP[k] + Len(Bytes(k)) <= Len(Code)
        /\ Holds(Code, XP[k], Bytes(k))
    BY <1>0, <2>1, <2>2, ItemInCode
  <2>8. Len(Bytes(k)) \in 1..26
    <3>1. MaxOffset \in Offsets
      BY BoundsAssumption DEF Offsets
    <3>2. Len(Encoding(c, Imm[k])) \in 1..26
      BY <2>3, <3>1, ArgsGrow
    <3> QED
      BY <2>2, <3>2 DEF Bytes, Done
  <2>9. XP[k] < Len(Code)
    <3> DEFINE x == XP[k]
               y == Len(Bytes(k))
               z == Len(Code)
    <3>1. x \in Nat /\ y \in 1..26 /\ z \in Nat /\ x + y <= z
      BY <2>7, <2>8
    <3> HIDE DEF x, y, z
    <3>2. x < z
      BY <3>1
    <3> QED
      BY <3>2 DEF x, z
  <2> HIDE DEF c, i0, i1, i2
  <2>10. d = OpOf(c.meta, i0, i1, i2)
    BY <2>5, <2>6, <2>7, <2>9, DecodeEncoded, ZenonT(20)
  <2> HIDE DEF d
  <2>11. /\ d.err = "nil" /\ d.Meta = c.meta /\ d.Len = Len(Bytes(k))
         /\ d.Imm0 = Decoded(c.meta.Imm0, i0) /\ d.Imm1 = Decoded(c.meta.Imm1, i1)
         /\ d.Imm2 = Decoded(c.meta.Imm2, i2)
    <3>1. \A op, meta, imm0, imm1, imm2 : op = OpOf(meta, imm0, imm1, imm2) =>
                  /\ op.err = "nil" /\ op.Meta = meta /\ op.Len = Len(Encode(meta, imm0, imm1, imm2))
                  /\ op.Imm0 = Decoded(meta.Imm0, imm0) /\ op.Imm1 = Decoded(meta.Imm1, imm1)
                  /\ op.Imm2 = Decoded(meta.Imm2, imm2)
      BY SMTT(40), Z3T(40) DEF OpOf
    <3>2. /\ d.err = "nil" /\ d.Meta = c.meta /\ d.Len = Len(Encode(c.meta, i0, i1, i2))
          /\ d.Imm0 = Decoded(c.meta.Imm0, i0) /\ d.Imm1 = Decoded(c.meta.Imm1, i1)
          /\ d.Imm2 = Decoded(c.meta.Imm2, i2)
      BY <2>10, <3>1, SMTT(40), Z3T(40)
    <3>3. d.Len = Len(Bytes(k))
      BY <2>5, <3>2, Zenon
    <3> QED
      BY <3>2, <3>3, Zenon
  <2>12. Slot(c, 1) = c.meta.Imm0 /\ Slot(c, 2) = c.meta.Imm1 /\ Slot(c, 3) = c.meta.Imm2
    BY DEF Slot
  <2>13. /\ Survives(Slot(c, 1), i0) => d.Imm0 = i0
         /\ Survives(Slot(c, 2), i1) => d.Imm1 = i1
         /\ Survives(Slot(c, 3), i2) => d.Imm2 = i2
    BY <2>6, <2>11, <2>12, SurvivorDecoded, Zenon
  <2>14. /\ Survives(Slot(c, 1), i0) => IsArgument(d.Imm0, c, 1, Imm[k])
         /\ Survives(Slot(c, 2), i1) => IsArgument(d.Imm1, c, 2, Imm[k])
         /\ Survives(Slot(c, 3), i2) => IsArgument(d.Imm2, c, 3, Imm[k])
    BY <2>6, <2>13, Zenon
  <2> QED
    BY <2>11, <2>14, Zenon DEF c, d, i0, i1, i2
<1> QED
  BY <1>0, <1>1, Invariant, PTL

\* So the theorems of Assembler_proofs hold of the assembler as it is, with the
\* encoder of opcode.go: Fix keeps its assertions and runs off the list only for
\* want of a label, addresses and decisions are final, and a jump misses its
\* label only by what the last resort saved.
THEOREM AssemblyTheorem ==
    ASSUME RealEncoder
    PROVE  Spec => /\ [](FixNeverGoofs /\ PanicsOnlyWithoutLabel /\ AddressesAreFinal
                          /\ MissesOnlyBySaving /\ LabelsAscend)
                   /\ DecisionsAreFinal
<1>1. EncoderGrows(Offsets)
  BY EncoderTheorem
<1>2. Spec => []FixNeverGoofs
  BY <1>1, NeverGoofsTheorem
<1>3. Spec => []PanicsOnlyWithoutLabel
  BY <1>1, MissingLabelTheorem
<1>4. Spec => []AddressesAreFinal
  BY <1>1, AddressesTheorem
<1>5. Spec => []MissesOnlyBySaving
  BY <1>1, MissesTheorem
<1>6. Spec => []LabelsAscend
  BY <1>1, LabelsTheorem
<1>7. Spec => DecisionsAreFinal
  BY <1>1, DecisionsTheorem
<1> QED
  BY <1>2, <1>3, <1>4, <1>5, <1>6, <1>7, PTL
=============================================================================
