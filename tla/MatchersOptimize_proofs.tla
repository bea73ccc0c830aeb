----------------------- MODULE MatchersOptimize_proofs ------------------------
(***************************************************************************)
(* What Optimize of module Matchers does, and the theorems about the       *)
(* module.  Optimize allocates matchers and redirects negations, so a heap *)
(* grows and is written to; the invariant is that the heap keeps a rank    *)
(* (Sound) and that no step changes the set of a matcher.                  *)
(***************************************************************************)
EXTENDS Matchers_proofs

-----------------------------------------------------------------------------
(* Heaps that grow, and negations that are written to. *)

LEMMA SeqSelf ==
    ASSUME NEW S, NEW s \in Seq(S)
    PROVE  s \in Seq(ToSet(s)) /\ Len(s) \in Nat /\ DOMAIN s = 1 .. Len(s)
<1>1. Len(s) \in Nat /\ DOMAIN s = 1 .. Len(s) /\ s \in [1 .. Len(s) -> S]
  OBVIOUS
<1>2. s \in [1 .. Len(s) -> ToSet(s)]
  BY <1>1 DEF ToSet
<1> QED
  BY <1>1, <1>2

LEMMA SeqAppend ==
    ASSUME NEW S, NEW s \in Seq(S), NEW x
    PROVE  /\ Append(s, x) \in Seq(ToSet(Append(s, x)))
           /\ Len(s) \in Nat /\ DOMAIN s = 1 .. Len(s)
           /\ Len(Append(s, x)) = Len(s) + 1
           /\ DOMAIN Append(s, x) = 1 .. Len(s) + 1
           /\ \A i \in 1 .. Len(s) : Append(s, x)[i] = s[i]
           /\ Append(s, x)[Len(s) + 1] = x
<1>1. s \in Seq(S \cup {x}) /\ Len(s) \in Nat /\ DOMAIN s = 1 .. Len(s)
  OBVIOUS
<1>2. /\ Append(s, x) \in Seq(S \cup {x})
      /\ Len(Append(s, x)) = Len(s) + 1
      /\ DOMAIN Append(s, x) = 1 .. Len(s) + 1
      /\ \A i \in 1 .. Len(s) : Append(s, x)[i] = s[i]
      /\ Append(s, x)[Len(s) + 1] = x
  BY <1>1
<1>3. Append(s, x) \in Seq(ToSet(Append(s, x)))
  BY <1>2, SeqSelf, Zenon
<1> QED
  BY <1>1, <1>2, <1>3, Zenon

\* The sequence u is s with x in place p.
Changed(s, p, x, u) ==
    /\ u \in Seq(ToSet(u)) /\ Len(u) = Len(s) /\ DOMAIN u = DOMAIN s
    /\ u[p] = x /\ \A q \in DOMAIN s : q # p => u[q] = s[q]

LEMMA SeqExcept ==
    ASSUME NEW s, s \in Seq(ToSet(s)), NEW p \in DOMAIN s, NEW x, NEW u, u = [s EXCEPT ![p] = x]
    PROVE  Changed(s, p, x, u)
<1>1. s \in Seq(ToSet(s) \cup {x}) /\ Len(s) \in Nat /\ DOMAIN s = 1 .. Len(s)
  OBVIOUS
<1>2. u \in Seq(ToSet(s) \cup {x}) /\ Len(u) = Len(s) /\ DOMAIN u = DOMAIN s
  BY <1>1
<1>3. u[p] = x /\ \A q \in DOMAIN s : q # p => u[q] = s[q]
  BY <1>1
<1>4. u \in Seq(ToSet(u))
  BY <1>2, SeqSelf, Zenon
<1> QED
  BY <1>2, <1>3, <1>4, Zenon DEF Changed

\* The ranks in a heap to which matchers of rank r were added.
RankedBy(h, rank, r, g) == [q \in DOMAIN g |-> IF q \in DOMAIN h THEN rank[q] ELSE r]

\* The matcher m is made of matchers of a rank below r.
Fits(h, rank, m, r) ==
    IsMatcher(m) /\ r \in 0 .. Len(h) /\ \A q \in Subs(m) : q \in DOMAIN h /\ rank[q] < r

Added(h, rank, m, r, g) ==
    /\ Sound(g, RankedBy(h, rank, r, g)) /\ Len(g) = Len(h) + 1 /\ DOMAIN h \subseteq DOMAIN g
    /\ g[Len(h) + 1] = m /\ Len(h) + 1 \in DOMAIN g /\ Len(h) + 1 \notin DOMAIN h
    /\ \A q \in DOMAIN h : g[q] = h[q] /\ Members(g, q) = Members(h, q)

\* A matcher made of those there are is sound, and no other one changes.
LEMMA AddMatcher ==
    ASSUME NEW h, NEW rank, Sound(h, rank), NEW m, NEW r, Fits(h, rank, m, r),
           NEW g, g = Append(h, m)
    PROVE  Added(h, rank, m, r, g)
<1> DEFINE n == Len(h) + 1
           rk == RankedBy(h, rank, r, g)
<1>0. IsMatcher(m) /\ r \in 0 .. Len(h) /\ \A q \in Subs(m) : q \in DOMAIN h /\ rank[q] < r
  BY Zenon DEF Fits
<1>1. /\ h \in Seq(ToSet(h)) /\ Len(h) >= 2
      /\ h[singletonAll].type = "mAll" /\ h[singletonNone].type = "mNone"
      /\ rank \in [DOMAIN h -> Nat] /\ rank[singletonAll] = 0 /\ rank[singletonNone] = 0
      /\ \A p \in DOMAIN h : IsMatcher(h[p]) /\ rank[p] < Len(h)
      /\ \A p \in DOMAIN h : \A q \in Subs(h[p]) : q \in DOMAIN h /\ rank[q] < rank[p]
  BY Zenon DEF Sound
<1>2. /\ g \in Seq(ToSet(g)) /\ Len(h) \in Nat /\ DOMAIN h = 1 .. Len(h) /\ Len(g) = n
      /\ DOMAIN g = 1 .. n /\ g[n] = m /\ \A q \in DOMAIN h : g[q] = h[q]
  <2>1. h \in Seq(ToSet(h))
    BY <1>1, Zenon
  <2>2. /\ Append(h, m) \in Seq(ToSet(Append(h, m)))
        /\ Len(h) \in Nat /\ DOMAIN h = 1 .. Len(h)
        /\ Len(Append(h, m)) = Len(h) + 1
        /\ DOMAIN Append(h, m) = 1 .. Len(h) + 1
        /\ \A i \in 1 .. Len(h) : Append(h, m)[i] = h[i]
        /\ Append(h, m)[Len(h) + 1] = m
    BY <2>1, SeqAppend, Zenon
  <2> QED
    BY <2>2, Zenon
<1>3. /\ DOMAIN h \subseteq DOMAIN g /\ n \in DOMAIN g /\ n \notin DOMAIN h
      /\ \A q \in DOMAIN g : q \in DOMAIN h \/ q = n
      /\ singletonAll \in DOMAIN h /\ singletonNone \in DOMAIN h
  BY <1>1, <1>2 DEF singletonAll, singletonNone
<1> HIDE DEF n
<1>4. rk[n] = r /\ \A q \in DOMAIN h : rk[q] = rank[q]
  BY <1>3, Zenon DEF RankedBy
<1>5. rk \in [DOMAIN g -> Nat] /\ \A q \in DOMAIN g : rk[q] < Len(g)
  BY <1>0, <1>1, <1>2, <1>3, <1>4 DEF n, RankedBy
<1> HIDE DEF rk
<1>6. ASSUME NEW p \in DOMAIN g
      PROVE  IsMatcher(g[p]) /\ \A q \in Subs(g[p]) : q \in DOMAIN g /\ rk[q] < rk[p]
  <2>1. CASE p = n
    <3>1. g[p] = m /\ rk[p] = r
      BY <1>2, <1>4, <2>1, Zenon
    <3>2. \A q \in Subs(m) : q \in DOMAIN g /\ rk[q] < r
      BY <1>0, <1>3, <1>4, Zenon
    <3> QED
      BY <1>0, <3>1, <3>2, Zenon
  <2>2. CASE p \in DOMAIN h
    <3>1. g[p] = h[p] /\ rk[p] = rank[p]
      BY <1>2, <1>4, <2>2, Zenon
    <3>2. \A q \in Subs(h[p]) : q \in DOMAIN g /\ rk[q] < rank[p]
      BY <1>1, <1>3, <1>4, <2>2, Zenon
    <3> QED
      BY <1>1, <2>2, <3>1, <3>2, Zenon
  <2> QED
    BY <1>3, <2>1, <2>2, Zenon
<1>7. g[singletonAll].type = "mAll" /\ g[singletonNone].type = "mNone"
  BY <1>1, <1>2, <1>3, Zenon
<1>8. rk[singletonAll] = 0 /\ rk[singletonNone] = 0
  BY <1>1, <1>3, <1>4, Zenon
<1>9. Len(g) >= 2
  BY <1>1, <1>2 DEF n
<1>10. Sound(g, rk)
  BY <1>2, <1>5, <1>6, <1>7, <1>8, <1>9, Zenon DEF Sound
<1>11. Rewritten(h, g, rank)
  BY <1>2, Zenon DEF Rewritten
<1>12. \A q \in DOMAIN h : Members(g, q) = Members(h, q)
  BY <1>3, <1>10, <1>11, RewrittenSame, Zenon
<1> QED
  BY <1>2, <1>3, <1>10, <1>12, Zenon DEF n, rk, Added

\* The ranks in a heap that has grown by matchers that hold no others.
Grown(h, rank, g) == RankedBy(h, rank, 0, g)

\* What a call of Optimize may do to the heap.
Grows(h, rank, g) ==
    /\ DOMAIN h \subseteq DOMAIN g /\ Sound(g, Grown(h, rank, g))
    /\ \A q \in DOMAIN h : Members(g, q) = Members(h, q) /\ g[q].type = h[q].type

LEMMA GrownSame ==
    ASSUME NEW h, NEW rank, Sound(h, rank)
    PROVE  Grown(h, rank, h) = rank /\ Grows(h, rank, h)
<1>1. rank \in [DOMAIN h -> Nat]
  BY Zenon DEF Sound
<1>2. Grown(h, rank, h) = rank
  BY <1>1 DEF Grown, RankedBy
<1> QED
  BY <1>2 DEF Grows

LEMMA GrownTwice ==
    ASSUME NEW h, NEW rank, NEW g, Grows(h, rank, g),
           NEW f, Grows(g, Grown(h, rank, g), f)
    PROVE  Grown(g, Grown(h, rank, g), f) = Grown(h, rank, f) /\ Grows(h, rank, f)
<1>1. DOMAIN h \subseteq DOMAIN g /\ DOMAIN g \subseteq DOMAIN f
  BY DEF Grows
<1>2. Grown(g, Grown(h, rank, g), f) = Grown(h, rank, f)
  BY <1>1 DEF Grown, RankedBy
<1>3. Sound(f, Grown(h, rank, f))
  BY <1>2, Zenon DEF Grows
<1>4. \A q \in DOMAIN h : Members(f, q) = Members(h, q) /\ f[q].type = h[q].type
  BY <1>1, Zenon DEF Grows
<1> QED
  BY <1>1, <1>2, <1>3, <1>4 DEF Grows

\* A new matcher that holds no others.
LeafAdded(h, rank, m, g) ==
    /\ Grows(h, rank, g) /\ Len(h) + 1 \in DOMAIN g /\ Len(h) + 1 \notin DOMAIN h
    /\ g[Len(h) + 1] = m /\ Members(g, Len(h) + 1) = LeafSet(m)
    /\ Grown(h, rank, g)[Len(h) + 1] = 0 /\ \A q \in DOMAIN h : g[q] = h[q]

LEMMA AddLeaf ==
    ASSUME NEW h, NEW rank, Sound(h, rank), NEW m, IsMatcher(m), m.type \notin Composite
    PROVE  LeafAdded(h, rank, m, Append(h, m))
<1> DEFINE n == Len(h) + 1
           g == Append(h, m)
           rk == Grown(h, rank, g)
<1>1. \A q \in Subs(m) : q \in DOMAIN h /\ rank[q] < 0
  BY SubsOf, Zenon DEF Composite
<1>2. 0 \in 0 .. Len(h)
  <2>1. h \in Seq(ToSet(h))
    BY Zenon DEF Sound
  <2> QED
    BY <2>1, SeqSelf
<1>3. rk = RankedBy(h, rank, 0, g)
  BY Zenon DEF Grown
<1> HIDE DEF rk
<1>4. /\ Sound(g, rk) /\ Len(g) = n /\ DOMAIN h \subseteq DOMAIN g
      /\ g[n] = m /\ n \in DOMAIN g /\ n \notin DOMAIN h
      /\ \A q \in DOMAIN h : g[q] = h[q] /\ Members(g, q) = Members(h, q)
  <2>1. Fits(h, rank, m, 0)
    BY <1>1, <1>2, Zenon DEF Fits
  <2>2. Added(h, rank, m, 0, g)
    BY <2>1, AddMatcher, Zenon
  <2> QED
    BY <1>3, <2>2, Zenon DEF Added
<1> HIDE DEF n, g
<1>5. Members(g, n) = LeafSet(m)
  BY <1>4, LeafMembers, Zenon
<1>6. rk[n] = 0
  BY <1>3, <1>4, Zenon DEF RankedBy
<1>7. Grows(h, rank, g)
  BY <1>4, Zenon DEF Grows, rk
<1> QED
  <2>1. LeafAdded(h, rank, m, g)
    BY <1>4, <1>5, <1>6, <1>7, Zenon DEF n, rk, LeafAdded
  <2> QED
    BY <2>1, Zenon DEF g

Redirected(h, rank, p, r, g) ==
    /\ Grows(h, rank, g) /\ Grown(h, rank, g) = rank /\ DOMAIN g = DOMAIN h
    /\ g[p] = [type |-> "mNegation", Inner |-> r]
    /\ \A q \in DOMAIN h : q # p => g[q] = h[q]

\* A negation that is made to hold another matcher for the same set.
LEMMA Redirect ==
    ASSUME NEW h, NEW rank, Sound(h, rank), NEW p \in DOMAIN h, h[p].type = "mNegation",
           NEW r \in DOMAIN h, rank[r] < rank[p], Members(h, r) = Members(h, h[p].Inner),
           NEW g, g = [h EXCEPT ![p].Inner = r]
    PROVE  Redirected(h, rank, p, r, g)
<1> DEFINE m == [type |-> "mNegation", Inner |-> r]
<1>1. /\ h \in Seq(ToSet(h)) /\ Len(h) >= 2
      /\ h[singletonAll].type = "mAll" /\ h[singletonNone].type = "mNone"
      /\ rank \in [DOMAIN h -> Nat] /\ rank[singletonAll] = 0 /\ rank[singletonNone] = 0
      /\ \A q \in DOMAIN h : IsMatcher(h[q]) /\ rank[q] < Len(h)
      /\ \A q \in DOMAIN h : \A s \in Subs(h[q]) : s \in DOMAIN h /\ rank[s] < rank[q]
  BY Zenon DEF Sound
<1>2. g = [h EXCEPT ![p] = m]
  <2>1. h[p] = [type |-> "mNegation", Inner |-> h[p].Inner]
    BY <1>1, Zenon DEF IsMatcher
  <2>2. [h[p] EXCEPT !.Inner = r] = m
    BY <2>1
  <2> QED
    BY <2>2, Zenon
<1>3. m.type = "mNegation" /\ m.Inner = r
  OBVIOUS
<1>4. IsMatcher(m)
  BY DEF IsMatcher
<1> HIDE DEF m
<1>5. /\ g \in Seq(ToSet(g)) /\ Len(g) = Len(h) /\ DOMAIN g = DOMAIN h
      /\ g[p] = m /\ \A q \in DOMAIN h : q # p => g[q] = h[q]
  <2>1. h \in Seq(ToSet(h))
    BY <1>1, Zenon
  <2>2. Changed(h, p, m, g)
    BY <1>2, <2>1, SeqExcept, Zenon
  <2> QED
    BY <2>2, ZenonT(40) DEF Changed
<1>6. singletonAll \in DOMAIN h /\ singletonNone \in DOMAIN h
  <2>1. DOMAIN h = 1 .. Len(h) /\ Len(h) \in Nat
    BY <1>1, SeqSelf
  <2> QED
    BY <1>1, <2>1 DEF singletonAll, singletonNone
<1>7. g[singletonAll].type = "mAll" /\ g[singletonNone].type = "mNone"
  BY <1>1, <1>5, <1>6
<1>8. Subs(m) = {r}
  BY <1>3, SubsOf, Zenon
<1>9. ASSUME NEW q \in DOMAIN g
      PROVE  /\ IsMatcher(g[q]) /\ rank[q] < Len(g)
             /\ \A s \in Subs(g[q]) : s \in DOMAIN g /\ rank[s] < rank[q]
  <2>1. CASE q = p
    BY <1>1, <1>4, <1>5, <1>8, <2>1, Zenon
  <2>2. CASE q # p
    <3>1. g[q] = h[q] /\ q \in DOMAIN h
      BY <1>5, <2>2, Zenon
    <3> QED
      BY <1>1, <1>5, <3>1, Zenon
  <2> QED
    BY <2>1, <2>2
<1>10. Sound(g, rank)
  BY <1>1, <1>5, <1>7, <1>9, Zenon DEF Sound
<1>11. Grown(h, rank, g) = rank
  BY <1>1, <1>5 DEF Grown, RankedBy
<1>12. Rewritten(h, g, rank)
  <2>1. ASSUME NEW q \in DOMAIN h
        PROVE  \/ g[q] = h[q]
               \/ /\ h[q].type = "mNegation" /\ g[q].type = "mNegation"
                  /\ g[q].Inner \in DOMAIN h /\ rank[g[q].Inner] < rank[q]
                  /\ Members(h, g[q].Inner) = Members(h, h[q].Inner)
    BY <1>3, <1>5, Zenon
  <2> QED
    BY <2>1, Zenon DEF Rewritten
<1>13. \A q \in DOMAIN h : Members(g, q) = Members(h, q)
  <2>1. DOMAIN h \subseteq DOMAIN g
    BY <1>5
  <2> QED
    BY <2>1, <1>10, <1>12, RewrittenSame, ZenonT(40)
<1>14. \A q \in DOMAIN h : g[q].type = h[q].type
  BY <1>3, <1>5, Zenon
<1>15. Grows(h, rank, g)
  BY <1>5, <1>10, <1>11, <1>13, <1>14, Zenon DEF Grows
<1> QED
  BY <1>5, <1>11, <1>15, Zenon DEF m, Redirected

-----------------------------------------------------------------------------
(* What a call of Optimize returns. *)

\* Optimize returns such a matcher as it is: no case of its method applies.
SettledLeaf(m) ==
    \/ m.type \in {"mAll", "mNone", "mExact"}
    \/ m.type = "mDense" /\ Len(mDense_ForEach(m)) \notin {0, 1, Words * Bits}
    \/ m.type = "mSparse" /\ Len(Ascending(m.Set)) \notin {0, 1}
    \/ m.type = "mRange" /\ m.Ranges # <<>>

Settled(g, p) ==
    \/ SettledLeaf(g[p])
    \/ /\ g[p].type = "mNegation" /\ SettledLeaf(g[g[p].Inner])
       /\ g[g[p].Inner].type \in {"mExact", "mSparse", "mRange"}

\* The result r of Optimize for p stands for the same set, no other matcher's set
\* has changed, and r has nothing left to optimize but perhaps the words of a
\* dense set.
Better(h, rank, p, r) ==
    /\ r = [heap |-> r.heap, result |-> r.result]
    /\ Grows(h, rank, r.heap) /\ r.result \in DOMAIN r.heap
    /\ Grown(h, rank, r.heap)[r.result] <= rank[p]
    /\ Members(r.heap, r.result) = Members(h, p)
    /\ Settled(r.heap, r.result) \/ r.heap[r.result].type = "mDense"

LEMMA OldBetter ==
    ASSUME NEW h, NEW rank, Sound(h, rank), NEW p, NEW q \in DOMAIN h, rank[q] <= rank[p],
           Members(h, q) = Members(h, p), Settled(h, q) \/ h[q].type = "mDense"
    PROVE  Better(h, rank, p, old(h, q))
<1>1. old(h, q).heap = h /\ old(h, q).result = q /\ old(h, q) = [heap |-> h, result |-> q]
  BY DEF old
<1>2. Grown(h, rank, h) = rank /\ Grows(h, rank, h)
  BY GrownSame, Zenon
<1> QED
  BY <1>1, <1>2, Zenon DEF Better

LEMMA NewBetter ==
    ASSUME NEW h, NEW rank, Sound(h, rank), NEW p \in DOMAIN h, NEW m, IsMatcher(m),
           m.type \notin Composite, LeafSet(m) = Members(h, p), SettledLeaf(m) \/ m.type = "mDense"
    PROVE  Better(h, rank, p, new(h, m))
<1> DEFINE r == new(h, m)
           g == Append(h, m)
           n == Len(h) + 1
<1>1. r.heap = g /\ r.result = n /\ r = [heap |-> g, result |-> n]
  BY DEF new
<1> HIDE DEF r
<1>2. /\ Grows(h, rank, g) /\ n \in DOMAIN g /\ g[n] = m /\ Members(g, n) = LeafSet(m)
      /\ Grown(h, rank, g)[n] = 0
  <2>1. LeafAdded(h, rank, m, g)
    BY AddLeaf, Zenon
  <2> QED
    BY <2>1, Zenon DEF LeafAdded
<1> HIDE DEF g, n
<1>3. 0 <= rank[p]
  <2>1. rank[p] \in Nat
    BY Parts, Zenon
  <2> QED
    BY <2>1
<1>4. Grown(h, rank, g)[n] <= rank[p]
  BY <1>2, <1>3, Zenon
<1>5. Settled(g, n) \/ g[n].type = "mDense"
  BY <1>2, Zenon DEF Settled
<1>6. Better(h, rank, p, r)
  BY <1>1, <1>2, <1>4, <1>5, Zenon DEF Better
<1> QED
  BY <1>6 DEF r

\* What is better after the heap has grown is better.
LEMMA ThenBetter ==
    ASSUME NEW h, NEW rank, NEW p, NEW g, Grows(h, rank, g), rank[p] \in Nat,
           NEW q \in DOMAIN g, Grown(h, rank, g)[q] <= rank[p], Members(g, q) = Members(h, p),
           NEW r, Better(g, Grown(h, rank, g), q, r)
    PROVE  Better(h, rank, p, r)
<1> DEFINE rk == Grown(h, rank, g)
<1>1. Grows(g, rk, r.heap)
  BY Zenon DEF Better
<1>2. Grown(g, rk, r.heap) = Grown(h, rank, r.heap) /\ Grows(h, rank, r.heap)
  BY <1>1, GrownTwice, Zenon
<1>3. Grown(g, rk, r.heap)[r.result] <= rk[q] /\ r.result \in DOMAIN r.heap
  BY Zenon DEF Better
<1>4. Grown(h, rank, r.heap)[r.result] <= rank[p]
  <2>1. rk[q] \in Nat /\ Grown(h, rank, r.heap)[r.result] \in Nat
    <3>1. rk \in [DOMAIN g -> Nat] /\ Grown(h, rank, r.heap) \in [DOMAIN r.heap -> Nat]
      BY <1>2, Zenon DEF Grows, Sound
    <3> QED
      BY <1>3, <3>1, Zenon
  <2>2. Grown(h, rank, r.heap)[r.result] <= rk[q] /\ rk[q] <= rank[p]
    BY <1>2, <1>3, Zenon
  <2> HIDE DEF rk
  <2> QED
    BY <2>1, <2>2
<1>5. Members(r.heap, r.result) = Members(h, p)
  BY Zenon DEF Better
<1>6. r = [heap |-> r.heap, result |-> r.result] /\ (Settled(r.heap, r.result) \/ r.heap[r.result].type = "mDense")
  BY Zenon DEF Better
<1> QED
  BY <1>2, <1>3, <1>4, <1>5, <1>6, Zenon DEF Better

LEMMA Singletons ==
    ASSUME NEW h, NEW rank, Sound(h, rank), NEW p \in DOMAIN h
    PROVE  /\ Members(h, p) = Byte => Better(h, rank, p, old(h, singletonAll))
           /\ Members(h, p) = {} => Better(h, rank, p, old(h, singletonNone))
<1> DEFINE a == singletonAll
           n == singletonNone
<1>1. /\ h \in Seq(ToSet(h)) /\ Len(h) >= 2
      /\ h[a].type = "mAll" /\ h[n].type = "mNone" /\ rank[a] = 0 /\ rank[n] = 0
  BY Zenon DEF Sound
<1>2. a \in DOMAIN h /\ n \in DOMAIN h
  <2>1. DOMAIN h = 1 .. Len(h) /\ Len(h) \in Nat
    BY <1>1, SeqSelf
  <2> QED
    BY <1>1, <2>1 DEF singletonAll, singletonNone
<1>3. 0 <= rank[p]
  <2>1. rank[p] \in Nat
    BY Parts, Zenon
  <2> QED
    BY <2>1
<1> HIDE DEF a, n
<1>4. rank[a] <= rank[p] /\ rank[n] <= rank[p]
  BY <1>1, <1>3, Zenon
<1>5. h[a].type \notin Composite /\ h[n].type \notin Composite
  BY <1>1 DEF Composite
<1>6. Members(h, a) = Byte /\ Members(h, n) = {}
  <2>1. Members(h, a) = LeafSet(h[a]) /\ Members(h, n) = LeafSet(h[n])
    BY <1>2, <1>5, LeafMembers, Zenon
  <2>2. LeafSet(h[a]) = Byte /\ LeafSet(h[n]) = {}
    BY <1>1, LeafSets, Zenon
  <2> QED
    BY <2>1, <2>2, Zenon
<1>7. Settled(h, a) /\ Settled(h, n)
  BY <1>1 DEF Settled, SettledLeaf
<1>8. /\ Members(h, p) = Byte => Better(h, rank, p, old(h, a))
      /\ Members(h, p) = {} => Better(h, rank, p, old(h, n))
  BY <1>2, <1>4, <1>6, <1>7, OldBetter, Zenon
<1> QED
  BY <1>8 DEF a, n

LEMMA DenseBetter ==
    ASSUME NEW h, NEW rank, Sound(h, rank), NEW p \in DOMAIN h, NEW S, S = Members(h, p)
    PROVE  /\ Better(h, rank, p, new(h, mDense(S)))
           /\ new(h, mDense(S)).heap[new(h, mDense(S)).result].type = "mDense"
<1> DEFINE m == mDense(S)
<1>1. S \in SUBSET Byte
  BY MembersAre, Zenon
<1>2. /\ m.type = "mDense" /\ m.Set \in BitSets /\ m = [type |-> "mDense", Set |-> m.Set]
      /\ \A b \in Byte : mDense_Match(m, b) <=> b \in S
  BY <1>1, DenseOf, Zenon
<1> HIDE DEF m
<1>3. IsMatcher(m) /\ m.type \notin Composite
  BY <1>2 DEF IsMatcher, Composite
<1>4. LeafSet(m) = S
  <2>1. LeafSet(m) = {b \in Byte : mDense_Match(m, b)}
    BY <1>2, LeafSets, Zenon
  <2> QED
    BY <1>1, <1>2, <2>1
<1>5. Better(h, rank, p, new(h, m))
  BY <1>2, <1>3, <1>4, NewBetter, Zenon
<1>6. new(h, m).heap[new(h, m).result] = m
  <2>1. new(h, m).heap = Append(h, m) /\ new(h, m).result = Len(h) + 1
    BY DEF new
  <2>2. LeafAdded(h, rank, m, Append(h, m))
    BY <1>3, AddLeaf, Zenon
  <2> QED
    BY <2>1, <2>2, Zenon DEF LeafAdded
<1>7. Better(h, rank, p, new(h, m)) /\ new(h, m).heap[new(h, m).result].type = "mDense"
  BY <1>2, <1>5, <1>6, Zenon
<1> QED
  BY <1>7 DEF m

\* asDense keeps the set.
LEMMA AsDense ==
    ASSUME NEW h, NEW rank, Sound(h, rank), NEW p \in DOMAIN h
    PROVE  Better(h, rank, p, asDense(h, p)) /\ asDense(h, p).heap[asDense(h, p).result].type = "mDense"
<1> DEFINE m == h[p]
           new_(S) == new(h, mDense(S))
<1>1. IsMatcher(m) /\ rank[p] \in Nat
  BY Parts, Zenon
<1>2. CASE m.type = "mDense"
  <2>1. asDense(h, p) = old(h, p)
    BY <1>2 DEF asDense
  <2>2. old(h, p).heap = h /\ old(h, p).result = p
    BY DEF old
  <2>3. rank[p] <= rank[p]
    BY <1>1
  <2> QED
    BY <1>2, <2>1, <2>2, <2>3, OldBetter, Zenon
<1>3. ASSUME NEW S, S = Members(h, p), asDense(h, p) = new_(S)
      PROVE  Better(h, rank, p, asDense(h, p)) /\ asDense(h, p).heap[asDense(h, p).result].type = "mDense"
  BY <1>3, DenseBetter, Zenon
<1>4. m.type \notin Composite => Members(h, p) = LeafSet(m)
  BY LeafMembers, Zenon
<1>5. CASE m.type = "mExact"
  <2>1. asDense(h, p) = new_({m.Byte})
    BY <1>5 DEF asDense, mExact_asDense
  <2>2. {m.Byte} = Members(h, p)
    <3>1. m.type \notin Composite
      BY <1>5 DEF Composite
    <3> QED
      BY <1>4, <1>5, <3>1, LeafSets, Zenon
  <2> QED
    BY <1>3, <2>1, <2>2, Zenon
<1>6. CASE m.type = "mSparse"
  <2>1. asDense(h, p) = new_(m.Set)
    BY <1>6 DEF asDense, mSparse_asDense
  <2>2. m.Set = Members(h, p)
    <3>1. m.type \notin Composite
      BY <1>6 DEF Composite
    <3> QED
      BY <1>4, <1>6, <3>1, LeafSets, Zenon
  <2> QED
    BY <1>3, <2>1, <2>2, Zenon
<1>7. CASE m.type = "mRange"
  <2> DEFINE S == UNION {m.Ranges[i].Lo .. m.Ranges[i].Hi : i \in DOMAIN m.Ranges}
  <2>1. asDense(h, p) = new_(S)
    BY <1>7 DEF asDense, mRange_asDense
  <2>2. S = Members(h, p)
    <3>1. m.type \notin Composite
      BY <1>7 DEF Composite
    <3>2. IsRanges(m.Ranges)
      BY <1>1, <1>7, Zenon DEF IsMatcher
    <3>3. S = {b \in Byte : mRange_Match(m, b)}
      BY <3>2, RangeForEach, Zenon
    <3> HIDE DEF S
    <3> QED
      BY <1>4, <1>7, <3>1, <3>3, LeafSets, Zenon
  <2> HIDE DEF S
  <2> QED
    BY <1>3, <2>1, <2>2, Zenon
<1>8. CASE m.type \notin {"mDense", "mExact", "mSparse", "mRange"}
  <2>1. asDense(h, p) = new_(ToSet(ForEach(h, p)))
    BY <1>8 DEF asDense
  <2>2. ToSet(ForEach(h, p)) = Members(h, p)
    BY ForEachOf, Zenon
  <2> QED
    BY <1>3, <2>1, <2>2, Zenon
<1> QED
  BY <1>2, <1>5, <1>6, <1>7, <1>8

\* A byte alone.
LEMMA ExactBetter ==
    ASSUME NEW h, NEW rank, Sound(h, rank), NEW p \in DOMAIN h, NEW b \in Byte, Members(h, p) = {b}
    PROVE  /\ Better(h, rank, p, new(h, exactly(b)))
           /\ Settled(new(h, exactly(b)).heap, new(h, exactly(b)).result)
<1> DEFINE m == exactly(b)
<1>1. m.type = "mExact" /\ m.Byte = b
  BY DEF exactly
<1> HIDE DEF m
<1>2. IsMatcher(m) /\ m.type \notin Composite /\ SettledLeaf(m)
  BY <1>1 DEF IsMatcher, Composite, SettledLeaf
<1>3. LeafSet(m) = Members(h, p)
  BY <1>1, LeafSets, Zenon
<1>4. Better(h, rank, p, new(h, m))
  BY <1>2, <1>3, NewBetter, Zenon
<1>5. new(h, m).heap[new(h, m).result] = m
  <2>1. new(h, m).heap = Append(h, m) /\ new(h, m).result = Len(h) + 1
    BY DEF new
  <2>2. LeafAdded(h, rank, m, Append(h, m))
    BY <1>2, AddLeaf, Zenon
  <2> QED
    BY <2>1, <2>2, Zenon DEF LeafAdded
<1>6. Better(h, rank, p, new(h, m)) /\ Settled(new(h, m).heap, new(h, m).result)
  BY <1>2, <1>4, <1>5, Zenon DEF Settled
<1> QED
  BY <1>6 DEF m

\* The singletons are settled.
LEMMA SingletonsSettled ==
    ASSUME NEW h, NEW rank, Sound(h, rank)
    PROVE  /\ Settled(old(h, singletonAll).heap, old(h, singletonAll).result)
           /\ Settled(old(h, singletonNone).heap, old(h, singletonNone).result)
<1>1. h[singletonAll].type = "mAll" /\ h[singletonNone].type = "mNone"
  BY Zenon DEF Sound
<1> QED
  BY <1>1, SMTT(40) DEF Settled, SettledLeaf, old

\* A dense set is replaced by a singleton or a byte, or it is settled.
LEMMA DenseOptimize ==
    ASSUME NEW h, NEW rank, Sound(h, rank), NEW p \in DOMAIN h, h[p].type = "mDense"
    PROVE  /\ Better(h, rank, p, mDense_Optimize(h, p))
           /\ Settled(mDense_Optimize(h, p).heap, mDense_Optimize(h, p).result)
<1> DEFINE m == h[p]
           bytes == mDense_ForEach(m)
           r == mDense_Optimize(h, p)
<1>1. Members(h, p) = {b \in Byte : mDense_Match(m, b)}
  <2>1. m.type \notin Composite
    BY DEF Composite
  <2>2. Members(h, p) = LeafSet(m)
    BY <2>1, LeafMembers, Zenon
  <2> QED
    BY <2>2, LeafSets, Zenon
<1>2. bytes \in Lists /\ ToSet(bytes) = Members(h, p)
  <2>1. Members(h, p) \in SUBSET Byte
    BY MembersAre, Zenon
  <2>2. bytes = Ascending(Members(h, p))
    BY <1>1, DenseForEach, Zenon
  <2> QED
    BY <2>1, <2>2, AscendingLists, Zenon
<1>3. /\ Len(bytes) = 0 => r = old(h, singletonNone)
      /\ Len(bytes) = Words * Bits => r = old(h, singletonAll)
      /\ Len(bytes) = 1 /\ Words * Bits # 1 => r = new(h, exactly(bytes[1]))
      /\ Len(bytes) \notin {0, 1, Words * Bits} => r = old(h, p)
  <2> DEFINE k == Len(bytes)
             N == Words * Bits
             none == old(h, singletonNone)
             all == old(h, singletonAll)
             one == new(h, exactly(bytes[1]))
             same == old(h, p)
  <2>1. N # 0
    BY Digits
  <2>2. r = CASE k = 0 -> none [] k = N -> all [] k = 1 /\ N # 1 -> one [] OTHER -> same
    BY Zenon DEF mDense_Optimize
  <2> HIDE DEF k, N, none, all, one, same, r
  <2>3. /\ k = 0 => r = none
        /\ k = N => r = all
        /\ k = 1 /\ N # 1 => r = one
        /\ k \notin {0, 1, N} => r = same
    BY <2>1, <2>2
  <2> QED
    BY <2>3, Zenon DEF k, N, none, all, one, same
<1> SUFFICES Better(h, rank, p, r) /\ Settled(r.heap, r.result)
  OBVIOUS
<1> HIDE DEF r, bytes
<1>4. /\ Len(bytes) = 0 => ToSet(bytes) = {}
      /\ Len(bytes) = 1 => bytes[1] \in Byte /\ ToSet(bytes) = {bytes[1]}
      /\ Len(bytes) = Words * Bits => ToSet(bytes) = Byte
  <2>1. bytes \in Seq(Nat) /\ Asc(bytes) /\ ToSet(bytes) \subseteq Byte
    BY <1>2, Zenon DEF Lists
  <2> QED
    BY <2>1, Counting, Zenon
<1>5. CASE Len(bytes) = 0
  BY <1>2, <1>3, <1>4, <1>5, Singletons, SingletonsSettled, Zenon
<1>6. CASE Len(bytes) = Words * Bits
  BY <1>2, <1>3, <1>4, <1>6, Singletons, SingletonsSettled, Zenon
<1>7. CASE Len(bytes) = 1 /\ Words * Bits # 1
  BY <1>2, <1>3, <1>4, <1>7, ExactBetter, Zenon
<1>8. CASE Len(bytes) \notin {0, 1, Words * Bits}
  <2>1. Settled(h, p)
    BY <1>8 DEF Settled, SettledLeaf, bytes
  <2>2. rank[p] <= rank[p]
    <3>1. rank[p] \in Nat
      BY Parts, Zenon
    <3> QED
      BY <3>1
  <2>3. old(h, p).heap = h /\ old(h, p).result = p
    BY DEF old
  <2> QED
    BY <1>3, <1>8, <2>1, <2>2, <2>3, OldBetter, Zenon
<1> QED
  BY <1>5, <1>6, <1>7, <1>8, Zenon

LEMMA SparseOptimize ==
    ASSUME NEW h, NEW rank, Sound(h, rank), NEW p \in DOMAIN h, h[p].type = "mSparse"
    PROVE  Better(h, rank, p, mSparse_Optimize(h, p))
<1> DEFINE m == h[p]
           bytes == Ascending(m.Set)
           r == mSparse_Optimize(h, p)
           k == Len(bytes)
           none == old(h, singletonNone)
           one == new(h, exactly(bytes[1]))
           same == old(h, p)
<1>1. IsMatcher(m) /\ rank[p] \in Nat
  BY Parts, Zenon
<1>2. Members(h, p) = m.Set
  <2>1. m.type \notin Composite
    BY DEF Composite
  <2>2. Members(h, p) = LeafSet(m)
    BY <2>1, LeafMembers, Zenon
  <2> QED
    BY <2>2, LeafSets, Zenon
<1>3. bytes \in Lists /\ ToSet(bytes) = Members(h, p)
  <2>1. m.Set \in SUBSET Byte
    BY <1>1, Zenon DEF IsMatcher
  <2> QED
    BY <1>2, <2>1, AscendingLists, Zenon
<1>4. r = CASE k = 0 -> none [] k = 1 -> one [] OTHER -> same
  BY Zenon DEF mSparse_Optimize
<1> SUFFICES Better(h, rank, p, r)
  OBVIOUS
<1> HIDE DEF r, bytes
<1>5. /\ k = 0 => ToSet(bytes) = {}
      /\ k = 1 => bytes[1] \in Byte /\ ToSet(bytes) = {bytes[1]}
  <2>1. bytes \in Seq(Nat) /\ Asc(bytes) /\ ToSet(bytes) \subseteq Byte
    BY <1>3, Zenon DEF Lists
  <2> QED
    BY <2>1, Counting, Zenon
<1>6. k = 0 => Better(h, rank, p, none)
  BY <1>3, <1>5, Singletons, Zenon
<1>7. k = 1 => Better(h, rank, p, one)
  BY <1>3, <1>5, ExactBetter, Zenon
<1>8. k \notin {0, 1} => Better(h, rank, p, same)
  <2>1. rank[p] <= rank[p]
    BY <1>1
  <2>2. k \notin {0, 1} => Settled(h, p)
    BY DEF Settled, SettledLeaf, bytes
  <2> QED
    BY <2>1, <2>2, OldBetter, Zenon
<1> HIDE DEF k, none, one, same
<1>9. (r = none /\ k = 0) \/ (r = one /\ k = 1) \/ (r = same /\ k \notin {0, 1})
  BY <1>4
<1> QED
  BY <1>6, <1>7, <1>8, <1>9, Zenon

LEMMA RangeOptimize ==
    ASSUME NEW h, NEW rank, Sound(h, rank), NEW p \in DOMAIN h, h[p].type = "mRange"
    PROVE  Better(h, rank, p, mRange_Optimize(h, p))
<1> DEFINE m == h[p]
<1>1. rank[p] <= rank[p]
  <2>1. rank[p] \in Nat
    BY Parts, Zenon
  <2> QED
    BY <2>1
<1>2. Members(h, p) = {b \in Byte : mRange_Match(m, b)}
  <2>1. m.type \notin Composite
    BY DEF Composite
  <2>2. Members(h, p) = LeafSet(m)
    BY <2>1, LeafMembers, Zenon
  <2> QED
    BY <2>2, LeafSets, Zenon
<1>3. CASE m.Ranges = <<>>
  <2>1. Members(h, p) = {}
    BY <1>2, <1>3 DEF mRange_Match
  <2>2. mRange_Optimize(h, p) = old(h, singletonNone)
    BY <1>3, Zenon DEF mRange_Optimize
  <2> QED
    BY <2>1, <2>2, Singletons, Zenon
<1>4. CASE m.Ranges # <<>>
  <2>1. Settled(h, p)
    BY <1>4, Zenon DEF Settled, SettledLeaf
  <2>2. mRange_Optimize(h, p) = old(h, p)
    BY <1>4, Zenon DEF mRange_Optimize
  <2> QED
    BY <1>1, <2>1, <2>2, OldBetter, Zenon
<1> QED
  BY <1>3, <1>4

\* The type switch on the optimized m.Inner keeps the set.
LEMMA NegatedBetter ==
    ASSUME NEW g, NEW rank, Sound(g, rank), NEW p \in DOMAIN g, g[p].type = "mNegation",
           Settled(g, g[p].Inner) \/ g[g[p].Inner].type = "mDense"
    PROVE  Better(g, rank, p, negated(g, p))
<1> DEFINE i == g[p].Inner
           sub == g[i]
           r == negated(g, p)
<1>1. rank[p] \in Nat /\ i \in DOMAIN g /\ rank[i] < rank[p]
  BY Parts, Zenon
<1>2. Members(g, p) = Byte \ Members(g, i) /\ Members(g, i) \subseteq Byte
  BY NegationMembers, MembersAre, Zenon
<1>3. IsMatcher(sub) /\ rank[i] \in Nat
  BY <1>1, Parts, Zenon
<1>4. /\ sub.type = "mAll" => r = old(g, singletonNone)
      /\ sub.type = "mNone" => r = old(g, singletonAll)
      /\ sub.type = "mNegation" => r = old(g, sub.Inner)
      /\ sub.type = "mDense" => r = new(g, complement(sub))
      /\ sub.type \in {"mExact", "mSparse", "mRange"} => r = old(g, p)
  <2> DEFINE t == sub.type
  <2>1. r = CASE t = "mAll" -> old(g, singletonNone)
              [] t = "mNone" -> old(g, singletonAll)
              [] t = "mNegation" -> old(g, sub.Inner)
              [] t = "mDense" -> new(g, complement(sub))
              [] OTHER -> old(g, p)
    BY Zenon DEF negated
  <2> HIDE DEF sub, t, r
  <2>2. /\ t = "mAll" => r = old(g, singletonNone)
        /\ t = "mNone" => r = old(g, singletonAll)
        /\ t = "mNegation" => r = old(g, sub.Inner)
        /\ t = "mDense" => r = new(g, complement(sub))
        /\ t \in {"mExact", "mSparse", "mRange"} => r = old(g, p)
    BY <2>1
  <2> QED
    BY <2>2 DEF t
<1> SUFFICES Better(g, rank, p, r)
  OBVIOUS
<1> HIDE DEF r
<1>5. sub.type \notin Composite => Members(g, i) = LeafSet(sub)
  BY <1>1, LeafMembers, Zenon
<1>6. CASE sub.type = "mAll"
  <2>1. Members(g, i) = Byte
    BY <1>5, <1>6, LeafSets DEF Composite
  <2>2. Members(g, p) = {}
    BY <1>2, <2>1
  <2> QED
    BY <1>4, <1>6, <2>2, Singletons, Zenon
<1>7. CASE sub.type = "mNone"
  <2>1. Members(g, i) = {}
    BY <1>5, <1>7, LeafSets DEF Composite
  <2>2. Members(g, p) = Byte
    BY <1>2, <2>1
  <2> QED
    BY <1>4, <1>7, <2>2, Singletons, Zenon
<1>8. CASE sub.type = "mNegation"
  <2> DEFINE q == sub.Inner
  <2>1. q \in DOMAIN g /\ rank[q] < rank[i] /\ rank[q] \in Nat
    BY <1>1, <1>8, Parts, Zenon
  <2>2. rank[q] <= rank[p]
    <3> HIDE DEF q, i
    <3> QED
      BY <1>1, <1>3, <2>1
  <2>3. Members(g, i) = Byte \ Members(g, q) /\ Members(g, q) \subseteq Byte
    BY <1>1, <1>8, NegationMembers, MembersAre, Zenon
  <2>4. Members(g, q) = Members(g, p)
    <3> HIDE DEF q, i
    <3> QED
      BY <1>2, <2>3
  <2>5. Settled(g, q)
    BY <1>8, Zenon DEF Settled, SettledLeaf
  <2> QED
    BY <1>4, <1>8, <2>1, <2>2, <2>4, <2>5, OldBetter, Zenon
<1>9. CASE sub.type = "mDense"
  <2> DEFINE m == complement(sub)
  <2>1. sub.Set \in BitSets /\ sub = [type |-> "mDense", Set |-> sub.Set]
    BY <1>3, <1>9, Zenon DEF IsMatcher
  <2>2. /\ m.Set \in BitSets /\ m = [type |-> "mDense", Set |-> m.Set]
        /\ \A b \in Byte : mDense_Match(m, b) <=> ~ mDense_Match(sub, b)
    BY <2>1, ComplementOf, ZenonT(40)
  <2> HIDE DEF m
  <2>3. m.type = "mDense"
    BY <2>2
  <2>4. IsMatcher(m) /\ m.type \notin Composite
    BY <2>2, <2>3 DEF IsMatcher, Composite
  <2>5. LeafSet(m) = Members(g, p)
    <3>1. LeafSet(m) = {b \in Byte : mDense_Match(m, b)}
      BY <2>3, LeafSets, ZenonT(40)
    <3>2. Members(g, i) = {b \in Byte : mDense_Match(sub, b)}
      BY <1>5, <1>9, LeafSets DEF Composite
    <3> QED
      BY <1>2, <2>2, <3>1, <3>2
  <2>6. Better(g, rank, p, new(g, m))
    BY <2>3, <2>4, <2>5, NewBetter, Zenon
  <2> QED
    BY <1>4, <1>9, <2>6, Zenon DEF m
<1>10. CASE sub.type \in {"mExact", "mSparse", "mRange"}
  <2>1. Settled(g, p)
    BY <1>10 DEF Settled
  <2>2. rank[p] <= rank[p]
    BY <1>1
  <2> QED
    BY <1>4, <1>10, <2>1, <2>2, OldBetter, Zenon
<1>11. sub.type \notin {"mIntersection", "mUnion"}
  BY Zenon DEF Settled, SettledLeaf
<1> QED
  BY <1>3, <1>6, <1>7, <1>8, <1>9, <1>10, <1>11, SMTT(40) DEF IsMatcher

\* Optimize of a negation, given that the call for m.Inner returned a better one.
LEMMA NegationOptimize ==
    ASSUME NEW h, NEW rank, Sound(h, rank), NEW p \in DOMAIN h, h[p].type = "mNegation",
           NEW call, Better(h, rank, h[p].Inner, call[h[p].Inner])
    PROVE  Better(h, rank, p, mNegation_Optimize(h, call, p))
<1> DEFINE i == h[p].Inner
           g0 == call[i].heap
           s == call[i].result
           rk == Grown(h, rank, g0)
           g == [g0 EXCEPT ![p].Inner = s]
<1>1. rank[p] \in Nat /\ i \in DOMAIN h /\ rank[i] < rank[p]
  BY Parts, Zenon
<1>2. /\ Grows(h, rank, g0) /\ s \in DOMAIN g0 /\ rk[s] <= rank[i]
      /\ Members(g0, s) = Members(h, i) /\ (Settled(g0, s) \/ g0[s].type = "mDense")
  BY Zenon DEF Better
<1>3. mNegation_Optimize(h, call, p) = negated(g, p)
  BY Zenon DEF mNegation_Optimize
<1> SUFFICES Better(h, rank, p, negated(g, p))
  BY <1>3, Zenon
<1> DEFINE j == g0[p].Inner
<1> HIDE DEF g0, s
<1>4. /\ Sound(g0, rk) /\ DOMAIN h \subseteq DOMAIN g0
      /\ \A q \in DOMAIN h : Members(g0, q) = Members(h, q) /\ g0[q].type = h[q].type
  BY <1>2, Zenon DEF Grows
<1>5. p \in DOMAIN g0 /\ g0[p].type = "mNegation" /\ Members(g0, p) = Members(h, p)
  BY <1>4, Zenon
<1>6. rk[p] = rank[p]
  BY <1>5, Zenon DEF Grown, RankedBy
<1> HIDE DEF rk
<1>7. rk[s] < rk[p]
  <2>1. rk[s] \in Nat /\ rank[i] \in Nat
    BY <1>1, <1>2, <1>4, Parts, Zenon
  <2> HIDE DEF i
  <2> QED
    BY <1>1, <1>2, <1>6, <2>1
<1>8. Members(g0, s) = Members(g0, j)
  <2>1. Members(h, p) = Byte \ Members(h, i) /\ Members(h, i) \subseteq Byte
    BY NegationMembers, MembersAre, Zenon
  <2>2. Members(g0, p) = Byte \ Members(g0, j) /\ Members(g0, j) \subseteq Byte
    BY <1>4, <1>5, NegationMembers, MembersAre, Zenon
  <2> HIDE DEF i, j
  <2>3. Members(g0, j) = Members(h, i)
    BY <1>5, <2>1, <2>2
  <2> QED
    BY <1>2, <2>3, Zenon
<1>9. /\ Grows(g0, rk, g) /\ Grown(g0, rk, g) = rk /\ DOMAIN g = DOMAIN g0
      /\ g[p] = [type |-> "mNegation", Inner |-> s]
      /\ \A q \in DOMAIN g0 : q # p => g[q] = g0[q]
  <2>1. Redirected(g0, rk, p, s, g)
    BY <1>2, <1>4, <1>5, <1>7, <1>8, Redirect, Zenon
  <2> QED
    BY <2>1, Zenon DEF Redirected
<1> HIDE DEF g
<1>10. Grows(h, rank, g) /\ Grown(h, rank, g) = rk
  <2>1. Grows(g0, Grown(h, rank, g0), g) /\ Grown(g0, Grown(h, rank, g0), g) = rk
    BY <1>9, Zenon DEF rk
  <2>2. Grown(g0, Grown(h, rank, g0), g) = Grown(h, rank, g) /\ Grows(h, rank, g)
    BY <1>2, <2>1, GrownTwice, Zenon
  <2> QED
    BY <2>1, <2>2, Zenon
<1>11. /\ Sound(g, rk) /\ p \in DOMAIN g /\ g[p].type = "mNegation" /\ g[p].Inner = s
       /\ Members(g, p) = Members(h, p)
  <2>1. Sound(g, rk) /\ Members(g, p) = Members(h, p)
    BY <1>10, Zenon DEF Grows
  <2>2. p \in DOMAIN g
    BY <1>5, <1>9, Zenon
  <2>3. g[p].type = "mNegation" /\ g[p].Inner = s
    BY <1>9
  <2> QED
    BY <2>1, <2>2, <2>3, Zenon
<1>12. s # p /\ g[s] = g0[s]
  <2>1. s # p
    <3>1. rk[p] \in Nat
      BY <1>1, <1>6, Zenon
    <3> QED
      BY <1>7, <3>1
  <2> QED
    BY <1>2, <1>9, <2>1, Zenon
<1>13. Settled(g, s) \/ g[s].type = "mDense"
  <2>1. CASE g0[s].type = "mNegation"
    <3> DEFINE k == g0[s].Inner
    <3>1. k \in DOMAIN g0 /\ rk[k] < rk[s] /\ rk[k] \in Nat /\ rk[s] \in Nat
      BY <1>2, <1>4, <2>1, Parts, Zenon
    <3>2. k # p
      <4> HIDE DEF k
      <4>1. rk[p] \in Nat
        BY <1>1, <1>6, Zenon
      <4> QED
        BY <1>7, <3>1, <4>1
    <3>3. g[k] = g0[k]
      BY <1>9, <3>1, <3>2, Zenon
    <3>4. Settled(g0, s)
      BY <1>2, <2>1
    <3> QED
      BY <1>12, <3>3, <3>4, Zenon DEF Settled
  <2>2. CASE g0[s].type # "mNegation"
    BY <1>2, <1>12, <2>2, Zenon DEF Settled
  <2> QED
    BY <2>1, <2>2
<1>14. Better(g, rk, p, negated(g, p))
  BY <1>11, <1>13, NegatedBetter, Zenon
<1>15. rk[p] <= rank[p]
  BY <1>1, <1>6
<1> QED
  BY <1>1, <1>10, <1>11, <1>14, <1>15, ThenBetter, Zenon

LEMMA ListOptimize ==
    ASSUME NEW h, NEW rank, Sound(h, rank), NEW p \in DOMAIN h,
           h[p].type \in {"mIntersection", "mUnion"}, NEW empty,
           empty = IF h[p].type = "mIntersection" THEN singletonAll ELSE singletonNone,
           NEW call, Len(h[p].List) = 1 => Better(h, rank, h[p].List[1], call[h[p].List[1]])
    PROVE  Better(h, rank, p, list_Optimize(h, call, p, empty))
<1> DEFINE m == h[p]
           l == m.List
           k == Len(l)
           d == asDense(h, p)
           rk == Grown(h, rank, d.heap)
           r == list_Optimize(h, call, p, empty)
           none == old(h, empty)
           one == call[l[1]]
           dense == mDense_Optimize(d.heap, d.result)
<1>1. r = CASE k = 0 -> none [] k = 1 -> one [] OTHER -> dense
  BY Zenon DEF list_Optimize
<1> SUFFICES Better(h, rank, p, r)
  OBVIOUS
<1> HIDE DEF r
<1>2. /\ rank[p] \in Nat /\ l \in Seq(Nat)
      /\ \A i \in DOMAIN l : l[i] \in DOMAIN h /\ rank[l[i]] < rank[p]
  BY Parts DEF IsMatcher
<1>3. /\ m.type = "mIntersection" => Members(h, p) = {b \in Byte : \A i \in DOMAIN l : b \in Members(h, l[i])}
      /\ m.type = "mUnion" => Members(h, p) = {b \in Byte : \E i \in DOMAIN l : b \in Members(h, l[i])}
  <2>1. m.type = "mIntersection" => Members(h, p) = {b \in Byte : \A i \in DOMAIN l : b \in Members(h, l[i])}
    BY IntersectionMembers
  <2>2. m.type = "mUnion" => Members(h, p) = {b \in Byte : \E i \in DOMAIN l : b \in Members(h, l[i])}
    BY UnionMembers
  <2> QED
    BY <2>1, <2>2
<1>4. CASE k = 0
  <2>1. DOMAIN l = {}
    BY <1>2, <1>4
  <2>2. CASE m.type = "mIntersection"
    <3>1. Members(h, p) = Byte
      BY <1>3, <2>1, <2>2, SMTT(40)
    <3> QED
      BY <1>1, <1>4, <2>2, <3>1, Singletons
  <2>3. CASE m.type = "mUnion"
    <3>1. Members(h, p) = {}
      BY <1>3, <2>1, <2>3
    <3> QED
      BY <1>1, <1>4, <2>3, <3>1, Singletons
  <2> QED
    BY <2>2, <2>3
<1>5. CASE k = 1
  <2> DEFINE q == l[1]
  <2>1. r = one
    BY <1>1, <1>5
  <2>2. DOMAIN l = {1}
    BY <1>2, <1>5
  <2>3. q \in DOMAIN h /\ rank[q] < rank[p] /\ rank[q] \in Nat
    BY <1>2, <2>2, Parts
  <2>4. Members(h, q) = Members(h, p)
    <3>1. Members(h, q) \subseteq Byte
      BY MembersAre
    <3> QED
      BY <1>3, <2>2, <3>1
  <2>5. Better(h, rank, q, one)
    BY <1>5, Zenon
  <2> HIDE DEF q, one
  <2>6. Grown(h, rank, h) = rank /\ Grows(h, rank, h)
    BY GrownSame, Zenon
  <2>7. rank[q] <= rank[p]
    BY <1>2, <2>3
  <2>8. Better(h, rank, p, one)
    <3>1. Better(h, Grown(h, rank, h), q, one) /\ Grown(h, rank, h)[q] <= rank[p]
      BY <2>5, <2>6, <2>7, Zenon
    <3> QED
      BY <1>2, <2>3, <2>4, <2>6, <3>1, ThenBetter, Zenon
  <2> QED
    BY <2>1, <2>8, Zenon
<1>6. CASE k \notin {0, 1}
  <2>1. r = dense
    <3> HIDE DEF k, none, one, dense
    <3> QED
      BY <1>1, <1>6
  <2>2. Better(h, rank, p, d) /\ d.heap[d.result].type = "mDense"
    BY AsDense, Zenon
  <2> HIDE DEF d
  <2>3. /\ Grows(h, rank, d.heap) /\ d.result \in DOMAIN d.heap /\ rk[d.result] <= rank[p]
        /\ Members(d.heap, d.result) = Members(h, p) /\ Sound(d.heap, rk)
    BY <2>2, Zenon DEF Better, Grows
  <2>4. Better(d.heap, rk, d.result, dense)
    BY <2>2, <2>3, DenseOptimize, Zenon
  <2>5. Better(h, rank, p, dense)
    BY <1>2, <2>3, <2>4, ThenBetter, Zenon
  <2> QED
    BY <2>1, <2>5, Zenon
<1> QED
  BY <1>4, <1>5, <1>6

LEMMA OptimizeCases ==
    ASSUME NEW h, NEW call, NEW p
    PROVE  /\ h[p].type \in {"mAll", "mNone", "mExact"} => m_Optimize(h, call, p) = old(h, p)
           /\ h[p].type = "mDense" => m_Optimize(h, call, p) = mDense_Optimize(h, p)
           /\ h[p].type = "mSparse" => m_Optimize(h, call, p) = mSparse_Optimize(h, p)
           /\ h[p].type = "mRange" => m_Optimize(h, call, p) = mRange_Optimize(h, p)
           /\ h[p].type = "mNegation" => m_Optimize(h, call, p) = mNegation_Optimize(h, call, p)
           /\ h[p].type = "mIntersection" =>
                 m_Optimize(h, call, p) = list_Optimize(h, call, p, singletonAll)
           /\ h[p].type = "mUnion" =>
                 m_Optimize(h, call, p) = list_Optimize(h, call, p, singletonNone)
<1> DEFINE t == h[p].type
           r == m_Optimize(h, call, p)
<1>1. r = CASE t \in {"mAll", "mNone", "mExact"} -> old(h, p)
            [] t = "mDense" -> mDense_Optimize(h, p)
            [] t = "mSparse" -> mSparse_Optimize(h, p)
            [] t = "mRange" -> mRange_Optimize(h, p)
            [] t = "mNegation" -> mNegation_Optimize(h, call, p)
            [] t = "mIntersection" -> mIntersection_Optimize(h, call, p)
            [] t = "mUnion" -> mUnion_Optimize(h, call, p)
  BY Zenon DEF m_Optimize
<1>2. /\ mIntersection_Optimize(h, call, p) = list_Optimize(h, call, p, singletonAll)
      /\ mUnion_Optimize(h, call, p) = list_Optimize(h, call, p, singletonNone)
  BY Zenon DEF mIntersection_Optimize, mUnion_Optimize
<1> HIDE DEF t, r
<1>3. /\ t \in {"mAll", "mNone", "mExact"} => r = old(h, p)
      /\ t = "mDense" => r = mDense_Optimize(h, p)
      /\ t = "mSparse" => r = mSparse_Optimize(h, p)
      /\ t = "mRange" => r = mRange_Optimize(h, p)
      /\ t = "mNegation" => r = mNegation_Optimize(h, call, p)
      /\ t = "mIntersection" => r = mIntersection_Optimize(h, call, p)
      /\ t = "mUnion" => r = mUnion_Optimize(h, call, p)
  BY <1>1
<1> QED
  BY <1>2, <1>3, Zenon DEF t, r

\* A call of Optimize depends on the calls for the matchers that this one holds.
LEMMA OptimizeLocal ==
    ASSUME NEW h, NEW rank, Sound(h, rank), NEW p \in DOMAIN h, NEW g1, NEW g2,
           \A q \in DOMAIN h : rank[q] < rank[p] => g1[q] = g2[q]
    PROVE  m_Optimize(h, g1, p) = m_Optimize(h, g2, p)
<1> DEFINE t == h[p].type
<1>1. IsMatcher(h[p])
  BY Parts, Zenon
<1>2. CASE t = "mNegation"
  <2>1. g1[h[p].Inner] = g2[h[p].Inner]
    BY <1>2, Parts, Zenon
  <2>2. mNegation_Optimize(h, g1, p) = mNegation_Optimize(h, g2, p)
    BY <2>1, Zenon DEF mNegation_Optimize
  <2> QED
    BY <1>2, <2>2, OptimizeCases, Zenon
<1>3. CASE t \in {"mIntersection", "mUnion"}
  <2> DEFINE l == h[p].List
             k == Len(l)
             d == asDense(h, p)
             dense == mDense_Optimize(d.heap, d.result)
  <2>1. l \in Seq(Nat)
    BY <1>1, <1>3, Zenon DEF IsMatcher
  <2>2. k = 1 => g1[l[1]] = g2[l[1]]
    <3>1. k = 1 => 1 \in DOMAIN l
      BY <2>1
    <3> QED
      BY <1>3, <3>1, Parts, Zenon
  <2>3. ASSUME NEW e PROVE list_Optimize(h, g1, p, e) = list_Optimize(h, g2, p, e)
    <3> DEFINE one(g) == g[l[1]]
               none == old(h, e)
               r(g) == list_Optimize(h, g, p, e)
    <3>1. \A g : r(g) = CASE k = 0 -> none [] k = 1 -> one(g) [] OTHER -> dense
      BY Zenon DEF list_Optimize
    <3>2. k = 1 => one(g1) = one(g2)
      BY <2>2, Zenon
    <3> HIDE DEF r, k, none, one, dense
    <3>3. r(g1) = r(g2)
      BY <3>1, <3>2
    <3> QED
      BY <3>3, Zenon DEF r
  <2> QED
    BY <1>3, <2>3, OptimizeCases
<1>4. CASE t \notin Composite
  BY <1>1, <1>4, OptimizeCases, SMTT(40) DEF IsMatcher, Composite
<1> QED
  BY <1>2, <1>3, <1>4 DEF Composite

\* The recursion of Optimize comes to an end.
LEMMA OptimizeOf ==
    ASSUME NEW h, NEW rank, Sound(h, rank)
    PROVE  \A p \in DOMAIN h :
              Optimize(h, p) = m_Optimize(h, [q \in DOMAIN h |-> Optimize(h, q)], p)
<1> DEFINE D == DOMAIN h
           N == Len(h)
           rhs(g) == [q \in D |-> m_Optimize(h, g, q)]
           t == CHOOSE g : g = rhs(g)
           Upto(g, n) == \A q \in D : rank[q] < n => g[q] = m_Optimize(h, g, q)
           G == {n \in Nat : \E g : Upto(g, n)}
<1>1. \A p : Optimize(h, p) = t[p]
  BY Zenon DEF Optimize
<1>2. N \in Nat /\ \A q \in D : rank[q] \in Nat /\ rank[q] < N
  <2>1. h \in Seq(ToSet(h)) => N \in Nat
    OBVIOUS
  <2> QED
    BY <2>1 DEF Sound
<1>3. ASSUME NEW n \in Nat, NEW g, Upto(g, n)
      PROVE  Upto(rhs(g), n + 1)
  <2> DEFINE f == rhs(g)
  <2>1. \A q \in D : f[q] = m_Optimize(h, g, q)
    BY Zenon
  <2>2. \A q \in D : rank[q] < n => f[q] = g[q]
    BY <1>3, <2>1, Zenon
  <2> HIDE DEF f
  <2>3. ASSUME NEW q \in D, rank[q] < n + 1 PROVE f[q] = m_Optimize(h, f, q)
    <3>1. \A r \in D : rank[r] < rank[q] => f[r] = g[r]
      <4>1. \A r \in D : rank[r] < rank[q] => rank[r] < n
        BY <1>2, <2>3
      <4> QED
        BY <2>2, <4>1, Zenon
    <3>2. m_Optimize(h, f, q) = m_Optimize(h, g, q)
      <4> HIDE DEF Upto
      <4>1. q \in DOMAIN h /\ \A r \in DOMAIN h : rank[r] < rank[q] => f[r] = g[r]
        BY <3>1, Zenon
      <4> QED
        BY <4>1, OptimizeLocal
    <3> QED
      BY <2>1, <3>2, Zenon
  <2>4. Upto(f, n + 1)
    BY <2>3, Zenon
  <2> QED
    BY <2>4 DEF f
<1> HIDE DEF rhs
<1>4. 0 \in G
  BY <1>2
<1>5. ASSUME NEW n \in G PROVE n + 1 \in G
  <2>1. n \in Nat /\ n + 1 \in Nat
    OBVIOUS
  <2>2. PICK g : Upto(g, n)
    BY Zenon
  <2>3. Upto(rhs(g), n + 1)
    BY <1>3, <2>1, <2>2, Zenon
  <2> QED
    BY <2>1, <2>3, Zenon
<1>6. \A n \in Nat : n \in G
  <2>1. G \subseteq Nat
    OBVIOUS
  <2> HIDE DEF G
  <2> QED
    BY <1>4, <1>5, <2>1, Induction, Zenon
<1>7. PICK g : Upto(g, N)
  BY <1>2, <1>6, Zenon
<1> DEFINE f == rhs(g)
<1>8. \A q \in D : f[q] = m_Optimize(h, g, q) /\ f[q] = g[q]
  BY <1>2, <1>7, Zenon DEF rhs
<1>9. \A q \in D : m_Optimize(h, f, q) = m_Optimize(h, g, q)
  <2> HIDE DEF f
  <2> QED
    BY <1>8, OptimizeLocal, ZenonT(40)
<1>10. rhs(f) = f
  <2>1. rhs(f) = rhs(g)
    BY <1>9, Zenon DEF rhs
  <2> QED
    BY <2>1, Zenon
<1>11. t = rhs(t)
  BY <1>10, Zenon
<1>12. ASSUME NEW p \in D
       PROVE  t[p] = m_Optimize(h, [q \in D |-> t[q]], p)
  <2> HIDE DEF t
  <2>1. t = [q \in D |-> t[q]]
    BY <1>11, Zenon DEF rhs
  <2>2. t[p] = m_Optimize(h, t, p)
    BY <1>11, Zenon DEF rhs
  <2> QED
    BY <2>1, <2>2, Zenon
<1> HIDE DEF t
<1> QED
  BY <1>1, <1>12, Zenon

\* "Optimize returns a Matcher that matches the same set of bytes."
LEMMA OptimizeBetter ==
    ASSUME NEW h, NEW rank, Sound(h, rank)
    PROVE  \A p \in DOMAIN h : Better(h, rank, p, Optimize(h, p))
<1> DEFINE D == DOMAIN h
           t == [q \in D |-> Optimize(h, q)]
           G == {p \in D : Better(h, rank, p, t[p])}
<1>1. \A p \in D : t[p] = Optimize(h, p) /\ t[p] = m_Optimize(h, t, p)
  BY OptimizeOf, Zenon
<1> HIDE DEF t
<1>2. ASSUME NEW p \in D, \A q \in D : rank[q] < rank[p] => q \in G PROVE p \in G
  <2>1. \A q \in D : rank[q] < rank[p] => Better(h, rank, q, t[q])
    BY <1>2
  <2>2. /\ IsMatcher(h[p]) /\ rank[p] \in Nat
        /\ h[p].type = "mNegation" => h[p].Inner \in D /\ rank[h[p].Inner] < rank[p]
        /\ h[p].type \in {"mIntersection", "mUnion"} =>
              \A i \in DOMAIN h[p].List : h[p].List[i] \in D /\ rank[h[p].List[i]] < rank[p]
    BY Parts, Zenon
  <2>3. Better(h, rank, p, m_Optimize(h, t, p))
    <3>1. CASE h[p].type \in {"mAll", "mNone", "mExact"}
      <4>1. Settled(h, p) /\ rank[p] <= rank[p]
        BY <2>2, <3>1 DEF Settled, SettledLeaf
      <4>2. Better(h, rank, p, old(h, p))
        BY <4>1, OldBetter, Zenon
      <4> QED
        BY <3>1, <4>2, OptimizeCases, Zenon
    <3>2. CASE h[p].type = "mDense"
      <4>1. Better(h, rank, p, mDense_Optimize(h, p))
        BY <3>2, DenseOptimize, Zenon
      <4>2. m_Optimize(h, t, p) = mDense_Optimize(h, p)
        BY <3>2, OptimizeCases, Zenon
      <4> QED
        BY <4>1, <4>2, Zenon
    <3>3. CASE h[p].type = "mSparse"
      <4>1. Better(h, rank, p, mSparse_Optimize(h, p))
        BY <3>3, SparseOptimize, Zenon
      <4>2. m_Optimize(h, t, p) = mSparse_Optimize(h, p)
        BY <3>3, OptimizeCases, Zenon
      <4> QED
        BY <4>1, <4>2, Zenon
    <3>4. CASE h[p].type = "mRange"
      <4>1. Better(h, rank, p, mRange_Optimize(h, p))
        BY <3>4, RangeOptimize, Zenon
      <4>2. m_Optimize(h, t, p) = mRange_Optimize(h, p)
        BY <3>4, OptimizeCases, Zenon
      <4> QED
        BY <4>1, <4>2, Zenon
    <3>5. CASE h[p].type = "mNegation"
      <4>1. Better(h, rank, h[p].Inner, t[h[p].Inner])
        BY <2>1, <2>2, <3>5, Zenon
      <4>2. Better(h, rank, p, mNegation_Optimize(h, t, p))
        BY <3>5, <4>1, NegationOptimize, Zenon
      <4>3. m_Optimize(h, t, p) = mNegation_Optimize(h, t, p)
        BY <3>5, OptimizeCases, Zenon
      <4> QED
        BY <4>2, <4>3, Zenon
    <3>6. CASE h[p].type \in {"mIntersection", "mUnion"}
      <4> DEFINE l == h[p].List
                 e == IF h[p].type = "mIntersection" THEN singletonAll ELSE singletonNone
      <4>1. Len(l) = 1 => 1 \in DOMAIN l
        <5>1. l \in Seq(Nat)
          BY <2>2, <3>6, Zenon DEF IsMatcher
        <5> QED
          BY <5>1
      <4>2. Len(l) = 1 => Better(h, rank, l[1], t[l[1]])
        BY <2>1, <2>2, <3>6, <4>1, Zenon
      <4>3. Better(h, rank, p, list_Optimize(h, t, p, e))
        BY <3>6, <4>2, ListOptimize, Zenon
      <4>4. m_Optimize(h, t, p) = list_Optimize(h, t, p, e)
        BY <3>6, OptimizeCases
      <4> QED
        BY <4>3, <4>4, Zenon
    <3> QED
      BY <2>2, <3>1, <3>2, <3>3, <3>4, <3>5, <3>6, SMTT(40) DEF IsMatcher
  <2> QED
    BY <1>1, <2>3, Zenon
<1>3. \A p \in D : p \in G
  <2>1. rank \in [D -> Nat]
    BY Zenon DEF Sound
  <2> HIDE DEF G, D
  <2> QED
    BY <1>2, <2>1, RankInduction, Zenon
<1> QED
  BY <1>1, <1>3, Zenon

LEMMA LeafStays ==
    ASSUME NEW h, NEW call, NEW p, SettledLeaf(h[p])
    PROVE  m_Optimize(h, call, p) = old(h, p)
<1>1. CASE h[p].type \in {"mAll", "mNone", "mExact"}
  BY <1>1, OptimizeCases, Zenon
<1>2. CASE h[p].type = "mDense"
  <2> DEFINE k == Len(mDense_ForEach(h[p]))
             N == Words * Bits
             same == old(h, p)
             r == mDense_Optimize(h, p)
  <2>1. k \notin {0, 1, N}
    BY <1>2 DEF SettledLeaf
  <2>2. r = CASE k = 0 -> old(h, singletonNone) [] k = N -> old(h, singletonAll)
              [] k = 1 /\ N # 1 -> new(h, exactly(mDense_ForEach(h[p])[1])) [] OTHER -> same
    BY Zenon DEF mDense_Optimize
  <2> HIDE DEF k, N, same, r
  <2>3. r = same
    BY <2>1, <2>2
  <2> QED
    BY <1>2, <2>3, OptimizeCases, Zenon DEF r, same
<1>3. CASE h[p].type = "mSparse"
  <2> DEFINE k == Len(Ascending(h[p].Set))
             same == old(h, p)
             r == mSparse_Optimize(h, p)
  <2>1. k \notin {0, 1}
    BY <1>3 DEF SettledLeaf
  <2>2. r = CASE k = 0 -> old(h, singletonNone)
              [] k = 1 -> new(h, exactly(Ascending(h[p].Set)[1])) [] OTHER -> same
    BY Zenon DEF mSparse_Optimize
  <2> HIDE DEF k, same, r
  <2>3. r = same
    BY <2>1, <2>2
  <2> QED
    BY <1>3, <2>3, OptimizeCases, Zenon DEF r, same
<1>4. CASE h[p].type = "mRange"
  <2>1. h[p].Ranges # <<>>
    BY <1>4 DEF SettledLeaf
  <2>2. mRange_Optimize(h, p) = old(h, p)
    BY <2>1, Zenon DEF mRange_Optimize
  <2> QED
    BY <1>4, <2>2, OptimizeCases, Zenon
<1> QED
  BY <1>1, <1>2, <1>3, <1>4 DEF SettledLeaf

\* "If no better implementation can be found, returns this matcher", and writes nothing.
LEMMA SettledStays ==
    ASSUME NEW h, NEW rank, Sound(h, rank), NEW p \in DOMAIN h, Settled(h, p)
    PROVE  Optimize(h, p) = old(h, p)
<1> DEFINE t == [q \in DOMAIN h |-> Optimize(h, q)]
           i == h[p].Inner
<1>1. \A q \in DOMAIN h : t[q] = Optimize(h, q) /\ t[q] = m_Optimize(h, t, q)
  BY OptimizeOf, Zenon
<1> HIDE DEF t
<1>2. CASE SettledLeaf(h[p])
  BY <1>1, <1>2, LeafStays, Zenon
<1>3. CASE /\ h[p].type = "mNegation" /\ SettledLeaf(h[i])
           /\ h[i].type \in {"mExact", "mSparse", "mRange"}
  <2>1. i \in DOMAIN h /\ IsMatcher(h[p])
    BY <1>3, Parts, Zenon
  <2>2. t[i] = old(h, i)
    <3>1. SettledLeaf(h[i])
      BY <1>3, Zenon
    <3> HIDE DEF i
    <3>2. m_Optimize(h, t, i) = old(h, i)
      BY <3>1, LeafStays, Zenon
    <3> QED
      BY <1>1, <2>1, <3>2, Zenon
  <2>3. t[i].heap = h /\ t[i].result = i
    BY <2>2 DEF old
  <2>4. [h EXCEPT ![p].Inner = i] = h
    <3>1. [h[p] EXCEPT !.Inner = i] = h[p]
      <4>1. h[p] = [type |-> "mNegation", Inner |-> i]
        BY <1>3, <2>1, Zenon DEF IsMatcher
      <4> HIDE DEF i
      <4> QED
        BY <4>1
    <3>2. h = [q \in DOMAIN h |-> h[q]]
      <4>1. h \in Seq(ToSet(h))
        BY Zenon DEF Sound
      <4> QED
        BY <4>1
    <3>3. [h EXCEPT ![p].Inner = i] = [q \in DOMAIN h |-> IF q = p THEN [h[p] EXCEPT !.Inner = i] ELSE h[q]]
      BY Zenon
    <3> HIDE DEF i
    <3> QED
      BY <3>1, <3>2, <3>3
  <2>5. mNegation_Optimize(h, t, p) = negated(h, p)
    BY <2>3, <2>4, Zenon DEF mNegation_Optimize
  <2>6. negated(h, p) = old(h, p)
    BY <1>3 DEF negated
  <2>7. m_Optimize(h, t, p) = mNegation_Optimize(h, t, p)
    BY <1>3, OptimizeCases, Zenon
  <2> QED
    BY <1>1, <2>5, <2>6, <2>7, Zenon
<1> QED
  BY <1>2, <1>3, Zenon DEF Settled

-----------------------------------------------------------------------------
(* The invariant: the matchers can be ranked so that each holds only ones of *)
(* a lower rank, and the result of every call of Optimize so far stands for  *)
(* its receiver's set.                                                       *)

\* What is kept of a call whose receiver is p and whose result is q.
Call(p, q) == [receiver |-> p, result |-> q]

\* Such a call, seen from a later heap.
SameAs(h, c) ==
    \E p, q \in DOMAIN h : c = Call(p, q) /\ Members(h, q) = Members(h, p)

Inv ==
    /\ \E rank \in [Pointer -> 0 .. Len(heap) - 1] : Sound(heap, rank)
    /\ optimized \subseteq [receiver : Pointer, result : Pointer]
    /\ OptimizeKeepsTheSet

LEMMA CallsSameAs ==
    ASSUME optimized \subseteq [receiver : Pointer, result : Pointer], OptimizeKeepsTheSet
    PROVE  \A c \in optimized : SameAs(heap, c)
<1> SUFFICES ASSUME NEW c \in optimized PROVE SameAs(heap, c)
  OBVIOUS
<1>1. c.receiver \in Pointer /\ c.result \in Pointer /\ c = Call(c.receiver, c.result)
  BY DEF Call
<1>2. Members(heap, c.result) = Members(heap, c.receiver)
  BY Zenon DEF OptimizeKeepsTheSet
<1> QED
  BY <1>1, <1>2, Zenon DEF SameAs, Pointer

LEMMA SameAsCalls ==
    ASSUME \A c \in optimized' : SameAs(heap', c)
    PROVE  optimized' \subseteq [receiver : Pointer', result : Pointer'] /\ OptimizeKeepsTheSet'
<1>1. ASSUME NEW c \in optimized'
      PROVE  /\ c \in [receiver : Pointer', result : Pointer']
             /\ Members(heap', c.result) = Members(heap', c.receiver)
  <2>1. PICK p \in DOMAIN heap', q \in DOMAIN heap' :
           c = Call(p, q) /\ Members(heap', q) = Members(heap', p)
    BY <1>1, Zenon DEF SameAs
  <2>2. c.receiver = p /\ c.result = q /\ c \in [receiver : DOMAIN heap', result : DOMAIN heap']
    BY <2>1 DEF Call
  <2> QED
    BY <2>1, <2>2, Zenon DEF Pointer
<1> QED
  BY <1>1, Zenon DEF OptimizeKeepsTheSet

LEMMA StillSame ==
    ASSUME Pointer \subseteq Pointer', \A p \in Pointer : Members(heap', p) = Members(heap, p),
           NEW c, SameAs(heap, c)
    PROVE  SameAs(heap', c)
<1>1. PICK p \in DOMAIN heap, q \in DOMAIN heap : c = Call(p, q) /\ Members(heap, q) = Members(heap, p)
  BY Zenon DEF SameAs
<1>2. p \in DOMAIN heap' /\ q \in DOMAIN heap'
  BY <1>1, Zenon DEF Pointer
<1>3. Members(heap', q) = Members(heap', p)
  <2>1. Members(heap', q) = Members(heap, q) /\ Members(heap', p) = Members(heap, p)
    BY <1>1, Zenon DEF Pointer
  <2> QED
    BY <1>1, <2>1, Zenon
<1> QED
  BY <1>1, <1>2, <1>3, Zenon DEF SameAs

LEMMA Ranked ==
    ASSUME NEW h, NEW rank, Sound(h, rank)
    PROVE  rank \in [DOMAIN h -> 0 .. Len(h) - 1]
<1>1. h \in Seq(ToSet(h)) /\ rank \in [DOMAIN h -> Nat] /\ \A p \in DOMAIN h : rank[p] < Len(h)
  BY Zenon DEF Sound
<1>2. Len(h) \in Nat
  BY <1>1
<1> QED
  BY <1>1, <1>2

LEMMA InitInv == Init => Inv
<1> SUFFICES ASSUME Init PROVE Inv
  OBVIOUS
<1> DEFINE rank == [p \in {1, 2} |-> 0]
<1>1. /\ heap \in Seq(ToSet(heap)) /\ Len(heap) = 2 /\ DOMAIN heap = {1, 2}
      /\ heap[1].type = "mAll" /\ heap[2].type = "mNone"
  <2>1. heap \in Seq({[type |-> "mAll"], [type |-> "mNone"]})
    BY DEF Init
  <2>2. heap \in Seq(ToSet(heap))
    BY <2>1, SeqSelf
  <2> QED
    BY <2>2 DEF Init
<1>2. \A p \in DOMAIN heap : heap[p].type \in {"mAll", "mNone"}
  BY <1>1
<1>3. \A p \in DOMAIN heap : IsMatcher(heap[p]) /\ Subs(heap[p]) = {}
  <2>1. \A p \in DOMAIN heap : Subs(heap[p]) = {}
    BY <1>2, SubsOf
  <2> QED
    BY <1>2, <2>1 DEF IsMatcher
<1>4. Sound(heap, rank)
  BY <1>1, <1>3 DEF Sound, singletonAll, singletonNone
<1>5. optimized = {}
  BY DEF Init
<1>6. rank \in [Pointer -> 0 .. Len(heap) - 1]
  BY <1>4, Ranked DEF Pointer
<1> QED
  BY <1>4, <1>5, <1>6, Zenon DEF Inv, OptimizeKeepsTheSet

\* A constructor.
LEMMA MakeKeeps ==
    ASSUME NEW rank, Sound(heap, rank), NEW m, IsMatcher(m), Subs(m) \subseteq Pointer, make(m)
    PROVE  /\ \E rk : Sound(heap', rk)
           /\ Pointer \subseteq Pointer' /\ optimized' = optimized
           /\ \A p \in Pointer : Members(heap', p) = Members(heap, p)
<1>1. heap' = Append(heap, m) /\ optimized' = optimized
  BY DEF make
<1>2. Fits(heap, rank, m, Len(heap))
  <2>1. heap \in Seq(ToSet(heap)) /\ \A p \in DOMAIN heap : rank[p] < Len(heap)
    BY Zenon DEF Sound
  <2>2. Len(heap) \in 0 .. Len(heap)
    BY <2>1
  <2> QED
    BY <2>1, <2>2, Zenon DEF Fits, Pointer
<1>3. Added(heap, rank, m, Len(heap), heap')
  BY <1>1, <1>2, AddMatcher, Zenon
<1> QED
  BY <1>1, <1>3, Zenon DEF Added, Pointer

LEMMA OptimizeKeeps ==
    ASSUME NEW rank, Sound(heap, rank), NEW p \in Pointer, CallOptimize(p)
    PROVE  /\ \E rk : Sound(heap', rk)
           /\ Pointer \subseteq Pointer'
           /\ \A q \in Pointer : Members(heap', q) = Members(heap, q)
           /\ \E q \in Pointer' : /\ Members(heap', q) = Members(heap', p)
                                  /\ optimized' \subseteq optimized \cup {Call(p, q)}
<1> DEFINE r == Optimize(heap, p)
<1>1. heap' = r.heap /\ optimized' \subseteq optimized \cup {Call(p, r.result)}
  BY DEF CallOptimize, Call
<1>2. Better(heap, rank, p, r)
  BY OptimizeBetter, Zenon DEF Pointer
<1> HIDE DEF r
<1>3. /\ Grows(heap, rank, heap') /\ r.result \in DOMAIN heap'
      /\ Members(heap', r.result) = Members(heap, p)
  BY <1>1, <1>2, Zenon DEF Better
<1>5. /\ Pointer \subseteq Pointer' /\ \E rk : Sound(heap', rk)
      /\ \A q \in Pointer : Members(heap', q) = Members(heap, q)
  BY <1>3, Zenon DEF Grows, Pointer
<1> QED
  BY <1>1, <1>3, <1>5, Zenon DEF Pointer

\* What the constructors are given makes a matcher.
LEMMA MakesMatchers ==
    ASSUME heap \in Seq(ToSet(heap)), Make
    PROVE  \E m : IsMatcher(m) /\ Subs(m) \subseteq Pointer /\ make(m)
<1>1. Pointer \subseteq Nat
  BY DEF Pointer
<1>2. CASE \E b \in Byte : {b} \in Given /\ Exactly(b)
  <2>1. PICK b \in Byte : Exactly(b)
    BY <1>2
  <2> DEFINE m == exactly(b)
  <2>2. m.type = "mExact" /\ m.Byte = b
    BY DEF exactly
  <2> HIDE DEF m
  <2>3. IsMatcher(m) /\ Subs(m) = {}
    BY <2>2, SubsOf DEF IsMatcher
  <2> QED
    BY <2>1, <2>3 DEF Exactly, m
<1>3. CASE \E S \in Given : DenseSet(S) \/ SparseSet(S)
  <2>1. PICK S \in Given : DenseSet(S) \/ SparseSet(S)
    BY <1>3
  <2>2. S \in SUBSET Byte
    BY GivenAssumption
  <2>3. CASE DenseSet(S)
    <3> DEFINE m == mDense(S)
    <3>1. m.type = "mDense" /\ m.Set \in BitSets /\ m = [type |-> "mDense", Set |-> m.Set]
      BY <2>2, DenseOf, Zenon
    <3> HIDE DEF m
    <3>2. IsMatcher(m) /\ Subs(m) = {}
      BY <3>1, SubsOf DEF IsMatcher
    <3> QED
      BY <2>3, <3>2 DEF DenseSet, m
  <2>4. CASE SparseSet(S)
    <3> DEFINE m == [type |-> "mSparse", Set |-> S]
    <3>1. m.type = "mSparse" /\ m.Set = S
      OBVIOUS
    <3> HIDE DEF m
    <3>2. IsMatcher(m) /\ Subs(m) = {}
      BY <2>2, <3>1, SubsOf DEF IsMatcher
    <3> QED
      BY <2>4, <3>2 DEF SparseSet, m
  <2> QED
    BY <2>1, <2>3, <2>4
<1>4. CASE \E r \in GivenRanges : Ranges(r)
  <2>1. PICK r \in GivenRanges : Ranges(r)
    BY <1>4
  <2>2. IsRanges(r)
    BY GivenAssumption, Zenon DEF IsRanges
  <2> DEFINE m == [type |-> "mRange", Ranges |-> r]
  <2>3. m.type = "mRange" /\ m.Ranges = r
    OBVIOUS
  <2> HIDE DEF m
  <2>4. IsMatcher(m) /\ Subs(m) = {}
    BY <2>2, <2>3, SubsOf DEF IsMatcher
  <2> QED
    BY <2>1, <2>4 DEF Ranges, m
<1>5. CASE \E p \in Pointer : Not(p)
  <2>1. PICK p \in Pointer : Not(p)
    BY <1>5
  <2> DEFINE m == [type |-> "mNegation", Inner |-> p]
  <2>2. m.type = "mNegation" /\ m.Inner = p /\ m = [type |-> "mNegation", Inner |-> m.Inner]
    OBVIOUS
  <2> HIDE DEF m
  <2>3. IsMatcher(m) /\ Subs(m) = {p}
    BY <2>2, SubsOf DEF IsMatcher
  <2> QED
    BY <2>1, <2>3 DEF Not, m
<1>6. CASE \E n \in 0 .. MaxList : \E l \in [1 .. n -> Pointer] : And(l) \/ Or(l)
  <2>1. PICK n \in 0 .. MaxList : \E l \in [1 .. n -> Pointer] : And(l) \/ Or(l)
    BY <1>6
  <2>2. PICK l \in [1 .. n -> Pointer] : And(l) \/ Or(l)
    BY <2>1
  <2>3. n \in Nat
    BY SizesAssumption
  <2>4. l \in Seq(Nat) /\ ToSet(l) \subseteq Pointer
    <3>1. l \in [1 .. n -> Nat] /\ DOMAIN l = 1 .. n /\ \A i \in DOMAIN l : l[i] \in Pointer
      BY <1>1, Zenon
    <3>2. ToSet(l) \subseteq Pointer
      BY <3>1, Zenon DEF ToSet
    <3>3. l \in Seq(Nat)
      BY <2>3, <3>1
    <3> QED
      BY <3>2, <3>3, Zenon
  <2>5. ASSUME NEW t \in {"mIntersection", "mUnion"}, make([type |-> t, List |-> l])
        PROVE  \E m : IsMatcher(m) /\ Subs(m) \subseteq Pointer /\ make(m)
    <3> DEFINE m == [type |-> t, List |-> l]
    <3>1. m.type = t /\ m.List = l
      OBVIOUS
    <3> HIDE DEF m
    <3>2. IsMatcher(m) /\ Subs(m) = ToSet(l)
      BY <2>4, <3>1, SubsOf DEF IsMatcher
    <3> QED
      BY <2>4, <2>5, <3>2 DEF m
  <2> QED
    BY <2>2, <2>5 DEF And, Or
<1> QED
  BY <1>2, <1>3, <1>4, <1>5, <1>6, Zenon DEF Make

\* What no step does to a matcher that somebody holds.
Kept == \A p \in Pointer : Members(heap', p) = Members(heap, p)

LEMMA NextInv == Inv /\ [Next]_vars => Inv' /\ Kept
<1> SUFFICES ASSUME Inv, [Next]_vars PROVE Inv' /\ Kept
  OBVIOUS
<1>1. PICK rank : Sound(heap, rank)
  BY Zenon DEF Inv
<1>2. \A c \in optimized : SameAs(heap, c)
  BY CallsSameAs, Zenon DEF Inv
<1>3. ASSUME NEW rk, Sound(heap', rk), \A c \in optimized' : SameAs(heap', c)
      PROVE  Inv'
  <2>1. rk \in [DOMAIN heap' -> 0 .. Len(heap') - 1]
    BY <1>3, Ranked, Zenon
  <2>2. optimized' \subseteq [receiver : Pointer', result : Pointer'] /\ OptimizeKeepsTheSet'
    BY <1>3, SameAsCalls, Zenon
  <2> QED
    BY <1>3, <2>1, <2>2, Zenon DEF Inv, Pointer
<1>4. CASE Make
  <2>1. heap \in Seq(ToSet(heap))
    BY <1>1, Zenon DEF Sound
  <2>2. PICK m : IsMatcher(m) /\ Subs(m) \subseteq Pointer /\ make(m)
    BY <1>4, <2>1, MakesMatchers, Zenon
  <2>3. /\ \E rk : Sound(heap', rk)
        /\ Pointer \subseteq Pointer' /\ optimized' = optimized
        /\ \A p \in Pointer : Members(heap', p) = Members(heap, p)
    BY <1>1, <2>2, MakeKeeps, Zenon
  <2>4. PICK rk : Sound(heap', rk)
    BY <2>3, Zenon
  <2>5. \A c \in optimized' : SameAs(heap', c)
    BY <1>2, <2>3, StillSame, Zenon
  <2> QED
    BY <1>3, <2>3, <2>4, <2>5, Zenon DEF Kept
<1>5. CASE \E p \in Pointer : CallOptimize(p)
  <2>1. PICK p \in Pointer : CallOptimize(p)
    BY <1>5
  <2>2. /\ \E rk : Sound(heap', rk)
        /\ Pointer \subseteq Pointer'
        /\ \A q \in Pointer : Members(heap', q) = Members(heap, q)
        /\ \E q \in Pointer' : /\ Members(heap', q) = Members(heap', p)
                               /\ optimized' \subseteq optimized \cup {Call(p, q)}
    BY <1>1, <2>1, OptimizeKeeps, Zenon
  <2>3. PICK rk : Sound(heap', rk)
    BY <2>2, Zenon
  <2>4. \A c \in optimized : SameAs(heap', c)
    BY <1>2, <2>2, StillSame, Zenon
  <2>5. \A c \in optimized' : SameAs(heap', c)
    BY <2>2, <2>4, Zenon DEF SameAs, Pointer
  <2> QED
    BY <1>3, <2>2, <2>3, <2>5, Zenon DEF Kept
<1>6. CASE UNCHANGED vars
  <2>1. heap' = heap /\ optimized' = optimized
    BY <1>6 DEF vars
  <2>2. Pointer' = Pointer
    BY <2>1, Zenon DEF Pointer
  <2>3. Sound(heap', rank)
    BY <1>1, <2>1, Zenon
  <2> QED
    BY <1>2, <1>3, <2>1, <2>2, <2>3, Zenon DEF Kept
<1> QED
  BY <1>4, <1>5, <1>6 DEF Next

\* The matchers that n calls come to have a rank lower by n.
LEMMA WithinEnds ==
    ASSUME NEW rank, Sound(heap, rank), NEW p \in Pointer
    PROVE  Within(p, Len(heap)) = {}
<1> DEFINE n == Len(heap)
           D == 0 .. n
           V == SUBSET Pointer
           rhs(g) == [k \in D |-> IF k = 0 THEN {p} ELSE UNION {Subs(heap[q]) : q \in g[k - 1]}]
           t == CHOOSE g : g = rhs(g)
           F == [g \in [D -> V] |-> rhs(g)]
           id == [k \in D |-> k]
<1>1. /\ n \in Nat /\ rank \in [Pointer -> Nat] /\ \A q \in Pointer : rank[q] < n
      /\ \A q \in Pointer : \A s \in Subs(heap[q]) : s \in Pointer /\ rank[s] < rank[q]
  <2>1. heap \in Seq(ToSet(heap)) => n \in Nat
    OBVIOUS
  <2> QED
    BY <2>1, Zenon DEF Sound, Pointer
<1>2. Within(p, n) = t[n]
  BY Zenon DEF Within
<1> HIDE DEF n
<1>3. \A k \in D : k = 0 \/ k - 1 \in D
  BY <1>1
<1>4. \A g \in [D -> V] : rhs(g) \in [D -> V]
  BY <1>1, <1>3
<1>5. F \in [[D -> V] -> [D -> V]]
  BY <1>4, Zenon
<1>6. ASSUME NEW g1 \in [D -> V], NEW g2 \in [D -> V], NEW q \in D,
             \A r \in D : id[r] < id[q] => g1[r] = g2[r]
      PROVE  F[g1][q] = F[g2][q]
  <2>1. q = 0 \/ g1[q - 1] = g2[q - 1]
    BY <1>1, <1>3, <1>6
  <2>2. rhs(g1)[q] = rhs(g2)[q]
    BY <2>1, Zenon
  <2>3. F[g1] = rhs(g1) /\ F[g2] = rhs(g2)
    BY Zenon
  <2> QED
    BY <2>2, <2>3, Zenon
<1>7. V # {} /\ id \in [D -> Nat] /\ \A q \in D : id[q] < n + 1
  BY <1>1
<1>8. \E g : g = rhs(g)
  <2> HIDE DEF F, V, D, id
  <2>1. Descends(F, D, V, id, n + 1)
    <3>1. n + 1 \in Nat
      BY <1>1
    <3> QED
      BY <1>5, <1>6, <1>7, <3>1, Zenon DEF Descends
  <2>2. PICK g \in [D -> V] : g = F[g]
    BY <2>1, Recursion, Zenon
  <2> QED
    BY <2>2, Zenon DEF F
<1>9. t = rhs(t)
  BY <1>8, Zenon
<1> HIDE DEF t
<1>10. t[0] = {p} /\ \A k \in D : k # 0 => t[k] = UNION {Subs(heap[q]) : q \in t[k - 1]}
  <2>1. \A k \in D : t[k] = IF k = 0 THEN {p} ELSE UNION {Subs(heap[q]) : q \in t[k - 1]}
    BY <1>9, Zenon
  <2>2. 0 \in D
    BY <1>1
  <2> QED
    BY <2>1, <2>2, Zenon
<1> DEFINE G == {k \in Nat : k \in D => \A q \in t[k] : q \in Pointer /\ rank[q] + k <= rank[p]}
<1>11. 0 \in G
  BY <1>1, <1>10
<1>12. ASSUME NEW k \in G PROVE k + 1 \in G
  <2>1. k \in Nat /\ k + 1 \in Nat
    OBVIOUS
  <2>2. ASSUME k + 1 \in D, NEW q \in t[k + 1] PROVE q \in Pointer /\ rank[q] + (k + 1) <= rank[p]
    <3>1. k \in D /\ k + 1 # 0 /\ (k + 1) - 1 = k
      BY <1>1, <2>1, <2>2
    <3>2. t[k + 1] = UNION {Subs(heap[s]) : s \in t[k]}
      BY <1>10, <2>2, <3>1, Zenon
    <3>3. PICK s \in t[k] : q \in Subs(heap[s])
      BY <2>2, <3>2
    <3>4. s \in Pointer /\ rank[s] + k <= rank[p]
      BY <3>1
    <3>5. q \in Pointer /\ rank[q] < rank[s]
      BY <1>1, <3>3, <3>4, Zenon
    <3>6. rank[q] \in Nat /\ rank[s] \in Nat /\ rank[p] \in Nat
      BY <1>1, <3>4, <3>5, Zenon
    <3> QED
      BY <2>1, <3>4, <3>5, <3>6
  <2> QED
    BY <2>1, <2>2
<1>13. n \in G
  <2>1. G \subseteq Nat
    OBVIOUS
  <2> HIDE DEF G
  <2> QED
    BY <1>1, <1>11, <1>12, <2>1, Induction, Zenon
<1>14. t[n] = {}
  <2>1. n \in D
    BY <1>1
  <2>2. ASSUME NEW q \in t[n] PROVE FALSE
    <3>1. q \in Pointer /\ rank[q] + n <= rank[p]
      BY <1>13, <2>1
    <3>2. rank[q] \in Nat /\ rank[p] \in Nat /\ rank[p] < n
      BY <1>1, <3>1, Zenon
    <3> QED
      BY <1>1, <3>1, <3>2
  <2> QED
    BY <2>2, Zenon
<1> QED
  BY <1>2, <1>14, Zenon DEF n

-----------------------------------------------------------------------------
(* The theorems. *)

\* The invariant holds in every state of a program that makes matchers of one
\* another and optimizes them in any order.
THEOREM Invariance == Spec => []Inv
<1>1. Inv /\ [Next]_vars => Inv'
  BY NextInv, Zenon
<1> QED
  BY InitInv, <1>1, PTL DEF Spec

\* Every pointer leads to a matcher, and no matcher is part of itself, also after
\* mNegation.Optimize has written m.Inner: Match returns.
THEOREM TypeCorrect == Spec => []TypeOK
<1>1. Inv => TypeOK
  <2> SUFFICES ASSUME Inv PROVE TypeOK
    OBVIOUS
  <2>1. PICK rank : Sound(heap, rank)
    BY Zenon DEF Inv
  <2>2. \A p \in Pointer : Subs(heap[p]) \subseteq Pointer
    BY <2>1, Zenon DEF Sound, Pointer
  <2>3. \A p \in Pointer : Within(p, Len(heap)) = {}
    BY <2>1, WithinEnds, Zenon
  <2>4. optimized \subseteq [receiver : Pointer, result : Pointer]
    BY Zenon DEF Inv
  <2> QED
    BY <2>2, <2>3, <2>4, Zenon DEF TypeOK
<1> QED
  BY Invariance, <1>1, PTL

\* ForEach calls f for the bytes of Match, each once and in ascending order, and
\* asDense keeps the set, for matchers of every kind and of every depth.
THEOREM ForEachIsMatch == Spec => []MethodsAgree
<1>1. Inv => MethodsAgree
  <2> SUFFICES ASSUME Inv, NEW p \in Pointer
               PROVE  /\ ToSet(ForEach(heap, p)) = Members(heap, p)
                      /\ Members(asDense(heap, p).heap, asDense(heap, p).result) = Members(heap, p)
                      /\ Asc(ForEach(heap, p))
    BY Zenon DEF MethodsAgree, Bytes, Asc
  <2>1. PICK rank : Sound(heap, rank)
    BY Zenon DEF Inv
  <2>2. ForEach(heap, p) \in Lists /\ ToSet(ForEach(heap, p)) = Members(heap, p)
    BY <2>1, ForEachOf, Zenon DEF Pointer
  <2>3. Better(heap, rank, p, asDense(heap, p))
    BY <2>1, AsDense, Zenon DEF Pointer
  <2>4. Asc(ForEach(heap, p))
    BY <2>2, Zenon DEF Lists
  <2> QED
    BY <2>2, <2>3, <2>4, Zenon DEF Better
<1> QED
  BY Invariance, <1>1, PTL

\* What any call of Optimize returned matches the bytes that its receiver matches,
\* then and in every later state, whatever is made and optimized in between.
THEOREM SameSet == Spec => []OptimizeKeepsTheSet
<1>1. Inv => OptimizeKeepsTheSet
  BY Zenon DEF Inv
<1> QED
  BY Invariance, <1>1, PTL

\* After two calls of Optimize there is nothing left to improve: every later call
\* returns its receiver and leaves the heap alone.
THEOREM Settles == Spec => []OptimizeSettles
<1>1. Inv => OptimizeSettles
  <2> SUFFICES ASSUME Inv, NEW p \in Pointer
               PROVE  LET once == Optimize(heap, p)
                          twice == Optimize(once.heap, once.result)
                      IN  Optimize(twice.heap, twice.result) = twice
    BY Zenon DEF OptimizeSettles
  <2> DEFINE once == Optimize(heap, p)
             twice == Optimize(once.heap, once.result)
  <2> SUFFICES Optimize(twice.heap, twice.result) = twice
    OBVIOUS
  <2>1. PICK rank : Sound(heap, rank)
    BY Zenon DEF Inv
  <2>2. Better(heap, rank, p, once)
    BY <2>1, OptimizeBetter, Zenon DEF Pointer
  <2> HIDE DEF once
  <2> DEFINE g == once.heap
             q == once.result
             rk == Grown(heap, rank, g)
  <2>3. /\ once = old(g, q) /\ q \in DOMAIN g /\ Sound(g, rk)
        /\ Settled(g, q) \/ g[q].type = "mDense"
    BY <2>2, Zenon DEF Better, Grows, old
  <2> HIDE DEF g, q, rk
  <2>4. twice = Optimize(g, q)
    BY Zenon DEF g, q
  <2>5. CASE Settled(g, q)
    <3>1. twice = once
      BY <2>3, <2>4, <2>5, SettledStays, Zenon
    <3> QED
      BY <2>4, <3>1, Zenon
  <2>6. CASE g[q].type = "mDense"
    <3> DEFINE t == [s \in DOMAIN g |-> Optimize(g, s)]
    <3>1. twice = m_Optimize(g, t, q)
      BY <2>3, <2>4, OptimizeOf, Zenon
    <3>2. m_Optimize(g, t, q) = mDense_Optimize(g, q)
      BY <2>6, OptimizeCases, Zenon
    <3>3. Better(g, rk, q, twice) /\ Settled(twice.heap, twice.result)
      BY <2>3, <2>6, <3>1, <3>2, DenseOptimize, Zenon
    <3> HIDE DEF twice
    <3>4. /\ twice = old(twice.heap, twice.result) /\ twice.result \in DOMAIN twice.heap
          /\ Sound(twice.heap, Grown(g, rk, twice.heap))
      BY <3>3, Zenon DEF Better, Grows, old
    <3>5. Optimize(twice.heap, twice.result) = old(twice.heap, twice.result)
      BY <3>3, <3>4, SettledStays, Zenon
    <3> QED
      BY <3>4, <3>5, Zenon
  <2> QED
    BY <2>3, <2>5, <2>6
<1> QED
  BY Invariance, <1>1, PTL

\* No step, be it mNegation.Optimize writing to a matcher that others hold too,
\* changes the set of bytes that a matcher stands for.
THEOREM NeverChange == Spec => MatchersNeverChange
<1>1. Inv /\ [Next]_vars => [\A p \in Pointer : Members(heap', p) = Members(heap, p)]_vars
  BY NextInv, Zenon DEF Kept
<1> QED
  BY Invariance, <1>1, PTL DEF Spec, MatchersNeverChange
=============================================================================
