------------------------------ MODULE Matchers ------------------------------
(***************************************************************************)
(* Package byteset: matchers of all kinds, built from one another, and     *)
(* what Optimize makes of them.  A matcher is a pointer, so two matchers   *)
(* may share a third, and Optimize of a negation writes to its receiver:   *)
(* the heap is part of the state.  A call runs on its own, since nothing   *)
(* in the package guards a matcher against use during a call of Optimize.  *)
(***************************************************************************)
EXTENDS Integers, Sequences, SequencesExt

CONSTANTS
    Words, Bits,    \* a dense set is this many words of so many bits
    Given,          \* the sets of bytes that matchers are made of
    GivenRanges,    \* the lists of ranges that Ranges coalesces to
    MaxObjects,     \* bound on the heap when a matcher is made
    MaxHeap,        \* bound on the heap after a call of Optimize
    MaxList         \* bound on the arguments of And and Or

Byte == 0 .. Words * Bits - 1

ASSUME SizesAssumption == Words \in Nat \ {0} /\ Bits \in Nat \ {0} /\ MaxList \in Nat
ASSUME GivenAssumption ==
    /\ \A s \in Given : s \subseteq Byte
    /\ \A r \in GivenRanges :
          /\ r \in Seq([Lo : Byte, Hi : Byte]) /\ \A i \in DOMAIN r : r[i].Lo <= r[i].Hi
          /\ \A i, j \in DOMAIN r : i < j => r[i].Hi < r[j].Lo

VARIABLES
    heap,       \* the matchers allocated so far; a pointer is an index
    optimized   \* the calls of Optimize that returned another matcher than their receiver

vars == <<heap, optimized>>

Pointer == DOMAIN heap
singletonAll == 1
singletonNone == 2

Init ==
    /\ heap = <<[type |-> "mAll"], [type |-> "mNone"]>>
    /\ optimized = {}

\* The bytes of a set, sorted.
Ascending(S) == FlattenSeq([n \in 1 .. Words * Bits |-> IF n - 1 \in S THEN <<n - 1>> ELSE <<>>])

-----------------------------------------------------------------------------
(* Bit sets. *)

denseIM(b) == [index |-> b \div Bits, bit |-> b % Bits]

mDense(S) ==
    [type |-> "mDense",
     Set |-> [i \in 0 .. Words - 1 |-> {denseIM(b).bit : b \in {c \in S : denseIM(c).index = i}}]]

mDense_Match(m, b) == denseIM(b).bit \in m.Set[denseIM(b).index]

\* Turn n of the two loops looks at bit j of word i.
turn(m, i, j) == IF j \in m.Set[i] THEN <<i * Bits + j>> ELSE <<>>

\* Faulty variant: the two loops are swapped.
mDense_ForEach_BitsFirst(m) ==
    FlattenSeq([n \in 1 .. Words * Bits |-> turn(m, (n - 1) % Words, (n - 1) \div Words)])

mDense_ForEach(m) ==
    FlattenSeq([n \in 1 .. Words * Bits |-> turn(m, (n - 1) \div Bits, (n - 1) % Bits)])

-----------------------------------------------------------------------------
(* Match and ForEach.  ForEach is the sequence of the calls of f.  Of a      *)
(* method that calls itself on other matchers, call[q] is the result for q.  *)

mExact_Match(m, b) == b = m.Byte

mSparse_Match(m, b) == b \in m.Set

mRange_Match(m, b) == \E i \in DOMAIN m.Ranges : m.Ranges[i].Lo <= b /\ b <= m.Ranges[i].Hi

mNegation_Match(call, m) == ~ call[m.Inner]

mIntersection_Match(call, m) == \A i \in DOMAIN m.List : call[m.List[i]]

mUnion_Match(call, m) == \E i \in DOMAIN m.List : call[m.List[i]]

m_Match(call, m, b) ==
    CASE m.type = "mAll" -> TRUE
      [] m.type = "mNone" -> FALSE
      [] m.type = "mExact" -> mExact_Match(m, b)
      [] m.type = "mDense" -> mDense_Match(m, b)
      [] m.type = "mSparse" -> mSparse_Match(m, b)
      [] m.type = "mRange" -> mRange_Match(m, b)
      [] m.type = "mNegation" -> mNegation_Match(call, m)
      [] m.type = "mIntersection" -> mIntersection_Match(call, m)
      [] m.type = "mUnion" -> mUnion_Match(call, m)

Match(h, p, b) == LET call[q \in DOMAIN h] == m_Match(call, h[q], b) IN call[p]

forEachByte(lo, hi) == [i \in 1 .. hi - lo + 1 |-> lo + i - 1]

genericForEach(h, p) ==
    FlattenSeq([n \in 1 .. Words * Bits |-> IF Match(h, p, n - 1) THEN <<n - 1>> ELSE <<>>])

mExact_ForEach(m) == <<m.Byte>>

mSparse_ForEach(m) == Ascending(m.Set)

mRange_ForEach(m) ==
    FlattenSeq([i \in DOMAIN m.Ranges |-> forEachByte(m.Ranges[i].Lo, m.Ranges[i].Hi)])

\* The first one's bytes, those that the others match too.
mIntersection_ForEach(h, call, m) ==
    IF m.List = <<>> THEN forEachByte(0, Words * Bits - 1)
    ELSE LET first == call[m.List[1]]
             rest(b) == \A i \in 2 .. Len(m.List) : Match(h, m.List[i], b)
         IN  FlattenSeq([n \in DOMAIN first |-> IF rest(first[n]) THEN <<first[n]>> ELSE <<>>])

\* forEachUnion, by what it is shown to do (module UnionForEach).
mUnion_ForEach(call, m) == Ascending(UNION {ToSet(call[m.List[i]]) : i \in DOMAIN m.List})

m_ForEach(h, call, p) ==
    LET m == h[p]
    IN  CASE m.type = "mNone" -> <<>>
          [] m.type \in {"mAll", "mNegation"} -> genericForEach(h, p)
          [] m.type = "mExact" -> mExact_ForEach(m)
          [] m.type = "mDense" -> mDense_ForEach(m)
          [] m.type = "mSparse" -> mSparse_ForEach(m)
          [] m.type = "mRange" -> mRange_ForEach(m)
          [] m.type = "mIntersection" -> mIntersection_ForEach(h, call, m)
          [] m.type = "mUnion" -> mUnion_ForEach(call, m)

ForEach(h, p) == LET call[q \in DOMAIN h] == m_ForEach(h, call, q) IN call[p]

-----------------------------------------------------------------------------
(* Optimize returns the heap it leaves and a pointer. *)

old(h, p) == [heap |-> h, result |-> p]
new(h, m) == [heap |-> Append(h, m), result |-> Len(h) + 1]

\* The matchers with an asDense method set the bits of their own bytes.
mExact_asDense(m) == mDense({m.Byte})
mSparse_asDense(m) == mDense(m.Set)
mRange_asDense(m) == mDense(UNION {m.Ranges[i].Lo .. m.Ranges[i].Hi : i \in DOMAIN m.Ranges})

asDense(h, p) ==
    LET m == h[p]
    IN  CASE m.type = "mDense" -> old(h, p)
          [] m.type = "mExact" -> new(h, mExact_asDense(m))
          [] m.type = "mSparse" -> new(h, mSparse_asDense(m))
          [] m.type = "mRange" -> new(h, mRange_asDense(m))
          [] OTHER -> new(h, mDense(ToSet(ForEach(h, p))))

exactly(b) == [type |-> "mExact", Byte |-> b]

\* Faulty variant: what cannot be improved is copied.
mDense_Optimize_Copies(h, p) == new(h, h[p])

mDense_Optimize(h, p) ==
    LET bytes == mDense_ForEach(h[p])
    IN  CASE Len(bytes) = 0 -> old(h, singletonNone)
          [] Len(bytes) = Words * Bits -> old(h, singletonAll)
          [] Len(bytes) = 1 /\ Words * Bits # 1 -> new(h, exactly(bytes[1]))
          [] OTHER -> old(h, p)

mSparse_Optimize(h, p) ==
    LET bytes == Ascending(h[p].Set)
    IN  CASE Len(bytes) = 0 -> old(h, singletonNone)
          [] Len(bytes) = 1 -> new(h, exactly(bytes[1]))
          [] OTHER -> old(h, p)

mRange_Optimize(h, p) == old(h, IF h[p].Ranges = <<>> THEN singletonNone ELSE p)

complement(m) == [m EXCEPT !.Set = [i \in DOMAIN m.Set |-> (0 .. Bits - 1) \ m.Set[i]]]

\* What the type switch on the optimized m.Inner returns.
negated(h, p) ==
    LET sub == h[h[p].Inner]
    IN  CASE sub.type = "mAll" -> old(h, singletonNone)
          [] sub.type = "mNone" -> old(h, singletonAll)
          [] sub.type = "mNegation" -> old(h, sub.Inner)
          [] sub.type = "mDense" -> new(h, complement(sub))
          [] OTHER -> old(h, p)

\* Faulty variant: when m stays as it is, m.Inner becomes m.
mNegation_Optimize_Loops(h, call, p) ==
    LET inner == call[h[p].Inner]
        r == negated([inner.heap EXCEPT ![p].Inner = inner.result], p)
    IN  IF r.result = p THEN old([r.heap EXCEPT ![p].Inner = p], p) ELSE r

\* Faulty variant: two negations are taken for one.
mNegation_Optimize_TwiceIsOnce(h, call, p) ==
    LET inner == call[h[p].Inner]
        written == [inner.heap EXCEPT ![p].Inner = inner.result]
    IN  IF written[inner.result].type = "mNegation" THEN old(written, inner.result)
        ELSE negated(written, p)

mNegation_Optimize(h, call, p) ==
    LET inner == call[h[p].Inner]
    IN  negated([inner.heap EXCEPT ![p].Inner = inner.result], p)

\* And and Or differ only in what the empty list stands for.
list_Optimize(h, call, p, empty) ==
    LET l == h[p].List
        dense == asDense(h, p)
    IN  CASE Len(l) = 0 -> old(h, empty)
          [] Len(l) = 1 -> call[l[1]]
          [] OTHER -> mDense_Optimize(dense.heap, dense.result)

mIntersection_Optimize(h, call, p) == list_Optimize(h, call, p, singletonAll)

\* Faulty variant: a dense first matcher takes the bytes of the others.
mUnion_Optimize_IntoFirst(h, call, p) ==
    LET l == h[p].List
        dense == mDense(ToSet(ForEach(h, p)))
    IN  IF Len(l) > 1 /\ h[l[1]].type = "mDense" THEN old([h EXCEPT ![l[1]] = dense], l[1])
        ELSE list_Optimize(h, call, p, singletonNone)

mUnion_Optimize(h, call, p) == list_Optimize(h, call, p, singletonNone)

m_Optimize(h, call, p) ==
    LET type == h[p].type
    IN  CASE type \in {"mAll", "mNone", "mExact"} -> old(h, p)
          [] type = "mDense" -> mDense_Optimize(h, p)
          [] type = "mSparse" -> mSparse_Optimize(h, p)
          [] type = "mRange" -> mRange_Optimize(h, p)
          [] type = "mNegation" -> mNegation_Optimize(h, call, p)
          [] type = "mIntersection" -> mIntersection_Optimize(h, call, p)
          [] type = "mUnion" -> mUnion_Optimize(h, call, p)

Optimize(h, p) == LET call[q \in DOMAIN h] == m_Optimize(h, call, q) IN call[p]

-----------------------------------------------------------------------------
(* What a program does with matchers. *)

make(m) == heap' = Append(heap, m) /\ UNCHANGED optimized

Exactly(b) == make(exactly(b))
DenseSet(S) == make(mDense(S))
SparseSet(S) == make([type |-> "mSparse", Set |-> S])
Ranges(r) == make([type |-> "mRange", Ranges |-> r])
Not(p) == make([type |-> "mNegation", Inner |-> p])
And(l) == make([type |-> "mIntersection", List |-> l])
Or(l) == make([type |-> "mUnion", List |-> l])

Make ==
    /\ Len(heap) < MaxObjects
    /\ \/ \E b \in Byte : {b} \in Given /\ Exactly(b)
       \/ \E S \in Given : DenseSet(S) \/ SparseSet(S)
       \/ \E r \in GivenRanges : Ranges(r)
       \/ \E p \in Pointer : Not(p)
       \/ \E n \in 0 .. MaxList : \E l \in [1..n -> Pointer] : And(l) \/ Or(l)

CallOptimize(p) ==
    \E r \in {Optimize(heap, p)} :
        /\ Len(r.heap) <= MaxHeap
        /\ heap' = r.heap
        /\ optimized' = IF r.result = p THEN optimized
                        ELSE optimized \cup {[receiver |-> p, result |-> r.result]}

Next == Make \/ \E p \in Pointer : CallOptimize(p)

Spec == Init /\ [][Next]_vars

-----------------------------------------------------------------------------
(* Properties. *)

Bytes(h, p) == ForEach(h, p)

Members(h, p) == {b \in Byte : Match(h, p, b)}

\* The pointers a matcher holds.
Subs(m) ==
    CASE m.type = "mNegation" -> {m.Inner}
      [] m.type \in {"mIntersection", "mUnion"} -> ToSet(m.List)
      [] OTHER -> {}

\* The matchers that Match, called on p, may come to in n calls.
Within(p, n) ==
    LET reach[k \in 0..n] ==
            IF k = 0 THEN {p} ELSE UNION {Subs(heap[q]) : q \in reach[k - 1]}
    IN  reach[n]

\* Types: every pointer leads to a matcher.  No matcher is part of itself, or
\* Match would not return: it comes to an end within as many calls as there are
\* matchers, also after Optimize has written a pointer.
TypeOK ==
    /\ optimized \subseteq [receiver : Pointer, result : Pointer]
    /\ \A p \in Pointer : Subs(heap[p]) \subseteq Pointer /\ Within(p, Len(heap)) = {}

\* "ForEach calls f exactly once for each byte in the set", in ascending order,
\* and the set is the one of Match, for expressions of every shape.  asDense
\* keeps it as well, on its way through the words and bits.
MethodsAgree ==
    \A p \in Pointer :
        LET bytes == Bytes(heap, p)
            d == asDense(heap, p)
        IN  /\ ToSet(bytes) = Members(heap, p) /\ Members(d.heap, d.result) = Members(heap, p)
            /\ \A i, j \in DOMAIN bytes : i < j => bytes[i] < bytes[j]

\* "Optimize returns a Matcher that matches the same set of bytes": the result of
\* every call so far matches what its receiver matches, however many matchers
\* were made and optimized (and negations written to) since that call.
OptimizeKeepsTheSet ==
    \A c \in optimized : Members(heap, c.result) = Members(heap, c.receiver)

\* "If no better implementation can be found, returns this matcher": the result
\* of a second call is returned, and nothing written, by every later one.
OptimizeSettles ==
    \A p \in Pointer :
        LET once == Optimize(heap, p)
            twice == Optimize(once.heap, once.result)
        IN  Optimize(twice.heap, twice.result) = twice

\* Nobody who holds a matcher notices that another one, perhaps one that is
\* part of it, is optimized.
MatchersNeverChange == [][\A p \in Pointer : Members(heap', p) = Members(heap, p)]_vars
=============================================================================
