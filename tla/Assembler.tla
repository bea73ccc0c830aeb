------------------------------ MODULE Assembler ------------------------------
(***************************************************************************)
(* Assembler (src/peggyvm/assembler.go): instructions and labels are       *)
(* appended to a list; Finish chooses the length of every jump and the     *)
(* address of every item, and concatenates the encoded instructions.  The  *)
(* length of a jump depends on its distance, and distances depend on the   *)
(* lengths of the jumps in between.                                        *)
(*                                                                         *)
(* An item is known by its position in List (the code's Index, counted     *)
(* from 1), a label that is not in the list yet by its name.  The encoder  *)
(* is a parameter.                                                         *)
(***************************************************************************)
EXTENDS Integers, Sequences

CONSTANTS
    Name,           \* names of labels
    None,           \* no label
    Call,           \* argument lists of EmitOp: records with a field label
    Accepts(_),     \* whether a call passes the assertions on its immediates
    Encoding(_, _), \* Encoding(call, s): the encoding with s in the label's slot
    MaxOffset,      \* ^highbit, the largest offset
    MaxItems,       \* bound on the length of List
    MaxCalls        \* bound on the calls of Finish

\* The longest instruction: a header of two bytes and three immediates of eight.
MaxOpLength == 26

\* The code's offsets have 64 bits: no list that fits into memory is too long.
ASSUME BoundsAssumption ==
    /\ MaxOffset \in Nat /\ MaxItems \in Nat /\ MaxCalls \in Nat
    /\ MaxOpLength * MaxItems <= MaxOffset
    /\ None \notin Name
    /\ \A c \in Call : c.label \in Name \cup {None}
    /\ Call \cap Name = {}
    /\ Name \cap Nat = {}

\* What Fix relies on of the encoder, for the offsets in S: an accepted call has
\* an encoding, which is longest for the largest offset and gets no shorter when
\* an offset grows in either direction.
EncoderGrows(S) ==
    \A c \in Call : Accepts(c) => \A s \in S :
        /\ Encoding(c, s) \in Seq(0..255)
        /\ Len(Encoding(c, s)) \in 1 .. MaxOpLength
        /\ Len(Encoding(c, s)) <= Len(Encoding(c, MaxOffset))
        /\ \A t \in S : (0 <= s /\ s <= t) \/ (t <= s /\ s <= 0) =>
                          Len(Encoding(c, s)) <= Len(Encoding(c, t))

Offsets == - MaxOffset .. MaxOffset

VARIABLES
    List,       \* the items: an accepted call of EmitOp, or the name of a label
    Index,      \* the position of each label, 0 while it is not in List (!Seen)
    XP,         \* the address of each item, Unknown while !KnownXP
    Fixed,      \* whether each item has been fixed
    Imm,        \* the value in each op's label slot (*Fixup)
    MaxLength,  \* the longest each op may become, its length once it is fixed
    Blocking,   \* the items to be looked at again after an item
    Queue,      \* the items to be looked at
    progress,   \* the result of process so far
    pc,         \* "idle", or the loop of Fix: "reason", "resort", "place"
    at,         \* the position of the last-resort loop
    program,    \* the Program last returned by Finish
    ret,        \* how the last call ended: "nil" or the message of a panic
    calls,      \* calls of Finish so far
    saved       \* by how much each item was shortened by the last resort, or
                \* after a jump over it had been fixed (history)

items == <<List, Index, XP, Fixed, Imm, MaxLength>>
vars == <<items, Blocking, Queue, progress, pc, at, program, ret, calls, saved>>

Unknown == -1
N == Len(List)
IsOp(k) == List[k] \notin Name
KnownXP(k) == XP[k] # Unknown

\* Faulty variant: the first position counts as none.
Seen_FromSecond(l) == Index[l] > 1

Seen(l) == Index[l] # 0

Jumps == {k \in 1..N : IsOp(k) /\ List[k].label # None}

\* The key of an item in Blocking.
Item(k) == IF IsOp(k) THEN k ELSE List[k]

Bytes(k) == IF Fixed[k] /\ IsOp(k) THEN Encoding(List[k], Imm[k]) ELSE <<>>

Init ==
    /\ List = <<>> /\ XP = <<>> /\ Fixed = <<>> /\ Imm = <<>> /\ MaxLength = <<>>
    /\ saved = <<>>
    /\ Index = [l \in Name |-> 0]
    /\ Blocking = [i \in Name \cup 1..MaxItems |-> <<>>]
    /\ Queue = <<>> /\ progress = FALSE /\ pc = "idle" /\ at = 0
    /\ program = [Bytes |-> <<>>, Labels |-> <<>>] /\ ret = "nil" /\ calls = 0

-----------------------------------------------------------------------------
(* Building the list. *)

\* link, for an item that has its other fields already.
link(item, fixed, imm, length) ==
    /\ N < MaxItems
    /\ List' = Append(List, item)
    /\ XP' = Append(XP, Unknown)
    /\ Fixed' = Append(Fixed, fixed)
    /\ Imm' = Append(Imm, imm)
    /\ MaxLength' = Append(MaxLength, length)
    /\ saved' = Append(saved, 0)
    /\ ret' = "nil"
    /\ UNCHANGED <<Queue, progress, pc, at, program, calls>>

panic(message) ==
    /\ ret' = message
    /\ pc' = "idle"
    /\ UNCHANGED <<items, Blocking, Queue, progress, at, program, calls, saved>>

\* EmitLabel.  The label's item exists since it was first grabbed, so link
\* refuses a label that is in the list.
EmitLabel(l) ==
    /\ pc = "idle"
    /\ \/ Seen(l) /\ panic("item used twice")
       \/ /\ ~ Seen(l)
          /\ Index' = [Index EXCEPT ![l] = N + 1]
          /\ link(l, TRUE, 0, 0)
          /\ UNCHANGED Blocking

\* Faulty variant: the length of a jump starts out as that of the offset 0.
EmitOp_StartsShort(c) ==
    /\ pc = "idle"
    /\ Accepts(c)
    /\ link(c, c.label = None, 0, Len(Encoding(c, 0)))
    /\ Blocking' = IF c.label = None THEN Blocking
                   ELSE [Blocking EXCEPT ![c.label] = Append(@, N + 1)]
    /\ UNCHANGED Index

\* EmitOp.  Without a label the op is fixed at once.  With one, its length is
\* that of the largest offset, and it waits for the label.
EmitOp(c) ==
    /\ pc = "idle"
    /\ \/ ~ Accepts(c) /\ panic("bad immediate")
       \/ /\ Accepts(c) /\ c.label = None
          /\ link(c, TRUE, 0, Len(Encoding(c, 0)))
          /\ UNCHANGED <<Index, Blocking>>
       \/ /\ Accepts(c) /\ c.label # None
          /\ link(c, FALSE, MaxOffset, Len(Encoding(c, MaxOffset)))
          /\ Blocking' = [Blocking EXCEPT ![c.label] = Append(@, N + 1)]
          /\ UNCHANGED Index

-----------------------------------------------------------------------------
(* Distances. *)

Size(k) == IF Fixed[k] THEN Len(Bytes(k)) ELSE MaxLength[k]

\* Faulty variant: the op itself is left out.
Span_WithoutItself(p) ==
    LET q == Index[List[p].label]
    IN  IF p + 1 > q THEN q .. p - 1 ELSE p + 1 .. q - 1

\* The items between the end of the op at p and the start of its label: for a
\* backward jump, the op itself is one of them.
Span(p) ==
    LET q == Index[List[p].label]
    IN  IF p + 1 > q THEN q .. p ELSE p + 1 .. q - 1

\* The sum of f[k] for the k in S up to n.
Sum(f, S, n) ==
    LET t[k \in 0..n] == IF k = 0 THEN 0 ELSE t[k - 1] + IF k \in S THEN f[k] ELSE 0
    IN  t[n]

Total(S) == Sum([k \in 1..N |-> Size(k)], S, N)

\* distance of the op at p and its label, which must be in the list.
distance(p) ==
    LET q == Index[List[p].label]
    IN  IF p + 1 > q THEN - Total(Span(p)) ELSE Total(Span(p))

exact(p) == \A k \in Span(p) : Fixed[k]

-----------------------------------------------------------------------------
(* Fix. *)

Everything == [k \in 1..N |-> k]

\* Finish calls Fix, which starts with all items in the queue.
Finish ==
    /\ pc = "idle"
    /\ calls < MaxCalls
    /\ calls' = calls + 1
    /\ Queue' = Everything
    /\ progress' = FALSE
    /\ pc' = "reason"
    /\ UNCHANGED <<items, Blocking, at, program, ret, saved>>

\* Faulty variant: the length of the item before may still change.
address_Early(k) ==
    IF k = 1 THEN 0 ELSE IF KnownXP(k - 1) THEN XP[k - 1] + MaxLength[k - 1] ELSE Unknown

\* The address of the item at k, if that of the item before it is known and
\* so is its length.
address(k) ==
    IF k = 1 THEN 0
    ELSE IF KnownXP(k - 1) /\ Fixed[k - 1] THEN XP[k - 1] + Len(Bytes(k - 1)) ELSE Unknown

trySetXP(k, prog) ==
    \/ KnownXP(k) /\ ~ prog /\ UNCHANGED XP
    \/ /\ ~ KnownXP(k)
       /\ XP' = [XP EXCEPT ![k] = address(k)]
       /\ prog = (address(k) # Unknown)

\* The item is put down to be looked at again after the one before it.
waits(k) == ~ KnownXP(k) /\ address(k) = Unknown

\* Faulty variant: an op may be fixed again.
pending_Again(k) == IsOp(k) /\ List[k].label # None /\ Seen(List[k].label)

\* An op that waits for its length, and whose label is in the list.
pending(k) == ~ Fixed[k] /\ Seen(List[k].label)

encoded(k, n) == Len(Encoding(List[k], n))

\* The assertion at the end of tryFix.
grew(k) == pending(k) /\ ~ exact(k) /\ encoded(k, distance(k)) > MaxLength[k]

\* Faulty variant: finding the same length again counts as progress.
tryFix_AlwaysProgress(k, prog) ==
    \/ ~ pending(k) /\ ~ prog /\ UNCHANGED <<Imm, MaxLength, Fixed>>
    \/ /\ pending(k) /\ prog
       /\ Imm' = [Imm EXCEPT ![k] = distance(k)]
       /\ MaxLength' = [MaxLength EXCEPT ![k] = encoded(k, distance(k))]
       /\ Fixed' = [Fixed EXCEPT ![k] = exact(k)]

tryFix(k, prog) ==
    LET n == distance(k)
        ml == encoded(k, n)
    IN  \/ ~ pending(k) /\ ~ prog /\ UNCHANGED <<Imm, MaxLength, Fixed>>
        \/ /\ pending(k)
           /\ Imm' = [Imm EXCEPT ![k] = n]
           /\ MaxLength' = [MaxLength EXCEPT ![k] = IF grew(k) THEN @ ELSE ml]
           /\ Fixed' = [Fixed EXCEPT ![k] = exact(k)]
           /\ prog = (exact(k) \/ ml < MaxLength[k])

\* A jump over the item has been fixed.
Passed(k) == \E j \in Jumps : Fixed[j] /\ Seen(List[j].label) /\ k \in Span(j)

\* processItem for the head of the queue.
processItem ==
    /\ pc \in {"reason", "place"}
    /\ Queue # <<>>
    /\ LET k == Head(Queue)
           blocked == IF waits(k) THEN [Blocking EXCEPT ![Item(k - 1)] = Append(@, k)]
                                  ELSE Blocking
       IN  /\ \E prog0, prog1 \in BOOLEAN :
                 /\ trySetXP(k, prog0)
                 /\ tryFix(k, prog1)
                 /\ progress' = (progress \/ prog0 \/ prog1)
           /\ \/ /\ grew(k)
                 /\ ret' = "max length grew" /\ pc' = "idle"
                 /\ Queue' = Tail(Queue)
                 /\ Blocking' = blocked
              \/ /\ ~ grew(k)
                 /\ Queue' = Tail(Queue) \o Blocking[Item(k)]
                 /\ Blocking' = [blocked EXCEPT ![Item(k)] = <<>>]
                 /\ UNCHANGED <<ret, pc>>
           /\ saved' = [saved EXCEPT ![k] = IF Passed(k) THEN @ + MaxLength[k] - MaxLength'[k] ELSE @]
    /\ UNCHANGED <<List, Index, at, program, calls>>

\* The queue is empty: another round after one that made progress, else on to
\* the last resort.
EndOfRound ==
    /\ pc \in {"reason", "place"}
    /\ Queue = <<>>
    /\ progress
    /\ Queue' = Everything
    /\ progress' = FALSE
    /\ UNCHANGED <<items, Blocking, pc, at, program, ret, calls, saved>>

EndOfReasoning ==
    /\ pc = "reason" /\ Queue = <<>> /\ ~ progress
    /\ pc' = "resort"
    /\ at' = 1
    /\ UNCHANGED <<items, Blocking, Queue, progress, program, ret, calls, saved>>

\* Faulty variant: the last resort shortens forward jumps too.
lastResort_AnyDirection(k) == distance(k) + 1

\* The offset that the last resort chooses.
lastResort(k) ==
    LET n == distance(k)
    IN  IF /\ k > Index[List[k].label]
           /\ encoded(k, n + 1) # encoded(k, n)
        THEN n + 1 ELSE n

\* One turn of the last-resort loop.  The distance to a label that was never
\* emitted runs off the end of the list.
LastResort ==
    /\ pc = "resort"
    /\ at <= N
    /\ \/ /\ Fixed[at]
          /\ at' = at + 1
          /\ UNCHANGED <<items, Blocking, Queue, progress, pc, program, ret, calls, saved>>
       \/ /\ ~ Fixed[at] /\ ~ Seen(List[at].label)
          /\ panic("index out of range")
       \/ /\ ~ Fixed[at] /\ Seen(List[at].label)
          /\ Imm' = [Imm EXCEPT ![at] = lastResort(at)]
          /\ MaxLength' = [MaxLength EXCEPT ![at] = encoded(at, lastResort(at))]
          /\ Fixed' = [Fixed EXCEPT ![at] = TRUE]
          /\ saved' = [saved EXCEPT ![at] = @ + MaxLength[at] - MaxLength'[at]]
          /\ at' = at + 1
          /\ UNCHANGED <<List, Index, XP, Blocking, Queue, progress, pc, program, ret, calls>>

EndOfLastResort ==
    /\ pc = "resort"
    /\ at = N + 1
    /\ pc' = "place"
    /\ Queue' = Everything
    /\ progress' = FALSE
    /\ UNCHANGED <<items, Blocking, at, program, ret, calls, saved>>

-----------------------------------------------------------------------------
(* The rest of Finish. *)

Done == \A k \in 1..N : KnownXP(k) /\ Fixed[k]

\* The sequences f[1], ..., f[n], one after the other.
Concat(f, n) ==
    LET t[k \in 0..n] == IF k = 0 THEN <<>> ELSE t[k - 1] \o f[k]
    IN  t[n]

Code == Concat([k \in 1..N |-> Bytes(k)], N)

LabelAt(k) == [Name |-> List[k], Offset |-> XP[k]]

\* Faulty variant: in the order of emission, last first.
Labels_Reversed ==
    Concat([k \in 1..N |-> IF IsOp(N + 1 - k) THEN <<>> ELSE <<LabelAt(N + 1 - k)>>], N)

Labels == Concat([k \in 1..N |-> IF IsOp(k) THEN <<>> ELSE <<LabelAt(k)>>], N)

Return ==
    /\ pc = "place" /\ Queue = <<>> /\ ~ progress
    /\ \/ ~ Done /\ panic("I done goofed")
       \/ /\ Done
          /\ program' = [Bytes |-> Code, Labels |-> Labels]
          /\ ret' = "nil"
          /\ pc' = "idle"
          /\ UNCHANGED <<items, Blocking, Queue, progress, at, calls, saved>>

Fix == processItem \/ EndOfRound \/ EndOfReasoning \/ LastResort \/ EndOfLastResort \/ Return

Next ==
    \/ \E l \in Name : EmitLabel(l)
    \/ \E c \in Call : EmitOp(c)
    \/ Finish
    \/ Fix

Spec == Init /\ [][Next]_vars
FairSpec == Spec /\ WF_vars(Fix)

-----------------------------------------------------------------------------
(* Properties. *)

\* Types.
TypeOK ==
    /\ List \in Seq(Call \cup Name)
    /\ Index \in [Name -> 0..N]
    /\ XP \in [1..N -> Nat \cup {Unknown}]
    /\ Fixed \in [1..N -> BOOLEAN]
    /\ Imm \in [1..N -> Int]
    /\ MaxLength \in [1..N -> Nat]
    /\ saved \in [1..N -> Int]
    /\ pc \in {"idle", "reason", "resort", "place"}
    /\ at \in Nat

Forward(k) == Index[List[k].label] > k

\* The two assertions of Fix about its own work never fail: the length found
\* for a jump is never above the one found before ("max length of %s grew"),
\* and when Fix is done every item has its length and its address ("I done
\* goofed").
FixNeverGoofs == ret \notin {"max length grew", "I done goofed"}

\* Finish panics only if some jump's label was never emitted, and it leaves no
\* such jump behind when it returns.
PanicsOnlyWithoutLabel ==
    LET emitted(l) == \E i \in 1..N : List[i] = l
    IN  /\ ret = "index out of range" => \E k \in Jumps : ~ emitted(List[k].label)
        /\ pc = "place" => \A k \in Jumps : emitted(List[k].label)

\* AsmItem.XP: "Only available if all prior instructions and labels have been
\* fixed", and then it is the length of their encodings.
AddressesAreFinal ==
    \A k \in 1..N : KnownXP(k) =>
        /\ \A i \in 1 .. k - 1 : Fixed[i]
        /\ XP[k] = Total(1 .. k - 1)

\* How far from its label a jump leads.
Miss(k) == XP[k] + Len(Bytes(k)) + Imm[k] - XP[Index[List[k].label]]

Saved(S) == Sum(saved, S, N)

\* A jump leads to its label, except that a forward one may lead beyond it, and
\* a backward one before it, by no more than what was taken off the lengths of
\* the items in between (and the jump itself, if backward) by the last resort,
\* or after a Finish that panicked.
MissesOnlyBySaving ==
    Done => \A k \in Jumps :
        IF Forward(k) THEN Miss(k) \in 0 .. Saved(Span(k))
                      ELSE - Miss(k) \in 0 .. Saved(Span(k))

\* Every jump leads to its label: "relative to the start of the *following*
\* instruction" (ImmCodeOffset) and "the distance between the *end* of p and
\* the *start* of q" (distance).
JumpsLand == Done => \A k \in Jumps : Miss(k) = 0

\* FindLabel's binary search needs the labels of a program in the order of
\* their offsets, and none is past the end of the code.
LabelsAscend ==
    LET ls == program.Labels
    IN  /\ \A i, j \in 1 .. Len(ls) : i < j => ls[i].Offset <= ls[j].Offset
        /\ \A i \in 1 .. Len(ls) : ls[i].Offset <= Len(program.Bytes)

\* What Fix has decided stays: Finish can be called again, after more items
\* too, and the encoding and the address of an item are what they were.
DecisionsAreFinal ==
    [][\A k \in 1..N :
          /\ Fixed[k] => Fixed'[k] /\ Imm'[k] = Imm[k] /\ MaxLength'[k] = MaxLength[k]
          /\ KnownXP(k) => XP'[k] = XP[k]]_vars

\* Fix ends.
FixEnds == pc # "idle" ~> pc = "idle"
=============================================================================
