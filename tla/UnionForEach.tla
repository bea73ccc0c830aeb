---------------------------- MODULE UnionForEach ----------------------------
(***************************************************************************)
(* forEachUnion (src/byteset/util.go), the ForEach of byteset.Or: one      *)
(* goroutine per matcher passes the matcher's bytes to an unbuffered       *)
(* channel; the caller merges the channels.                                *)
(*                                                                         *)
(* A send and its receive are one step.  The goroutines run at their own   *)
(* pace: each reaches its next send, or the close of its channel, at any   *)
(* time.  That a matcher's own ForEach calls back in ascending order is    *)
(* the contract of ForEach, which this function relies on and implements.  *)
(***************************************************************************)
EXTENDS Integers, Sequences

CONSTANTS Families      \* the lists of byte sets that may be united

AnyByte == 0..255

ASSUME FamiliesAssumption == \A f \in Families : f \in Seq(SUBSET AnyByte)

VARIABLES
    ms,         \* the matchers, as the sets they match
    left,       \* the bytes goroutine i has still to send
    routine,    \* goroutine i: "none", "running", "sending", "closed"
    caller,     \* "spawning", "merging", "returned"
    at,         \* the caller's position in the list of channels
    data,       \* how often each byte is in the slice of bytes received and
                \* not yet passed to f (its order does not matter: it is
                \* sorted before it is used)
    seen,       \* bytes received
    calls       \* the bytes f has been called with

unionVars == <<ms, left, routine, caller, at, data, seen, calls>>

Count == Len(ms)

\* The bytes in data.
buffered == {b \in AnyByte : data[b] > 0}

UnionInit ==
    /\ ms \in Families
    /\ left = ms
    /\ routine = [i \in 1..Count |-> "none"]
    /\ caller = "spawning"
    /\ at = 1
    /\ data = [b \in AnyByte |-> 0]
    /\ seen = {}
    /\ calls = <<>>

\* "if len(ms) == 0 { return }"
ReturnEmpty ==
    /\ caller = "spawning"
    /\ Count = 0
    /\ caller' = "returned"
    /\ UNCHANGED <<ms, left, routine, at, data, seen, calls>>

\* The loop that starts the goroutines.
Spawn ==
    /\ caller = "spawning"
    /\ at <= Count
    /\ routine' = [routine EXCEPT ![at] = "running"]
    /\ at' = IF at = Count THEN 1 ELSE at + 1
    /\ caller' = IF at = Count THEN "merging" ELSE "spawning"
    /\ UNCHANGED <<ms, left, data, seen, calls>>

\* Goroutine i calls back with its next byte and blocks in "ch <- b", ...
Offer(i) ==
    /\ routine[i] = "running"
    /\ left[i] # {}
    /\ routine' = [routine EXCEPT ![i] = "sending"]
    /\ UNCHANGED <<ms, left, caller, at, data, seen, calls>>

\* Faulty variant: the goroutine ends without closing its channel.
Close_Forgotten(i) == routine[i] = "running" /\ left[i] = {} /\ UNCHANGED unionVars

\* ... or, after its last one, closes the channel and ends.
Close(i) ==
    /\ routine[i] = "running"
    /\ left[i] = {}
    /\ routine' = [routine EXCEPT ![i] = "closed"]
    /\ UNCHANGED <<ms, left, caller, at, data, seen, calls>>

Least(b, set) == b \in set /\ \A x \in set : b <= x

\* Faulty variant: the byte is not remembered as seen.
received_Forgets(b) ==
    /\ at' = at + 1
    /\ data' = [data EXCEPT ![b] = @ + 1]
    /\ UNCHANGED seen

\* The body of the inner loop: go on to the next channel with a new byte, try
\* the same channel again after one that has been seen.
received(b) ==
    \/ b \in seen /\ UNCHANGED <<at, data, seen>>
    \/ /\ b \notin seen
       /\ at' = at + 1
       /\ data' = [data EXCEPT ![b] = @ + 1]
       /\ seen' = seen \cup {b}

Receive ==
    /\ caller = "merging"
    /\ at <= Count
    /\ routine[at] = "sending"
    /\ routine' = [routine EXCEPT ![at] = "running"]
    /\ \E b \in left[at] :
          /\ Least(b, left[at])
          /\ left' = [left EXCEPT ![at] = @ \ {b}]
          /\ received(b)
    /\ UNCHANGED <<ms, caller, calls>>

\* "b, ok := <-ch" with ok false.
ReceiveClosed ==
    /\ caller = "merging"
    /\ at <= Count
    /\ routine[at] = "closed"
    /\ at' = at + 1
    /\ UNCHANGED <<ms, left, routine, caller, data, seen, calls>>

\* "for _, ch := range chans" starts over.
firstChannel == 1

\* After a round over the channels: the least byte goes to f.
Emit ==
    /\ caller = "merging"
    /\ at = Count + 1
    /\ \E b \in buffered :
          /\ Least(b, buffered)
          /\ calls' = Append(calls, b)
          /\ data' = [data EXCEPT ![b] = @ - 1]
    /\ at' = firstChannel
    /\ UNCHANGED <<ms, left, routine, caller, seen>>

\* Faulty variant: the first closed channel ends the merge.
finished_AnyClosed == at = Count + 1 /\ \E i \in 1..Count : routine[i] = "closed"

\* "if len(data) == 0 { break }"
finished == at = Count + 1 /\ buffered = {}

Return ==
    /\ caller = "merging"
    /\ finished
    /\ caller' = "returned"
    /\ UNCHANGED <<ms, left, routine, at, data, seen, calls>>

Caller == ReturnEmpty \/ Spawn \/ Receive \/ ReceiveClosed \/ Emit \/ Return

Goroutine(i) == Offer(i) \/ Close(i)

UnionNext == Caller \/ \E i \in 1..Count : Goroutine(i)

UnionSpec == UnionInit /\ [][UnionNext]_unionVars

\* The Go scheduler runs every goroutine that can run.
UnionFairSpec ==
    /\ UnionSpec
    /\ WF_unionVars(Caller)
    /\ WF_unionVars(\E i \in 1..Count : Goroutine(i))

-----------------------------------------------------------------------------
(* Properties. *)

\* The type of the state.
UnionTypeOK ==
    /\ ms \in Seq(SUBSET AnyByte)
    /\ left \in [1..Count -> SUBSET AnyByte]
    /\ routine \in [1..Count -> {"none", "running", "sending", "closed"}]
    /\ caller \in {"spawning", "merging", "returned"}
    /\ at \in 1 .. Count + 1
    /\ data \in [AnyByte -> Nat]
    /\ seen \in SUBSET AnyByte
    /\ calls \in Seq(AnyByte)

Union == UNION {ms[i] : i \in 1..Count}

Contract == INSTANCE ForEach WITH set <- Union, returned <- caller = "returned"

\* However the goroutines are scheduled and however the sets overlap, f is
\* called exactly once for each byte of the union, in ascending order, and
\* before forEachUnion returns.
ImplementsForEach == Contract!Spec

\* No goroutine is left blocked on a channel nobody reads: by the time
\* forEachUnion returns, every one of them has closed its channel and ended.
NoGoroutineLeak == caller = "returned" => \A i \in 1..Count : routine[i] = "closed"

\* The caller and the goroutines never end up waiting for each other:
\* forEachUnion returns.
Terminates == <>(caller = "returned")
=============================================================================
