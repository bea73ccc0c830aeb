------------------------------- MODULE ForEach -------------------------------
(***************************************************************************)
(* What byteset.Matcher promises of ForEach (src/byteset/interface.go):    *)
(* "ForEach calls f exactly once for each byte in the set.  The arguments  *)
(* for successive calls are guaranteed to be in ascending order."          *)
(***************************************************************************)
EXTENDS Integers, Sequences

VARIABLES
    set,        \* the bytes the matcher matches
    calls,      \* the arguments f has been called with
    returned    \* has ForEach returned?

Called == {calls[k] : k \in DOMAIN calls}

Init == calls = <<>> /\ returned = FALSE

Call(b) ==
    /\ ~ returned
    /\ b \in set \ Called
    /\ \A x \in set : x < b => x \in Called
    /\ calls' = Append(calls, b)
    /\ UNCHANGED <<set, returned>>

Return ==
    /\ ~ returned
    /\ set \subseteq Called
    /\ returned' = TRUE
    /\ UNCHANGED <<set, calls>>

Next == Return \/ \E b \in set : Call(b)

Spec == Init /\ [][Next]_<<set, calls, returned>>
=============================================================================
