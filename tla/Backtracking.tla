---------------------------- MODULE Backtracking ----------------------------
(***************************************************************************)
(* What a bytecode execution promises about its two stacks, whatever the   *)
(* program: the rules that the comments of the fields KS and CS of type    *)
(* Execution lay down (src/peggyvm/execution.go).  Instructions, matching  *)
(* and the code pointer are abstracted away.  Execution implements this    *)
(* specification.                                                          *)
(***************************************************************************)
EXTENDS Integers, Sequences

VARIABLES
    DP,       \* data pointer
    KS,       \* capture stack: a sequence of Assignments
    CS,       \* control stack: a sequence of Frames
    R,        \* execution state
    rewinds   \* may the data pointer be moved back by an instruction?

vars == <<DP, KS, CS, R, rewinds>>

\* The top of a stack, and the stack below it.
Top(s) == s[Len(s)]
Below(s) == SubSeq(s, 1, Len(s) - 1)

Assignment == [Index : Nat, IsEnd : BOOLEAN, DP : Nat]
Frame == [IsChoice : BOOLEAN, DP : Nat, XP : Nat, KS : Seq(Assignment)]

Init ==
    /\ DP = 0
    /\ KS = <<>>
    /\ CS = <<>>
    /\ R = "Running"
    /\ rewinds \in BOOLEAN

Running == R = "Running" /\ UNCHANGED rewinds

\* Matching and jumping, and reaching the end of the match.
Move ==
    /\ Running
    /\ DP' \in Nat
    /\ rewinds \/ DP' >= DP
    /\ R' \in {"Running", "Success"}
    /\ UNCHANGED <<KS, CS>>

SavesState(fr) == fr.IsChoice /\ fr.DP = DP /\ fr.KS = KS

\* CALL and CHOICE push a frame; a choice frame saves the current state.
Push ==
    /\ Running
    /\ CS' # <<>> /\ Top(CS') \in Frame
    /\ CS' = Append(CS, Top(CS'))
    /\ Top(CS').IsChoice => SavesState(Top(CS'))
    /\ ~ Top(CS').IsChoice => Top(CS').DP = 0 /\ Top(CS').KS = <<>>
    /\ UNCHANGED <<DP, KS, R>>

\* COMMIT and RET pop the top frame and ignore what it saved.
Pop ==
    /\ Running
    /\ CS # <<>>
    /\ CS' = Below(CS)
    /\ UNCHANGED <<DP, KS, R>>

\* PCOMMIT updates the top choice frame.
Refresh ==
    /\ Running
    /\ CS # <<>>
    /\ Top(CS).IsChoice
    /\ CS' # <<>> /\ Top(CS') \in Frame
    /\ CS' = Append(Below(CS), Top(CS'))
    /\ SavesState(Top(CS'))
    /\ UNCHANGED <<DP, KS, R>>

\* FAIL, FAIL2X and BCOMMIT go back to what a choice frame saved, and drop
\* that frame and all the frames above it.
Restore ==
    /\ Running
    /\ \E i \in DOMAIN CS :
          /\ CS[i].IsChoice
          /\ DP' = CS[i].DP
          /\ KS' = CS[i].KS
          /\ CS' = SubSeq(CS, 1, i - 1)
    /\ UNCHANGED R

\* A start may lie in the past, an end is recorded where it happens.
Marks(a) == a \in Assignment /\ a.DP <= DP /\ (a.IsEnd => a.DP = DP)

\* BCAP and ECAP record one assignment, FCAP two.
Record ==
    /\ Running
    /\ KS' # <<>> /\ Marks(Top(KS'))
    /\ \/ KS' = Append(KS, Top(KS'))
       \/ /\ Below(KS') # <<>> /\ Marks(Top(Below(KS')))
          /\ KS' = Append(Append(KS, Top(Below(KS'))), Top(KS'))
    /\ UNCHANGED <<DP, CS, R>>

\* A failure or an error discards the captures.
Halt ==
    /\ Running
    /\ R' \in {"Failure", "Error"}
    /\ KS' = <<>>
    /\ \E n \in 0 .. Len(CS) : CS' = SubSeq(CS, 1, n)
    /\ UNCHANGED DP

Next == Move \/ Push \/ Pop \/ Refresh \/ Restore \/ Record \/ Halt

Spec == Init /\ [][Next]_vars

-----------------------------------------------------------------------------

Prefix(s, t) == Len(s) <= Len(t) /\ \A k \in DOMAIN s : s[k] = t[k]

\* What the choice frames of cs saved, from the bottom up, and then ks: each
\* is a prefix of the next.
PrefixChain(cs, ks) ==
    \A i \in DOMAIN cs : cs[i].IsChoice =>
        /\ Prefix(cs[i].KS, ks)
        /\ \A j \in 1 .. i : cs[j].IsChoice => Prefix(cs[j].KS, cs[i].KS)

\* Step saves KS in frames without copying it.  That is sound because the
\* capture stack is append-only between backtracks: what the choice frames
\* saved is a chain of prefixes that ends in the current capture stack.
SavedCapturesArePrefixes ==
    R \in {"Running", "Success"} => PrefixChain(CS, KS)

\* A failed or faulted execution reports no captures.
NoCapturesUnlessLive == R \in {"Failure", "Error"} => KS = <<>>

\* No mark is ahead of dp, and none is ahead of an end recorded after it.
NoneAhead(ks, dp) ==
    /\ \A k \in DOMAIN ks : ks[k].DP <= dp
    /\ \A k \in DOMAIN ks : ks[k].IsEnd => \A j \in 1 .. k : ks[j].DP <= ks[k].DP

\* Unless the program rewinds, no capture, current or saved, lies ahead of the
\* data pointer it goes with, since backtracking undoes captures and data
\* pointer together; so none ends before it starts.
CapturesNeverAhead ==
    ~ rewinds =>
        /\ NoneAhead(KS, DP)
        /\ \A i \in DOMAIN CS : NoneAhead(CS[i].KS, CS[i].DP)
=============================================================================
