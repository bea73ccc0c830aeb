------------------------------- MODULE Samples -------------------------------
(***************************************************************************)
(* The sample programs of peggyvm_test.go, loaded from their bytes, and    *)
(* what Match returns for them.                                            *)
(***************************************************************************)
EXTENDS Match

Letter == [a |-> 97, b |-> 98, n |-> 110]

\* .*ana$
Sample1 == LoadBytes(
    <<172, 64, 0,  20, 7,  100, 0,  20, 7,  64,  166, 0,  64,  144, 64, 243,
      174, 64, 0,  254, 0>>, <<<<97, 110, 97>>>>, <<>>, 1)

\* ^b(an)*a$
Sample2 == LoadBytes(
    <<172, 64, 0,  84, 98,  20, 10,  84, 97,  84, 110,  170, 72, 1, 2,  36, 244,
      84, 97,  20, 3,  64,  166, 0,  174, 64, 0,  254, 0>>, <<>>, <<>>, 2)

SamplePrograms == {Sample1, Sample2}

EndsInAna(w) == Len(w) >= 3 /\ SubSeq(w, Len(w) - 2, Len(w)) = <<Letter.a, Letter.n, Letter.a>>

\* b(an)*a as a word of its length.
IsBanana(w) ==
    /\ Len(w) >= 2 /\ Len(w) % 2 = 0
    /\ \A k \in DOMAIN w :
          w[k] = (IF k = 1 THEN Letter.b ELSE IF k % 2 = 0 THEN Letter.a ELSE Letter.n)

Whole(w) == [S |-> 0, E |-> Len(w)]
AnPairs(w) == [i \in 1 .. (Len(w) - 2) \div 2 |-> [S |-> 2 * i - 1, E |-> 2 * i + 1]]

\* The sample programs accept exactly the words their regular expressions
\* accept, and report the whole match and the list of the repeated captures.
SamplesMeanTheirRegex ==
    phase = "returned" =>
        /\ P = Sample1 => result.Success = EndsInAna(I)
        /\ P = Sample2 =>
              /\ result.Success = IsBanana(I)
              /\ result.Success => result.Captures[1].Multi = AnPairs(I)
        /\ P \in SamplePrograms /\ result.Success => result.Captures[0].Multi = <<Whole(I)>>
=============================================================================
