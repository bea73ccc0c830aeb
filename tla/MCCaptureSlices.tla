--------------------------- MODULE MCCaptureSlices ---------------------------
(***************************************************************************)
(* The machine with the slices of its captures, on three families of       *)
(* programs: all short ones, those that move captures and frames about,    *)
(* and those that record captures before, in and after choices, some of    *)
(* them in a loop.  The first array of captures has two cells.             *)
(***************************************************************************)
EXTENDS MCExecution, CaptureSlices

SliceInstrs ==
    {Instr("CHOICE", s, 0, 0) : s \in {1, 2}}
    \cup {Instr(c, 0, 0, 0) : c \in {"BCAP", "FCAP", "FAIL", "FAIL2X", "BCOMMIT", "CALL", "RET"}}
    \cup {Instr("PCOMMIT", -3, 0, 0), Instr("ANYB", 1, 0, 0), Instr("ECAP", 0, 0, 0)}

SlicePrograms ==
    {Load(<<a, b, c, d, e>>) :
        a \in {Instr("CHOICE", 1, 0, 0), Instr("CHOICE", 2, 0, 0), Instr("BCAP", 0, 0, 0)},
        b \in SliceInstrs, c \in SliceInstrs, d \in SliceInstrs, e \in SliceInstrs}

MachineFamilies ==
    {[Programs |-> AnyThree, Inputs |-> MCInputs],
     [Programs |-> BacktrackFive, Inputs |-> BacktrackInputs],
     [Programs |-> SlicePrograms, Inputs |-> {<<97>>}]}
=============================================================================
