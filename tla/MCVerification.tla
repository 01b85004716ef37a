--------------------------- MODULE MCVerification ---------------------------
(* A sound plane or one with a single thing wrong, and commands given by hand. *)
EXTENDS Verification

Command(l, e, m, w) == [list |-> l, enforce |-> e, manifest |-> m, wo |-> w]
MCCommands ==
    {Command(<<"G0A">>, FALSE, m, FALSE) : m \in {"none", "good", "bad"}}
    \cup {Command(<<"G1", "G1-COMPLETE", "G2">>, e, "none", w) : e, w \in BOOLEAN}
    \cup {Command(<<"G0", "unknown", "G3", "G6">>, TRUE, "none", FALSE),
          Command(<<"G0", "G3", "G4", "G5", "G6">>, TRUE, "none", FALSE)}
MCPlanes == {p \in SUBSET Defects : Cardinality(p) <= 1}
=============================================================================
