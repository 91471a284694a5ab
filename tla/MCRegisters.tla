----------------------------- MODULE MCRegisters -----------------------------
(* Instance of Registers.tla for TLC.                                      *)
EXTENDS Registers, TLC

Symmetry ==
    Permutations(Documents) \cup Permutations(Emails)
        \cup Permutations(Names) \cup Permutations(Editors)
=============================================================================
