------------------------------- MODULE MCWindow -------------------------------
(* Window with two motes. *)
EXTENDS Window

CONSTANTS a, b

TwoNodes == {a, b}

Symmetry == Permutations(TwoNodes)

=============================================================================
