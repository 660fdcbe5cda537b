------------------------------- MODULE MCRouter -------------------------------
(* Router with two motes, the home agent and at most one backup. *)
EXTENDS Router, TLC

CONSTANTS a, b, h, k

OneNode  == {a}
TwoNodes == {a, b}

NoBackup  == {}
OneBackup == {k}

Symmetry == Permutations(TwoNodes)

=============================================================================
