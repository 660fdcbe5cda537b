----------------------------- MODULE MCNodeTable -----------------------------
(* NodeTable on small tables: a roomy one that never fills, a full one where  *)
(* slots are recycled. *)
EXTENDS NodeTable, TLC

CONSTANTS a, b, c

MCNodes == {a, b, c}

Symmetry == Permutations(MCNodes)

=============================================================================
