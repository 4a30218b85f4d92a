------------------------------ MODULE MCAccount ------------------------------
(* Instance of Account for TLC. *)
EXTENDS Account, TLC

\* Many failures meet deletions only, and a second code meets no deletion.
OneScene ==
    /\ codes > 0 => failures <= 2
    /\ codes > 1 => deletions = 0

Symmetry == Permutations(Callers)
=============================================================================
