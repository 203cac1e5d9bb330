----------------------------- MODULE MCApplications -----------------------------
(* Small instances of Applications for TLC. *)
EXTENDS Applications, TLC

Symmetry == Permutations(Apps) \cup Permutations(Handlers) \cup Permutations(Workers)
=============================================================================
