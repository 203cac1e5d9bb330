-------------------------------- MODULE MCMail --------------------------------
(* Two syncs that may overlap. *)
EXTENDS Mail, TLC

Symmetry == Permutations(Syncs)
===============================================================================
