------------------------------ MODULE MCSessions ------------------------------
(* Two tabs, one of which has two requests at a time. *)
EXTENDS Sessions, TLC

CONSTANTS t1, t2, c1, c2, c3

MCTabOf == c1 :> t1 @@ c2 :> t1 @@ c3 :> t2

Symmetry == Permutations(Exchanges) \cup Permutations({c1, c2})
===============================================================================
