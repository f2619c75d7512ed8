------------------------------ MODULE MCEngine ------------------------------
(* Instances of Engine for TLC. *)
EXTENDS Engine

OneTokenPrompts == {<<1>>}
LongPrompts == {<<1>>, <<2, 1, 1, 1>>}

RequestSymmetry == Permutations(Req)
=============================================================================
