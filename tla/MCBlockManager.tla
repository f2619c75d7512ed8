--------------------------- MODULE MCBlockManager ---------------------------
(***************************************************************************)
(* Instances of BlockManager for TLC.  MaxRefs bounds the reference counts,*)
(* which the code lets grow without limit: a step that would take a count  *)
(* above it is not taken.                                                  *)
(***************************************************************************)
EXTENDS BlockManager

CONSTANTS MaxRefs, fork

\* Prompts that repeat, extend and diverge from one another within a node.
MCPrompts == {<<1, 2>>, <<1, 2, 1>>, <<1, 1, 2, 2>>, <<2>>}

\* A sibling for each token, and a prompt that forks off one of them.
SiblingPrompts == {<<t>> : t \in Token} \cup {<<fork, fork, fork, fork, fork>>}

RequestSymmetry == Permutations(Req)
SiblingSymmetry == Permutations(Req) \cup Permutations(Token \ {fork})

MCNext == Next /\ \A b \in Block : ref_counts'[b] <= MaxRefs

MCSpec == Init /\ [][MCNext]_vars
=============================================================================
