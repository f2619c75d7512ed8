------------------------------- MODULE Queues -------------------------------
(***************************************************************************)
(* Selections from a queue: Rust's retain, and the loops that list some of *)
(* a queue's requests in its order.  SelectSeq, by a definition that the   *)
(* provers can expand.                                                     *)
(***************************************************************************)
EXTENDS Integers, SequencesExt

\* The places of the set I in their order.
InOrder(I) == CHOOSE place \in [1..Cardinality(I) -> I] :
                \A m, n \in DOMAIN place : m < n => place[m] < place[n]

\* The elements of queue that are in S.
Filter(queue, S) ==
  LET place == InOrder({i \in DOMAIN queue : queue[i] \in S})
  IN [n \in DOMAIN place |-> queue[place[n]]]

Drop(queue, S) == Filter(queue, ToSet(queue) \ S)
=============================================================================
