---------------------------- MODULE MCLinkedList ----------------------------
(* LinkedList and its iterations for TLC: nodes and stored pointers are      *)
(* interchangeable.                                                          *)
EXTENDS ListIteration, TLC

(* ret and args decide no step, and no invariant but for the operation that  *)
(* ended in a fault; of used they read two members.  States that differ in   *)
(* nothing else are one.  TLC still checks every step with all of it.        *)
View == <<head, tail, size, nodes, fault, IF fault THEN ret[1] ELSE NULL,
          used \cap {"pop_head", "insert_at"}, reckless, chain, iter, lost>>

Symmetry == Permutations(Addr) \cup Permutations(Value)
=============================================================================
