------------------------------- MODULE MCHeap -------------------------------
(* Heap for TLC: two of the pointers point at equal numbers. *)
EXTENDS Heap, TLC

CONSTANTS v1, v2, v3
MCKey == v1 :> 1 @@ v2 :> 2 @@ v3 :> 2
=============================================================================
