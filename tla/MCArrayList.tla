---------------------------- MODULE MCArrayList ----------------------------
(* ArrayList and its binary search for TLC: two pointers, v1 the lower one. *)
EXTENDS ArraySearch, TLC

CONSTANTS v1, v2

MCAddress == v1 :> 1 @@ v2 :> 2 @@ NULL :> 0

(* ret and args decide no step, and no invariant but for the operation that  *)
(* ended in a fault: states that differ in them alone are one.  TLC still    *)
(* checks every step with both.                                              *)
View == <<list, fault, IF fault THEN ret[1] ELSE NULL, misused, search>>
=============================================================================
