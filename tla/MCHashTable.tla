---------------------------- MODULE MCHashTable ----------------------------
(* HashTable for TLC, with a key_hash that uses the index size it is given.  *)
(* With an index of 3 (two buckets in use) k1 and k2 collide and k3 is       *)
(* apart; with an index of 2 all three collide.                              *)
EXTENDS TableIteration, TLC

CONSTANTS k1, k2, k3

MCKey == {k1, k2, k3}
Number == k1 :> 0 @@ k2 :> 2 @@ k3 :> 4
MCHash == [k \in MCKey |-> [n \in IndexSize |-> Number[k] % n]]

(* ret and args decide no step and no invariant of the run: states that      *)
(* differ in them alone are one.  TLC still checks every step with both.     *)
View == <<table, heap, held, fault, events, iter, lost>>

(* To keep the instance small, iterations begin on tables of two entries     *)
(* that hash_table_set has put there, and a callback that leaves the table   *)
(* without an index is the last one.                                         *)
MCNext ==
  /\ IterNext
  /\ iter = NULL /\ iter' # NULL => Len(Stored) = 2 /\ events \subseteq {"set", "rehash"}
  /\ iter # NULL /\ "no_index" \in iter.did => UNCHANGED vars
MCSpec == IterInit /\ [][MCNext]_ivars

Symmetry == Permutations(Addr) \cup Permutations(Value)
=============================================================================
