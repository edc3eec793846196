------------------------------ MODULE MapSpec ------------------------------
(***************************************************************************)
(* What hash_table promises: a map from keys to values.  There is one      *)
(* value for a key, the entries are in no order, and an operation that     *)
(* needs memory may answer FALSE and leave the map as it was.  HashTable   *)
(* is shown to implement this specification.                               *)
(*                                                                         *)
(* ret is the last operation with its answer, args its arguments; those of *)
(* an operation on an entry are the entry's key and value.                 *)
(***************************************************************************)
EXTENDS Integers, FiniteSets, SequencesExt

CONSTANTS
  Key, Value,
  NULL,         \* the answer when the key has no value
  IndexSize     \* the index sizes a client asks for

VARIABLES map, ret, args
mvars == <<map, ret, args>>

Answer(op, r) == ret' = <<op, r>>
Fails(op) == Answer(op, FALSE) /\ UNCHANGED map
Keys == DOMAIN map
With(k, v) == [x \in Keys \cup {k} |-> IF x = k THEN v ELSE map[x]]
Without(k) == [x \in Keys \ {k} |-> map[x]]

Init == map = <<>> /\ ret = <<"init", TRUE>> /\ args = <<>>

Set(op, k, v) == Fails(op) \/ (Answer(op, TRUE) /\ map' = With(k, v))

\* The entries a client makes to hand to set_entry are no part of the map
InitEntry == Fails("init_entry") \/ (Answer("init_entry", TRUE) /\ UNCHANGED map)
DestroyEntry == Answer("destroy_entry", TRUE) /\ UNCHANGED map

Del(k) ==
  \/ k \in Keys /\ Answer("del", TRUE) /\ map' = Without(k)
  \/ k \notin Keys /\ Fails("del")

Get(k) == Answer("get", IF k \in Keys THEN map[k] ELSE NULL) /\ UNCHANGED map

Size == Answer("size", Cardinality(Keys)) /\ UNCHANGED map

KeysOrValues ==
  /\ ret'[1] \in {"keys", "values"}
  /\ \E order \in SetToSeqs(Keys) :
       \/ Answer("keys", order)
       \/ Answer("values", [i \in DOMAIN order |-> map[order[i]]])
  /\ UNCHANGED map

Rehash == Answer("rehash", TRUE) /\ UNCHANGED map
Destroy == Answer("destroy", TRUE) /\ map' = <<>>

\* Operations on a table that init has not set up, or destroy has torn down
Setup == map = <<>> /\ (Fails("init") \/ (Answer("init", TRUE) /\ UNCHANGED map))
Unset ==
  /\ Answer("destroy", FALSE) \/ Answer("keys", NULL) \/ Answer("values", NULL)
  /\ map = <<>> /\ UNCHANGED map

Next ==
  \/ \E n \in IndexSize : args' = <<n>> /\ (Setup \/ Rehash)
  \/ \E k \in Key, v \in Value :
       /\ args' = <<k, v>>
       /\ Set("set", k, v) \/ Set("set_entry", k, v) \/ InitEntry \/ DestroyEntry
  \/ \E k \in Key : args' = <<k>> /\ (Get(k) \/ Del(k))
  \/ args' = <<>> /\ (Size \/ KeysOrValues \/ Destroy \/ Unset)

Spec == Init /\ [][Next]_mvars
=============================================================================
