--------------------------- MODULE TableIteration ---------------------------
(***************************************************************************)
(* hash_table_iter of src/src/structs/hash_table.c with a callback that    *)
(* calls operations of the table it iterates over.                         *)
(*                                                                         *)
(* iter is NULL, or the iteration that waits for its callback: the bucket  *)
(* i it is in and next, the entry of the node it goes to after it.  A node *)
(* is freed by del; rehash and destroy leave the nodes of the old index    *)
(* where they are, and old is then the list that is walked to its end.     *)
(* due, done and did are history: the entries in the table since the       *)
(* iteration began that are still to be handed out, those that have been,  *)
(* and what callbacks did to the table that the iteration may suffer from; *)
(* due and done are given up with the first such thing.                    *)
(***************************************************************************)
EXTENDS HashTable

VARIABLES iter, lost   \* lost: it used a freed node or entry, or no index
ivars == <<vars, iter, lost>>

IterInit == Init /\ iter = NULL /\ lost = FALSE

WalkedFreed == IF iter.old # NULL THEN <<>> ELSE Entries(index[iter.i])   \* mutant
Walked == IF iter.old # NULL THEN iter.old ELSE Entries(index[iter.i])

\* From the next entry on
Rest ==
  IF iter.next \notin ToSet(Walked) THEN <<>>
  ELSE SubSeq(Walked, CHOOSE j \in DOMAIN Walked : Walked[j] = iter.next, Len(Walked))

\* The buckets after i that have entries
After(i) ==
  IF index = NULL THEN {} ELSE {b \in i + 1 .. index_size - 1 : Entries(index[b]) # <<>>}

\* The first entry of list, in bucket i, is handed to the callback: p_iter is
\* moved on before.  h is the iteration's history.
MovedAfter(list) == NULL   \* mutant
Moved(list) == IF Len(list) > 1 THEN list[2] ELSE NULL
Handed(i, list, old, h) ==
  iter' = [i |-> i, next |-> Moved(list), old |-> old,
           due |-> h.due \ {list[1]},
           done |-> h.done \cup (IF h.did = {} THEN {list[1]} ELSE {}),
           did |-> h.did]

Begin ==
  /\ iter = NULL /\ fault = "none" /\ entry_size > 0 /\ After(-1) # {}
  /\ LET i == Min(After(-1)) IN
     Handed(i, index[i], NULL, [due |-> ToSet(Stored), done |-> {}, did |-> {}])
  /\ UNCHANGED <<vars, lost>>

\* The callback, or the client between two iterations, calls an operation
Callback ==
  /\ Next /\ UNCHANGED lost
  /\ \/ iter = NULL /\ UNCHANGED iter
     \/ /\ iter # NULL
        /\ LET replaced == ret'[1] \in {"init", "rehash", "destroy"}
               old == IF replaced THEN Rest ELSE iter.old
               deleted == old = NULL /\ iter.next \in ToSet(Walked) \ InTable'
               did == iter.did
                        \cup (IF deleted THEN {"del"} ELSE {})
                        \cup (IF replaced THEN {"replaced"} ELSE {})
                        \cup (IF index' = NULL THEN {"no_index"} ELSE {})
           IN iter' = [iter EXCEPT !.old = old, !.did = did,
                         !.due = IF did = {} THEN @ \cap InTable' ELSE {},
                         !.done = IF did = {} THEN @ ELSE {}]

\* The callback returns, and the loops go on
Advance ==
  /\ iter # NULL /\ fault = "none" /\ UNCHANGED vars
  /\ \/ /\ iter.next # NULL
        /\ iter.next \notin ToSet(Walked) \/ heap[iter.next] = NULL
        /\ lost' = TRUE /\ UNCHANGED iter
     \/ /\ iter.next \in ToSet(Walked) /\ heap[iter.next] # NULL
        /\ Handed(iter.i, Rest, iter.old, iter)
        /\ UNCHANGED lost
     \/ /\ iter.next = NULL /\ After(iter.i) # {}
        /\ LET i == Min(After(iter.i)) IN Handed(i, index[i], NULL, iter)
        /\ UNCHANGED lost
     \/ /\ iter.next = NULL /\ index = NULL /\ iter.i + 1 < index_size
        /\ lost' = TRUE /\ UNCHANGED iter
     \/ /\ iter.next = NULL /\ After(iter.i) = {}
        /\ index # NULL \/ iter.i + 1 >= index_size
        /\ iter' = NULL /\ UNCHANGED lost

IterNext == ~lost /\ (Callback \/ Advance \/ Begin)
IterSpec == IterInit /\ [][IterNext]_ivars
-----------------------------------------------------------------------------
(* Properties *)

\* An iteration survives callbacks that set, delete what they are given, or
\* rehash the table; it does not when one deletes the very entry that comes
\* next, or leaves the table without an index (destroy, or a failed rehash).
IterationSafe == lost => iter.did \cap {"del", "no_index"} # {}

\* As long as the table keeps its index and the entry that comes next, every
\* entry that stays in the table is handed out, and none twice.
EachOnce ==
  iter # NULL /\ iter.did = {} =>
    /\ iter.next = NULL /\ After(iter.i) = {} => iter.due = {}
    /\ iter.next \notin iter.done
=============================================================================
