----------------------------- MODULE HashTable -----------------------------
(***************************************************************************)
(* src/src/structs/hash_table.c: a hash table whose buckets are linked     *)
(* lists of entries.                                                       *)
(*                                                                         *)
(* A bucket is NULL until something is stored in it; from then on it is a  *)
(* linked list, which del may leave empty.  The table uses its lists only  *)
(* through push_tail and del_at, and reads them from the head: LinkedList  *)
(* shows that a list so used implements ListSpec, so a bucket is the       *)
(* sequence of its entries.  An entry is a block of the heap: its address  *)
(* may be NULL (malloc failed) and comes back once freed.                  *)
(*                                                                         *)
(* fault names the undefined behaviour the program has run into, and then  *)
(* it makes no further step.                                               *)
(*                                                                         *)
(* events is a history variable read by no guard and by no update of       *)
(* another variable: what has happened that later calls may suffer from.   *)
(***************************************************************************)
EXTENDS Integers, FiniteSets, SequencesExt

CONSTANTS
  Addr,       \* the addresses malloc can return for an entry
  Key, Value,
  NULL,
  Hash,       \* of a key for an index size: the client's key_hash, or murmur3
              \* with the seed of this run
  IndexSize,  \* the index sizes a client asks for
  MaxEntries  \* bound on entry_size

ASSUME NullAssumption ==
  NULL \notin Addr /\ NULL \notin Key /\ NULL \notin Value
ASSUME HashAssumption == Hash \in [Key -> [IndexSize -> Nat]]
ASSUME SizeAssumption == IndexSize \subseteq Nat /\ MaxEntries \in Nat

VARIABLES
  index,       \* NULL, or the buckets 0 .. index_size - 1
  index_size, entry_size,
  hashes,      \* key_hash has been set
  heap,        \* the entry at each address, NULL where there is none
  held,        \* the entries of init_entry the client has not handed over
  fault,
  ret, args,   \* the last operation with its answer, its arguments
  events

table == <<index, index_size, entry_size, hashes>>
vars == <<index, index_size, entry_size, hashes, heap, held, fault, ret, args,
          events>>

\* own: the entry's value is a copy made by init_entry, not the client's
Entry == [key : Key, value : Value, own : BOOLEAN, must_destroy : BOOLEAN]

\* NULL is told from an entry, a list and an index
ASSUME PointerAssumption ==
  /\ NULL \notin Entry /\ NULL \notin Seq(Addr)
  /\ \A n \in IndexSize : NULL \notin [0 .. n - 1 -> {NULL} \cup Seq(Addr)]

Faults == {"none", "no_index", "bad_size", "no_list", "empty_list", "freed_node",
           "bad_free"}
Events == {"set", "set_entry", "del", "rehash", "oom", "no_index"}

Init ==
  /\ index = NULL /\ index_size = 0 /\ entry_size = 0 /\ hashes = FALSE
  /\ heap = [a \in Addr |-> NULL] /\ held = {}
  /\ fault = "none" /\ ret = <<"init", TRUE>> /\ args = <<>> /\ events = {}

\* How a call ends; there are no calls after a fault
Answer(op, r) == fault = "none" /\ ret' = <<op, r>> /\ UNCHANGED fault
Crash(op, why) ==
  /\ fault = "none" /\ fault' = why /\ ret' = <<op, NULL>>
  /\ UNCHANGED <<table, heap, held>>
Note(es) == events' = events \cup es

-----------------------------------------------------------------------------
(* The index *)

Bucket == 0 .. index_size - 1
EagerIndex(n) == [b \in 0 .. n - 1 |-> <<>>]   \* mutant
EmptyIndex(n) == [b \in 0 .. n - 1 |-> NULL]

\* find_index divides by index_size - 1 what key_hash answers.  With an index_size
\* of 0 the bucket it finds is past the end of the index.
Indexable == hashes /\ index_size >= 2
Slot(k, n) == Hash[k][n] % (n - 1)
BucketOf(k) == index[Slot(k, index_size)]

Entries(list) == IF list = NULL THEN <<>> ELSE list

\* The entries in the order iter meets them
Stored ==
  IF index = NULL THEN <<>>
  ELSE FlattenSeq([i \in 1 .. index_size |-> Entries(index[i - 1])])

\* The entries with key k in a list that holds entries
FirstMatching(list, k) ==   \* mutant
  {a \in ToSet(list) : heap[a].key = k /\ a = list[1]}
Matching(list, k) == {a \in ToSet(list) : heap[a].key = k}

\* The entries of list that are in those, in the order of the list
Only(list, those) ==
  LET only[i \in 0 .. Len(list)] ==
        IF i = 0 THEN <<>>
        ELSE IF list[i] \in those THEN Append(only[i - 1], list[i])
        ELSE only[i - 1]
  IN  only[Len(list)]

\* hash_table_get_entry
Found(k) == IF index = NULL THEN {} ELSE Matching(Entries(BucketOf(k)), k)

-----------------------------------------------------------------------------
(* The operations *)

\* hash_table_init, called on a table that has no index
Setup(n) ==
  /\ index = NULL
  /\ index_size' = n /\ entry_size' = 0
  /\ \/ index' = EmptyIndex(n) /\ hashes' = TRUE /\ Answer("init", TRUE)
     \/ index' = NULL /\ hashes' = FALSE /\ Answer("init", FALSE)
  /\ UNCHANGED <<heap, held, events>>

InitEntry(k, v) ==
  /\ \/ \E a \in Addr :
          /\ heap[a] = NULL
          /\ heap' = [heap EXCEPT ![a] =
               [key |-> k, value |-> v, own |-> TRUE, must_destroy |-> TRUE]]
          /\ held' = held \cup {a}
          /\ Answer("init_entry", TRUE)
     \/ UNCHANGED <<heap, held>> /\ Answer("init_entry", FALSE)
  /\ UNCHANGED <<table, events>>

DestroyEntry(a) ==
  /\ heap' = [heap EXCEPT ![a] = NULL] /\ held' = held \ {a}
  /\ Answer("destroy_entry", TRUE)
  /\ UNCHANGED <<table, events>>

\* hash_table_set_entry, given that the entry at address a is e
PutEntry(op, a, e) ==
  LET b == Slot(e.key, index_size)
      given == [heap EXCEPT ![a] = e]
      same == Matching(Entries(index[b]), e.key)
  IN
  \/ /\ index = NULL
     /\ heap' = given /\ UNCHANGED <<table, held>>
     /\ Note({op, "no_index"}) /\ Answer(op, FALSE)
  \/ index # NULL /\ ~Indexable /\ Note({op}) /\ Crash(op, "bad_size")
  \/ /\ index # NULL /\ Indexable /\ index[b] = NULL
     /\ Note({op}) /\ Crash(op, "no_list")
  \/ /\ index # NULL /\ Indexable /\ index[b] = <<>>
     /\ Note({op}) /\ Crash(op, "empty_list")
  \/ /\ index # NULL /\ Indexable /\ index[b] # <<>>
     /\ \E m \in same :
          heap' = [given EXCEPT ![m].value = e.value, ![m].own = e.own, ![a] = NULL]
     /\ held' = held \ {a}
     /\ UNCHANGED table
     /\ Note({op}) /\ Answer(op, TRUE)
  \/ /\ index # NULL /\ Indexable /\ index[b] # <<>> /\ same = {}
     /\ entry_size < MaxEntries
     /\ entry_size' = entry_size + 1
     /\ heap' = given
     /\ UNCHANGED <<index_size, hashes>>
     /\ \/ /\ index' = [index EXCEPT ![b] = Append(Entries(@), a)]
           /\ held' = held \ {a}
           /\ Note({op}) /\ Answer(op, TRUE)
        \/ /\ index' = [index EXCEPT ![b] = Entries(@)]
           /\ UNCHANGED held
           /\ Note({op, "oom"}) /\ Answer(op, FALSE)

SetEntry(a) == PutEntry("set_entry", a, heap[a])

\* hash_table_set looks the key up itself before it makes an entry
Set(k, v) ==
  \/ index # NULL /\ ~Indexable /\ Note({"set"}) /\ Crash("set", "bad_size")
  \/ /\ index # NULL => Indexable
     /\ \E a \in Found(k) :
          heap' = [heap EXCEPT ![a].value = v, ![a].own = FALSE]
     /\ UNCHANGED <<table, held>>
     /\ Note({"set"}) /\ Answer("set", TRUE)
  \/ /\ index # NULL => Indexable
     /\ Found(k) = {}
     /\ \/ UNCHANGED <<table, heap, held>> /\ Note({"set"}) /\ Answer("set", FALSE)
        \/ \E a \in Addr :
             /\ heap[a] = NULL
             /\ PutEntry("set", a,
                  [key |-> k, value |-> v, own |-> FALSE, must_destroy |-> FALSE])

Get(k) ==
  /\ UNCHANGED events
  /\ \/ index # NULL /\ ~Indexable /\ Crash("get", "bad_size")
     \/ /\ index # NULL => Indexable
        /\ UNCHANGED <<table, heap, held>>
        /\ \/ Found(k) = {} /\ Answer("get", NULL)
           \/ \E a \in Found(k) : Answer("get", heap[a].value)

\* del reads the next pointer of the node linked_list_del_at has just freed.
\* del_at set that pointer to NULL first: if the memory is as it was, the loop
\* ends, and no other entry has the key.  The entry itself is not freed.
UncountedOnce(gone) == entry_size - 1   \* mutant
UncountedNone(gone) == entry_size       \* mutant
Uncounted(gone) == entry_size - Cardinality(gone)

Del(k) ==
  LET b == Slot(k, index_size)
      gone == Found(k)
  IN
  \/ /\ index = NULL
     /\ UNCHANGED <<table, heap, held, events>> /\ Answer("del", FALSE)
  \/ index # NULL /\ ~Indexable /\ UNCHANGED events /\ Crash("del", "bad_size")
  \/ /\ index # NULL /\ Indexable
     /\ index' = IF Entries(index[b]) = <<>> THEN index
                 ELSE [index EXCEPT ![b] = Only(@, ToSet(@) \ gone)]
     /\ entry_size' = IF Entries(index[b]) = <<>> THEN entry_size ELSE Uncounted(gone)
     /\ Note(IF gone # {} THEN {"del"} ELSE {})
     /\ UNCHANGED <<index_size, hashes, heap, held>>
     /\ Answer("del", gone # {})
  \/ /\ index # NULL /\ Indexable /\ gone # {}
     /\ Note({"del"}) /\ Crash("del", "freed_node")

Size == UNCHANGED <<table, heap, held, events>> /\ Answer("size", entry_size)

\* hash_table_iter, as keys and values call it: an entry_size of 0 ends it.
\* Without an index they return -1 (NULL here).
Visited == IF entry_size = 0 THEN <<>> ELSE Stored
Collect(op, field) ==
  /\ UNCHANGED <<table, heap, held, events>>
  /\ \/ index = NULL /\ Answer(op, NULL)
     \/ index # NULL /\ Answer(op, [i \in DOMAIN Visited |-> heap[Visited[i]][field]])
Keys == Collect("keys", "key")
Values == Collect("values", "value")

\* The index of n buckets that the first entries of the old one are put into
StaleSlots(entries, n) ==   \* mutant
  [b \in 0 .. n - 1 |->
    LET here == {a \in ToSet(entries) : Slot(heap[a].key, index_size) = b}
    IN  IF here = {} THEN NULL ELSE Only(entries, here)]
Placed(entries, n) ==
  [b \in 0 .. n - 1 |->
    LET here == {a \in ToSet(entries) : Slot(heap[a].key, n) = b}
    IN  IF here = {} THEN NULL ELSE Only(entries, here)]

\* Each entry is set again and counted again.  Whatever fails, the old index is
\* not put back.
Rehash(n) ==
  LET old == Stored
      moves == IF old = <<>> THEN {} ELSE {"rehash"}
  IN
  \/ /\ index' = NULL
     /\ UNCHANGED <<index_size, entry_size, hashes, heap, held>>
     /\ Note(moves \cup {"oom"}) /\ Answer("rehash", FALSE)
  \/ /\ index = NULL /\ index_size > 0
     /\ Note(moves) /\ Crash("rehash", "no_index")
  \/ /\ old # <<>> /\ n < 2
     /\ Note(moves) /\ Crash("rehash", "bad_size")
  \/ /\ old # <<>> /\ n >= 2
     /\ Note(moves) /\ Crash("rehash", "no_list")
  \/ /\ index = NULL => index_size = 0
     /\ old # <<>> => n >= 2
     /\ entry_size + Len(old) =< MaxEntries
     /\ index_size' = n /\ UNCHANGED <<hashes, heap, held>>
     /\ \/ /\ index' = IF old = <<>> THEN EmptyIndex(n) ELSE Placed(old, n)
           /\ entry_size' = entry_size + Len(old)
           /\ Note(moves) /\ Answer("rehash", TRUE)
        \/ \E i \in DOMAIN old :
             LET done == Placed(SubSeq(old, 1, i - 1), n) IN
             /\ index' = [done EXCEPT ![Slot(heap[old[i]].key, n)] = Entries(@)]
             /\ entry_size' = entry_size + i
             /\ Note(moves \cup {"oom"}) /\ Answer("rehash", FALSE)

Kept(gone) == heap   \* mutant
Freed(gone) == [a \in Addr |-> IF a \in gone THEN NULL ELSE heap[a]]

\* An entry with must_destroy set has its value freed
Destroy ==
  LET gone == ToSet(Visited) IN
  /\ UNCHANGED events
  /\ \/ /\ index = NULL
        /\ UNCHANGED <<table, heap, held>> /\ Answer("destroy", FALSE)
     \/ /\ index # NULL
        /\ \E a \in gone : heap[a].must_destroy /\ ~heap[a].own
        /\ Crash("destroy", "bad_free")
     \/ /\ index # NULL
        /\ \A a \in gone : heap[a].must_destroy => heap[a].own
        /\ index' = NULL /\ entry_size' = 0 /\ heap' = Freed(gone)
        /\ UNCHANGED <<index_size, hashes, held>>
        /\ Answer("destroy", TRUE)

Next ==
  \/ \E n \in IndexSize : args' = <<n>> /\ (Setup(n) \/ Rehash(n))
  \/ \E k \in Key, v \in Value : args' = <<k, v>> /\ (Set(k, v) \/ InitEntry(k, v))
  \/ \E a \in held :
       /\ args' = <<heap[a].key, heap[a].value>>
       /\ SetEntry(a) \/ DestroyEntry(a)
  \/ \E k \in Key : args' = <<k>> /\ (Get(k) \/ Del(k))
  \/ args' = <<>> /\ (Size \/ Keys \/ Values \/ Destroy)

Spec == Init /\ [][Next]_vars
-----------------------------------------------------------------------------
(* Properties *)

InTable == ToSet(Stored)

\* index is NULL or has index_size buckets of entries, and entry_size, which
\* del subtracts from, never drops below 0 (it would wrap to SIZE_MAX).
TypeOK ==
  /\ index_size \in Nat /\ entry_size \in 0 .. MaxEntries
  /\ index = NULL \/ (DOMAIN index = Bucket
                      /\ \A b \in Bucket : index[b] \in {NULL} \cup Seq(Addr))
  /\ hashes \in BOOLEAN
  /\ heap \in [Addr -> Entry \cup {NULL}]
  /\ held \in SUBSET Addr
  /\ fault \in Faults /\ events \in SUBSET Events

\* Every entry of the table is allocated, is not also the client's, and is in
\* the bucket its key hashes to; no two have the same key.  This holds also
\* between a rehash that failed halfway and whatever the client does next.
WellPlaced ==
  LET stored == Stored IN
  /\ \A a \in ToSet(stored) :
       /\ heap[a] # NULL /\ a \notin held
       /\ Indexable /\ a \in ToSet(Entries(BucketOf(heap[a].key)))
  /\ \A i, j \in DOMAIN stored : heap[stored[i]].key = heap[stored[j]].key => i = j

\* An array of hash_table_size() pointers is long enough for keys and values;
\* until a rehash or a failed allocation it is exactly as long as they need.
Counted ==
  /\ Len(Stored) =< entry_size
  /\ events \cap {"rehash", "oom"} = {} => Len(Stored) = entry_size

\* A table meets an empty list only after del or a failed allocation, and frees
\* a client's value only if both hash_table_set and hash_table_set_entry have
\* been used on it.
FaultsExplained ==
  /\ fault = "empty_list" => events \cap {"del", "oom"} # {}
  /\ fault = "bad_free" => {"set", "set_entry"} \subseteq events

\* An entry that is neither in the table nor in the client's hands was deleted,
\* was set in a table without an index, or was lost to a failed allocation:
\* nothing else, destroy included, leaks one.
NothingLost ==
  events \cap {"del", "oom", "no_index"} = {} =>
    {a \in Addr : heap[a] # NULL} \subseteq InTable \cup held

\* Every call that returns does to the map what MapSpec says and answers from
\* it, except a rehash that fails, and hash_table_size once entry_size is off.
MapOf(entries) ==
  [k \in {e.key : e \in entries} |-> (CHOOSE e \in entries : e.key = k).value]
M == INSTANCE MapSpec WITH map <- MapOf({heap[a] : a \in InTable})
Exempt ==
  \/ ret' = <<"rehash", FALSE>>
  \/ ret'[1] = "size" /\ events \cap {"rehash", "oom"} # {}
ImplementsMapSpec == M!Init /\ [][fault' = "none" /\ ~Exempt => M!Next]_vars

\* hash_table.h calls entry_size the "size of the total stored hash table
\* entries": as long as memory lasts it counts the entries stored.
SizeCountsEntries == "oom" \notin events => entry_size = Len(Stored)

\* hash_table.h says hash_table_set returns true or false: on a table that has
\* been set up with an index of at least 2, and as long as memory lasts, it does.
SetReturns ==
  ret[1] = "set" /\ Indexable /\ "oom" \notin events => fault \in {"none", "no_list"}
=============================================================================
