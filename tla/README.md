# Lupra in TLA+

Lupra (`src/`) is a C library of data structures: a linked list, an array list,
a hash table, a heap, a bit array, a bloom filter, and a few algorithms and
network helpers. This directory holds TLA+ models of its components, the TLC
configurations that check them on small instances, and TLAPS proofs of their
main invariants for instances of any size.

No component starts a thread, waits for one or persists anything, and
`src/README.md` says that the structures are not thread safe. What makes the
library hard is elsewhere:

- **pointers**: freed nodes that something still points at, addresses malloc
  hands out a second time, loops over links that may not end;
- **allocation failures** in the middle of an operation that has already
  changed something;
- **size_t arithmetic**: `pos + 1`, `capacity * sizeof(void*)`, `% (index_size - 1)`;
- **long sequences of legal calls** after which two fields that should agree
  (size and links, capacity and block, count and entries) do not;
- **callbacks** that call the structure which is being iterated over;
- **static variables** that separate threads, each with structures of its own,
  share without knowing it.

In most models one action is one whole call, with every outcome its allocations
can have, and the interesting behaviour is in the sequences of calls. Loops get
a step per round where that is what the properties are about: the two heapifies,
the binary search, the iterations with callbacks, the functions that several
threads may be in at once. Undefined behaviour (a freed pointer followed, a cell
outside the block, a division by zero, an endless loop) sets a variable `fault`,
after which the model takes no step: what C does from there on is anything. The
properties then say *which* calls can get there, and that everything is right
until they do.

## 1. Inventory

| component | state | operations | uses |
|---|---|---|---|
| linked list, `structs/linked_list.c` | head, tail, size; value/prev/next of every node | insert_at, get_at, del_at, head, push_head, pop_head, tail, push_tail, pop_tail, forward_iter, backward_iter, destroy | malloc/free; iteration callbacks |
| array list, `structs/array_list.c` | size, capacity, one block of cells | init, insert_at, push/pop at both ends, get_at, set_at, del_at, del_value, index_of, iter, resize, destroy, binary_search_index_of | malloc/realloc/free; callbacks |
| hash table, `structs/hash_table.c` | index (array of linked lists), index_size, entry_size, key_hash/key_cmp; a static `hash_seed` | init, init_entry, destroy_entry, set, set_entry, get, del, iter, keys, values, size, rehash, destroy | linked list for the buckets, murmur3 |
| heap, `structs/heap.c` | size, type, an array list | init, push, pop, peek, destroy | array list (set_at, get_at, head) |
| bit array, `structs/bit_array.c` | size_bits, words | init, set, clear, test, destroy | |
| bloom filter, `structs/bloom_filter.c` | hash_count, a bit array | init, add, check, destroy | bit array, murmur3 |
| algorithms, `algos/` | none | `array_binary_search` macro, murmur3 | array list uses the macro |
| network helpers, `utils/net_utils.c` | strtok's static position; the static buffer of ether_ntoa | IPv4 to and from long, mask match, MAC to string | libc |
| values, logging, start-up | `utils/value.c`, `utils/log.h`, `library.c` | comparators; the zlog logger | zlog |

What makes each correct, and what is hard about it:

- **linked list**: both directions of links thread the same nodes, `size` counts
  them, and no node is leaked or used after `free`. `pop_head` does not clear
  the new head's `prev`, nor `tail` when it empties the list; `insert_at` links
  the new node to the list but not the list to the new node. Both leave a list
  that *some* operations still work on; which ones, and until when, is the
  question.
- **array list**: `capacity` is the number of cells of the block, `size` does not
  exceed it, the cells below `size` have been written. `shift_right` makes room
  for `pos` rather than for `size`; a byte count may wrap; `realloc(p, 0)` frees;
  a failed resize must put the old capacity back.
- **hash table**: an entry is in the bucket its key hashes to, once; `entry_size`
  is their number; nothing but what `del` unlinks is lost. Allocations fail
  between two changes, `rehash` counts entries twice and may stop halfway, an
  empty bucket is not the same as a missing one.
- **heap**: the root is the least (greatest) value. Entries above `size` stay in
  the array list under it, and `heapify_down` reads one of them.
- **bit array / bloom filter**: bits are kept apart, and indices stay inside; no
  false negatives. The word of bit k is found with `size_bits` where the width
  of a word is meant, a failed init leaves a dangling pointer, a size may round
  or truncate to 0.
- **algorithms**: the do-while search finds what is there and halves its window,
  for an empty array too.
- **network helpers**: a call answers what its arguments say; hidden static
  state is shared by all threads.

`PROJECT.json` lists the hazards one by one, at their lines, with the properties
that would catch each.

## 2. Modules

| module | models | against |
|---|---|---|
| `ListSpec` | what the headers promise of a list: a sequence, each operation's effect and answer | |
| `LinkedList` | `linked_list.c`, pointer by pointer | `ListSpec` |
| `ListIteration` | the iterations of `linked_list.c`, with callbacks that call the list; extends `LinkedList` | |
| `ArrayList` | `array_list.c`, block and cells | `ListSpec` |
| `ArraySearch` | the binary search of `algos/array.h` on an array list; extends `ArrayList` | `ListSpec` |
| `MapSpec` | what `hash_table.h` promises: a map from keys to values | |
| `HashTable` | `hash_table.c`, over buckets that are sequences of entry addresses | `MapSpec` |
| `TableIteration` | `hash_table_iter`, with callbacks that call the table; extends `HashTable` | |
| `QueueSpec` | what `heap.h` promises: a priority queue | |
| `Heap` | `heap.c`, and the comparison of `value.c` | `QueueSpec` |
| `BitArray`, `BloomFilter` | `bit_array.c`, and `bloom_filter.c` on top of it | |
| `Calls` | threads in calls of several steps | |
| `NetUtils`, `HashSeed` | `net_utils.c`, and `default_key_hash` of `hash_table.c`, as such calls | |
| `Threads` | composes the two | |
| `MCLinkedList`, `MCArrayList`, `MCHashTable`, `MCHeap`, `MCBloomFilter`, `MCThreads` | instances for TLC | |
| `SeqLemmas` | lemmas on sequences, sums, digits and least elements that the proofs share | |
| `LinkedListProofs` | proofs about `LinkedList` and `ListIteration` | |
| `ArrayListProofs`, `ArraySearchProofs` | proofs about `ArrayList`, and about `ArraySearch` on top of them | |
| `HashTableProofs` | proofs about `HashTable` and `TableIteration` | |
| `HeapProofs`, `BloomFilterProofs`, `ThreadsProofs` | proofs about `Heap`; `BitArray` and `BloomFilter`; `NetUtils`, `HashSeed` and `Threads` | |

In every model but the threads' `ret` is the last operation with its answer and
`args` its arguments, so that the refinement of `ListSpec`, `MapSpec` or
`QueueSpec` compares each call with what the header promises for *these*
arguments.

Operators marked `\* mutant` are not part of the models: each is a plausible
mistake in the definition that follows it, kept to show that some property
notices it.

### LinkedList

`head`, `tail`, `size` are the fields of `linked_list`; `value`, `prev`, `next`
are functions from addresses, the fields of the nodes; `live` is the set of
addresses malloc has returned and free has not taken. A push may find malloc
failing, or be given *any* address that is not live, so a freed address comes
back while a stale pointer still holds it. A pointer to a node that is not live
may be compared but not followed. The fields of a dead node are kept NULL: no
step reads them.

The operations follow the C functions in their order: which fields are set
first decides which stale pointers hit the new node. A walk along links is
`Walk`; a do-while iteration is complete when it meets NULL after at most as
many nodes as there are addresses, and endless otherwise. `del_at` answers from
the *next* field alone and so is not misled by `size`. `destroy` frees while it
iterates, as the code does with the next pointer read first.

Three history variables, read by no guard: `used`, the operations called so far
among those that change a list that goes on; `chain`, the nodes the calls have
linked, head first; `reckless`, whether *after a pop_head* one of the operations
that write through `tail` or `prev` (`Writing`: `del_at`, `push_tail`,
`pop_tail`) has changed the list. The order matters: a list that was pushed to
at its tail and is then only popped and pushed at its head is not reckless, nor
is one on which the trusting call failed. From a reckless change on no claim is
made about the links and `chain` is dropped.

In this module an iteration is one step and its callback only reads the list.
`linked_list_init` on a list that already holds nodes, which leaks them by
design, is not an action.

### ListIteration

`iter` is the iteration that waits for its callback to return: the direction and
`next`, the pointer the loop has read before it called. Between `Begin` and the
last `Advance` the callback may call any operation of `LinkedList`. Following
`next` when its node has been freed sets `lost`. The history says which nodes
are still `due` and which are `done`, and whether a callback has freed the node
`next` points at (`gone`). As with `chain`, the model follows an iteration only
while the links it reads are those the calls have made (`Trusted`).

### ArrayList

`array` is the block as a sequence, `Len(array)` the cells malloc or realloc
really gave, which after a wrap differs from `capacity`. A cell holds a value,
NULL, or JUNK when realloc added it and nothing has written to it. `block` tells
a NULL pointer from a live block and from one that `realloc(p, 0)` has freed.
Sizes are `size_t` of width SIZE_MAX; `WrapAt` cells are 0 bytes.

`Resized(n)` is the set of outcomes of `array_list_resize(n)`: refused, already
that size, failed (old capacity put back), granted, or freed under the list.
The operations that grow the list pick one of them. `misused` is a history
variable: the requests that no block can satisfy (0 cells, a wrapped count) and
an `init` whose failure the client ignored; destroying the list clears it.

`array_list_init` is called on a list that holds no block. `push_head` and
`push_tail` are `insert_at` at 0 and at `size`, `del_value` is `index_of` and
`del_at`, as in the code.

### ArraySearch

`search` is the binary search under way, its value and its window; `Probe` is
one round of the do-while, which reads cell `Mid` even when the window is empty.
Pointers are compared by `Address`, an assumption of this module alone; a JUNK
cell compares in every way. The code halves in doubles, which is exact up to
2^53 cells. No other call runs during a search.

### HashTable

An entry is an address of `heap`; a bucket is NULL or the sequence of its
entries. Representing a bucket by a sequence is justified by the first model:
the table calls only `push_tail` and `del_at` on its lists and reads them from
the head, and `LinkedList` implements `ListSpec` for every client that uses
neither `pop_head` nor `insert_at`. An empty bucket (`<<>>`) is not a missing
one (NULL): `set_entry` takes the head of any list that is there.

`own` and `must_destroy` tell apart the entries made by `init_entry`, which own
copies of key and value, from those of `hash_table_set`, which hold the client's
pointers. `held` are the entries the client has made and not handed over.
`Hash` is the hash function of the run: the client's, or murmur3 with the seed
of this process. It is given the index size too (`default_key_hash` takes its
hash modulo `index_size - 1`), so a key may hash differently in each index.
`Rehash` stops after any number of moved entries when an
allocation fails. `events` is a history variable: what has happened that a later
call may suffer from. `fault` names the kind of undefined behaviour.

`Only(list, those)` is the list without the entries that are not in `those`, in
order: what `del` leaves of a bucket and what `rehash` puts into one.

In this module callbacks only read the table; `destroy_entry` is called on
entries the client still holds; `init` on a table without an index.

### TableIteration

As `ListIteration`, over the buckets: `i` is the bucket, `next` the entry of the
node `p_iter` holds while the callback runs. `del` frees nodes; `rehash` and
`destroy` do not, so once one of them has replaced the index the iteration walks
the `old` list to its end and then goes on in whatever index there is. `lost` is
a freed node or entry used, or an index read through NULL.

### QueueSpec and Heap

The queue is a bag: values that compare equal leave it in any order. `room` is
how many values it holds without asking for memory; only beyond it may a push
fail. `Heap` keeps the array list under the heap as `cells` (those it counts,
the popped ones too) and `capacity`. The block behind it has `Slots(capacity)`
cells: `heap_init` rounds the capacity it is asked for and passes it on, and
`capacity * sizeof(void*)` wraps as it does in `ArrayList`. `Push` is
`array_list_set_at` at `size`: it may fail to grow, and it leaves the block (a
fault) when `RoomFor(size)`, the capacity it has seen to, is backed by fewer
cells than it says. `cur` is the push or pop under way: `Push` and `Pop` do what
comes before the first heapify, and each recursion of `heapify_up` or
`heapify_down` is a step. In the mapping a value being pushed is not yet in the
queue, a value being popped still is.

### BitArray and BloomFilter

A word is the set of its bits that are 1. `k % size_bits` may be the width of a
word or more; to shift by that is undefined, and `wide` is what this processor
does, take the amount modulo the width (as x86 and AArch64 do for 32 bits) or
shift everything out. `kept` is history: the bits set below `size_bits`, until
they or one that is the same bit are cleared.
`BloomFilter` extends it: the one bit array of the model is the client's until a
filter takes it. `hash1` and `hash2` of a key are constants, and everything
after them is the code's: the combination in 32 bits, and the modulus, which is
`size_bits` cut to a `uint32_t`.

### Calls, NetUtils, HashSeed, Threads

A call is a record with its program counter; a step is what lies between two
uses of shared state. strtok is modelled as the C libraries implement it: one
static position for all threads, into the buffer of whoever called it first
last. An address as a string is the sequence of the numbers between its dots.
Every call carries `clean`, history: no other thread has called strtok between
two of its tokens (or ether_ntoa before its string was read), and no strdup or
snprintf of its own has failed: the two printing functions then answer NULL, and
ether_ntoa may have spoilt its buffer. In `HashSeed` a compiled
`default_key_hash` may use the seed it set or read the variable again.

## 3. What is checked

Every cfg sets `CHECK_DEADLOCK FALSE`: after a fault there is no further step.

Fairness is assumed in two runs, for their `CallsEnd`. In `heap`, `WF(Heapify)`:
a call that has begun goes on, as code without waiting does. In `threads`, weak
fairness of each thread's `Step`: no step waits for another thread, so it is
always enabled, and the system schedules every thread; nothing makes a thread
begin a call. The two runs check liveness without VIEW or SYMMETRY. In the other
models a call is one step, and an endless loop is a fault (`Endless`).

| run | instance | checks |
|---|---|---|
| `linked_list` | 3 node addresses, 2 values, positions 0..3 | `TypeOK`, `ForwardLinked`, `BackwardLinked`, `NothingLost`, `IterationSafe`, `HandedOnce`, `FaultsOnlyPastPopHead`, `ImplementsListSpec` |
| `linked_list_queue` | the same | `UsableAsQueue`: violated |
| `linked_list_insert` | the same | `InsertAtInserts`: violated |
| `array_list` | 2 values, SIZE_MAX = 63, 8 cells wrap, capacities 0, 1, 2, 3, 4, 8, 9, positions 0..4 and SIZE_MAX, size up to 5 | `TypeOK`, `BlockFits`, `ValuesFit`, `FaultsOnlyWhenFull`, `SearchFinds`, `SearchHalves`, `ImplementsListSpec` |
| `array_list_full` | the same | `GrowsAsDocumented`: violated |
| `hash_table` | 2 entry addresses, 3 keys, 2 values, index sizes 1, 2, 3, entry_size up to 4 | `TypeOK`, `WellPlaced`, `Counted`, `FaultsExplained`, `NothingLost`, `IterationSafe`, `EachOnce`, `ImplementsMapSpec` |
| `hash_table_size` | the same | `SizeCountsEntries`: violated |
| `hash_table_set` | the same | `SetReturns`: violated |
| `heap` | 3 pointers, two of them to equal numbers, and NULL; SIZE_MAX = 63, 8 cells wrap, capacities 0, 3, 8, 9; up to 6 values | `TypeOK`, `HeapOrder`, `StaleRightChild`, `OverrunsOnlyWrapped`, `ImplementsQueueSpec`, `HeapifyHalves`, `CallsEnd` |
| `bits` | words of 4 bits, a size_t of 6 bits, a uint32_t of 5; 7 sizes, 8 bits, 3 keys | `TypeOK`, `OneWordOfBits`, `FaultsOutside`, `NoFalseNegatives`, `FilterFaults` |
| `bit_array_bits` | sizes 5 and 12 (two and three words), otherwise the same | `BitsAsDocumented`: violated |
| `threads` | 2 threads, addresses of 2 octets of 2 bits | `TypeOK`, `AnswersRight`, `FaultsOnlyShared`, `SeedsAgree`, `CallsEnd` |

**Linked list.** However calls are mixed, head and next thread exactly the nodes
the calls have linked until, after a pop_head, an operation that trusts what it
leaves stale changes the list; tail and prev do so until the first pop_head;
until then nothing leaks without insert_at; and the first undefined access comes
only after pop_head, in a call that follows tail or prev itself (`del_at`,
`push_tail`, `pop_tail`, `tail`, `backward_iter`) or after one that has changed
the list through them. So a list is safe as a stack, whatever was done to it
before, and until such a change `head`, `get_at` and `forward_iter` never go
wrong. Without pop_head and insert_at every call does and answers what
`ListSpec` says. An iteration hands out every node that stays, once, whatever
its callbacks do (delete the node they are given, add nodes, destroy the list),
unless one frees the node that comes next: only then is freed memory read.
`UsableAsQueue` states `linked_list.h:19` ("can efficiently be used as a queue
or a stack") of a client whose only changes are push_tail and pop_head. The
counterexample is push_tail, pop_head, push_tail: the second push writes through
the freed tail. When malloc returns the very address that was freed, nothing
crashes: the new node is made to point at itself, and `head` stays NULL.
`InsertAtInserts` states `linked_list.h:53`: after an insert_at `size` counts a
node that no iteration meets.

**Array list.** For a client that asks for what a block can hold, the block has
`capacity` cells after every failure, all stored values are inside it and
written, and the only calls that leave it are an insertion into a list without
cells and an insertion before the end of a full list; everything that returns is
as in `ListSpec`. A binary search of a sorted list finds a value that is there,
duplicates and NULLs included, and at most half of its window is left after each
round, whatever the cells hold. Of an *empty* list `SearchFinds` claims nothing:
the do-while reads cell 0, and in a list whose last item was deleted it answers
0, where `array_list.h:77` says "Index or -1 if not found"; `ListSpec` allows
it. `GrowsAsDocumented` states `array_list.h:16` ("automatically resized to
accommodate"): push_head on a full list writes `array[capacity]`. A capacity
whose byte count wraps, which the properties exempt (`misused`), is granted by
`array_list_init` with fewer cells than it says.

**Hash table.** Entries stay where their keys hash to, a key has one entry, the
count never falls below the number of entries (so that arrays of
`hash_table_size()` pointers are long enough for `keys` and `values`), two of
the six kinds of fault have the causes named in `FaultsExplained` (an empty
list, a client's value freed; nothing is claimed of the other four, which every
call on an index of size 0 or 1, rehash without an index, failed malloc of a
list and read after a free by del can meet), only `del`, a failed allocation and
a table without index lose entries, and every call that returns is as in
`MapSpec`, a failed rehash and the count it has spoilt excepted. An iteration
survives callbacks that set, delete what they are given or rehash; it does not
survive the deletion of the very next entry, a destroy, or a rehash that loses
the index. It hands out each entry once unless the index is replaced under it:
then an entry may come twice. `SizeCountsEntries` states `hash_table.h:64`:
rehash counts every entry a second time. `SetReturns` states `hash_table.h:149`:
after `del` has emptied a bucket, the next set of a key of that bucket
dereferences NULL.

**Heap.** After every level of heapify only the node in hand can be out of
order, and its children are in order with its parent. A pop compares with a cell
past the heap when the last parent has one child; that cell always holds the
value on its way down, so it is never swapped in. The heap implements
`QueueSpec` for both types, with equal and NULL values; a push fails only when
the cells are used up. It writes past the block only if the client has asked for
so large a capacity that its byte count wraps (`OverrunsOnlyWrapped`); the
capacities that pushes make on their own have their cells. Heapify recurses no
deeper than the tree is, and every push and pop ends. A heap that is destroyed
keeps its size, so a pop of it dereferences NULL. The refinement is claimed of
every call on an initialised heap whose byte count does not wrap, and of every
other call that does not go wrong.

**Bit array and Bloom filter.** An array of any size keeps apart as many bits as
one word has: where shifts wrap, bits equal modulo 32 are one bit; where they
drop, the bits from 32 on are never set. Bits below `size_bits` never lead out
of the array. `BitsAsDocumented` states `bit_array.h:26`, `:43` ("Max items that
can be stored in the bit array (measured in bits)") and `:55` ("will wrap w/
modulo size_bits"): an array has `size_bits` bits, k is bit `k % size_bits`, and
to set or clear it changes no other. In an array of two words, setting bit 0
sets another bit too where shifts wrap; a k of `size_bits` or more leads to word
`k / size_bits`, which in `FaultsOutside` is the only way out of the array. A
filter has no false negatives where shifts wrap or when it is one word long
(`NoFalseNegatives`), though `bloom_filter.h:10` and `:76` say that they are
impossible in any: where shifts drop, a wider one forgets a key (a compiler may
rely on the undefined shift either way). A filter goes wrong only when its size
is 0 as a `uint32_t`, or when it is destroyed after an initialisation that
failed.

**Threads.** A call on an address answers as if it were alone unless another
thread calls strtok between two of its tokens (or ether_ntoa before its string
is read), or its strdup or snprintf fails; then it may answer with the octets of
both, read a buffer the other has freed, or stay in its loop while the other
keeps calling. It ends once the other stays out. All keys are hashed with one
seed unless two first calls overlap: then two tables that share nothing can be
broken by each other, which a lock per table does not prevent.

**Bounds, and why they are enough.** Three nodes make a list with a first, a
middle and a last one and, when fewer are in use, leave an address to be reused;
a position past the end is included. In the array list a list of 5 values
outgrows every ordinary capacity, 8 and 9 are the two wrapped requests (to 0 and
to 1 cell), and SIZE_MAX is the position whose successor is 0. Two entries of
three keys collide or not by choice of the keys (with index size 3, k1 and k2 do
and k3 does not; with 2 all do; 1 divides by zero), rehash moves between sizes
in both directions, and a count of 4 lets two entries be counted twice.
`MaxPos`, `MaxSize` and `MaxEntries` are the bounds on otherwise unbounded
counters, and each only cuts off calls. An array of 5 sorted values takes three
rounds to search, in all the ways three addresses (two and NULL) can repeat. Six
values make a heap of three levels whose last parent has one child or two;
capacity 3 rounds up, capacity 0 grows with every push, 8 wraps to no cells, and
9 rounds up to 10, which wraps to two cells. In the bits run 5 rounds up, 63
rounds to 0, 32 is 0 as a uint32_t and 36 is 4; the bits are the edges of words
and arrays. Two octets are the least that a thread can be between; the strings
have no octet, two, and three of which one is too great, so that a number loses
its first octet and the high bits of one. The behaviours of `threads` use one
static variable each (`OneInUse`): no function reads another's, so steps on two
of them commute. Iterations of the hash table begin, in this instance, on tables
of two entries that hash_table_set has put there, and a callback that leaves the
table without an index is the last one (`MCNext`); any other history would add
empty buckets, which the loop skips.

The addresses of nodes and entries are symmetric, and so are the values of
linked lists and hash tables: their models compare two of them only for
equality. The passing runs of the lists, the table and the bits identify states
that differ only in `ret` and `args` (`VIEW`): no guard reads them, an invariant
reads only the operation that ended in a fault, which the view keeps, and action
properties are checked on every step, before states are identified.

## 4. What is proved

The proofs hold for every value of the constants that satisfies the assumptions
in the modules. These are: NULL is told from the addresses, values, records and
sequences it stands beside; sizes, capacities, hashes and seeds are naturals;
the addresses of list nodes, and the values a heap holds, are finitely many.
`PowerAssumption` says what `^` is, which the provers do not know. Nothing
bounds how many nodes, entries, values, bits or threads there are. The instances
TLC runs satisfy all of them, and TLC evaluates them.

Every property of the passing runs is a theorem but the liveness ones: type
correctness, the safety invariants, the action properties and the refinements.
One theorem has a hypothesis of its own, `ImplementsQueue` (below).

**LinkedListProofs**: `TypeCorrect`, `ForwardCorrect`, `BackwardCorrect`,
`NothingLostCorrect`, `SafeUntilPopHead`. None of the last four is inductive by
itself: whether `del_at` keeps the forward links depends on the backward ones,
and whether a call faults on both and on what is live. The inductive invariant
`Inv` is their conjunction with `TypeOK`, which says that a list is reckless
only after a pop_head: where the forward links are void, so are the backward
ones. Its steps are about data and not about the state: `Forward`, `Backward`
and `Covered` say that functions thread a sequence, and one lemma per shape of
change (a node put first, put last, taken out) says what becomes of them. The
recursive function `Walk` is tied to the sequence by `WalkThreads` and
`VisitsThreads`, whose induction is a least counterexample (`LeastNatural` in
`SeqLemmas`).

`IterationSafeCorrect` and `HandedOnceCorrect` are about `IterSpec`. Neither
property says where an iteration *is*, so neither is inductive; `IterInv` adds
that it is on its course: `next` is a node of `chain`, what is due is at or
beyond it and what is done is before it, in the direction of the walk.
`Survive` is what every call does to the chain for an iteration: the nodes that
stay live stay in it, in their order.

`ImplementsList` is the refinement of `ListSpec`: in a list without pop_head and
insert_at each operation, one lemma each, does to the values along `chain` what
`ListSpec` does to its sequence. Since `Cons`, `Append`, `RemoveAt` and `Front`
are defined by constructors the provers do not compare, both sides are
characterised by element (`Inserts`, `Removes`, `Cuts` in `SeqLemmas`), and two
sequences that insert or remove alike are equal.

**ArrayListProofs**: `TypeCorrect`, `BlockFitsCorrect`, `ValuesFitCorrect`,
`SafeUntilFull`. The inductive invariant is `Good`: `TypeOK`, and, while nothing
has been misused, `Fits` (`BlockFits` and `ValuesFit` together: neither is
inductive alone, since a set_at below `capacity` needs the block to be that
large, and a deletion needs the cells it moves to have been written).
`FaultsOnlyWhenFull` is not needed to prove itself, as a fault ends all steps;
each action lemma proves it of the next state from `Good`. `ResizedTypes` and
`ResizedFits` say what every outcome of a resize leaves, and the operations that
grow the list cite them. `ImplementsList` refines `ListSpec` the same way as for
the linked list. It needs one more conjunct, `Vacant`: a list without a block
has no cells, so that `array_list_init` empties a list that was empty
(`Standing` is `Good` with `Vacant`).

**ArraySearchProofs**: `SearchFindsCorrect`, `SearchHalvesCorrect`, and
`SearchKeepsList`, which carries the invariants of `ArrayList` over to
`SearchSpec`, the one specification with a step of its own on the list's
variables. `SearchInv` adds `Window` (the window is in the list, and empty only
if the list is) and `Narrowed` (in a sorted list it holds every index of the
value): the answer follows from the last window, not from any single probe.

**HashTableProofs**: `TypeCorrect`, `WellPlacedCorrect`, `CountedCorrect`,
`FaultsExplainedCorrect`, `NothingLostCorrect`, for any hash function and index
sizes. The properties speak of `Stored`, the concatenation of the buckets; the
invariant speaks of the buckets one by one. Its parts are `Shelved` (every
bucket is a list without repetition of entries whose keys lead to it, each with
a key of its own), `TypesOK`, `ClientsOwn` (what the client holds came from
init_entry), `Traced` (an entry to be destroyed has been through set_entry, and
if its value is not its own, through set), `Emptied` (where empty lists come
from), `Sized` and `NoneLost`. `Traced` and `Emptied` are what
`FaultsExplained` leaves out and needs: a fault is explained by what earlier
calls did to the entry or the bucket. `PlacedFacts` is the core of rehash: a
prefix of a sequence of entries with keys of their own, placed in a new index,
is sound again, so a rehash that stops anywhere leaves a sound table.

`ImplementsMap` is the refinement of `MapSpec`, with one lemma `...Maps` per
operation, over lemmas about the map a set of entries stands for (`MapWithNew`,
`MapWithOld`, `MapWithout`).

`IterationSafeCorrect` and `EachOnceCorrect` are about `IterSpec` of
`TableIteration`. As for the linked list, the invariant (`OnItsWay`) adds the
place of the iteration. What is due is `Ahead`: in the bucket from `next` on, or
in a later bucket; what is done is not, and cannot come back, as it is neither
free for malloc nor in the client's hands (`Apart`). `NextTends` is what every
call does for it: unless it replaces the index it only adds entries from outside
and takes some out, and the others keep their bucket and their order. Once the
index is replaced, the old list is safe because its entries stay `Apart`.

**HeapProofs**: `TypeCorrect`, `HeapOrderCorrect`, `StaleRightChildCorrect`,
`HeapifyHalvesCorrect`.
`HeapOrder` speaks of heaps with one displaced node and is close to inductive,
but a pop's heapify reads a cell beyond the heap. `Sinking` says what is there:
during a pop the cell at `size` is still counted by the array list and holds the
value on its way down. `Inv` is the conjunction of the three.
`RootFirstCorrect` draws the conclusion a client relies on: between calls no
value comes before the root. Its proof follows the parents of a least
counterexample, and needs that the comparator is transitive (`CmpFacts`).
`HeapifyHalves` needs `StaleRightChild`: without it heapify could go on in the
cell beyond the heap. It is the bound behind `CallsEnd`.

`TypeCorrect` includes that the cells the array list counts lie in the block,
`Len(cells) =< Slots(capacity)`, also for capacities whose byte count wraps, and
`OverrunsOnlyWrappedCorrect` follows from how `RoomFor` grows the list, by one
cell at a time, and from `MaxSize < WrapAt`: a heap holds fewer values than
there are addresses for them.

`ImplementsQueue` is the refinement of `QueueSpec`, for `SIZE_MAX \notin
Capacity`. What it refines claims nothing of a push that overruns the block of a
wrapped capacity. The hypothesis is needed: heap_init rounds an odd capacity up,
and the greatest `size_t`, which is odd, up to 0, so that the first push may
fail in a queue that was promised room. `Tally` counts a value among the first
cells, and one lemma per change of the cells (set, add, swap, drop the last)
says what becomes of the count; no lemma follows a value through a heapify,
since a swap counts as before. A call takes effect when it ends, so the
invariant adds `Popped`: until then the value on its way out comes before every
node that stays. That a push fails only when the room is used up compares `size`
with the *sum* of the counts (`TallySum`). The sum is a fold over the values, of
which the library states no facts: `SeqLemmas` proves that the function the fold
chooses exists (`SumsExist`), that all of them agree (`SumsAgree`), and from it
what a sum is when one element is taken out or changed.

**BloomFilterProofs**: `TypeCorrect`, `OneWordCorrect`, `FaultsOutsideCorrect`,
`NoFalseNegativesCorrect`, `FilterFaultsCorrect`, for words of any width and any
hashes. The invariant adds `FirstWord` (all bits below `size_bits` are in the
first word, which is exactly what the masks of the kept bits make: the reason
why an array has only as many bits as one word) and `AddedKept` (nothing has
cleared a bit of a key that was added).

**ThreadsProofs**: `TypeCorrect`, `FaultsOnlySharedCorrect`,
`SeedsAgreeCorrect`, for any number of threads. The invariant adds `Owned` (a
thread between two tokens that nobody has disturbed finds strtok's position in
its own buffer, not freed), `Seeded` and `OneSeed` (without a race one thread at
most is about to set the seed, and none has been set before). Each action lemma
says first what it leaves of the *other* threads' calls.

`AnswersRightCorrect` is proved in two halves. `AnswersAloneCorrect` is about
interleaving: an undisturbed call answers what its own strings make token by
token, whatever other threads do between its steps (`Undisturbed` says of each
call how far it is in its string). `AloneRight` is about arithmetic only.
`DigitsTaken` in `SeqLemmas` shows that shifting digits into a number of fixed
width one by one leaves the sum of the last ones, each times its power: what
the first ones were worth has become a multiple of the modulus. `DigitsOf` is
the converse, that the digits of a number are worth the number (`OctetsValue`:
an address printed is parsed back as itself). `MaskedSame` shows that two
masked addresses are equal exactly if their first bits are, one by one.
These inductions are over a bounded set of naturals and use a least
counterexample (`UpTo`).

**Which specifications.** The theorems are about `Spec`, except those about
iterations and searches. Every step of `IterSpec`, of the list and of the table,
is a step of `Spec` or leaves its variables alone (the proofs of `IterInv` use
this), so what is proved of lists and tables holds during iterations too.

**Model-checked only**:

- liveness: `CallsEnd` of the heap and of the threads. The prover has no
  fairness and no ENABLED. Of the heap's, `HeapifyHalves` is the part that is
  about the data, and it is proved; what is left is that a heapify that has
  begun goes on (`WF_vars(Heapify)`). Of the threads', it is that a thread no
  other disturbs any more runs out of tokens.

The runs that expect a violation have no theorem: what they check is false.

No RECURSIVE operator is declared anywhere: recursion is written as recursive
functions and folds.

## 5. Not modelled

`murmur3` is a function of its bytes and its seed without state or error path,
and no property depends on its arithmetic: it is any function of the keys. Its
vectors are left to the unit tests. `library.c` and `log.h` set up a logger.

The callback of `array_list_iter` is one that leaves the list alone. The code
hands it a value and not the list; a callback that has the list from elsewhere
can change it, and as the loop reads size and array anew in each round, each
round is what the model's `GetAt` does at that moment, with no state kept
between rounds but the index. Calls interleaved with an iteration are therefore
left out here, unlike those of the linked list and the hash table, whose loops
keep a pointer.

In the modelled components: calls on a structure whose memory was never
initialised; two threads in one structure, which the library does not support;
what snprintf and atoi do with characters (octets are numbers, and atoi of
something that is not one is 0); the leak of the copy of a string without
octets; the bytes of keys and values; the outcome of a program that goes on
after undefined behaviour, with two exceptions: `hash_table_del` reads a field
of a node it has just freed in every successful deletion, so the model lets it
either find what it stored there before the free (NULL, which ends the loop) or
fault, and a shift by more than the width of a word has the two outcomes of
`wide`.

## 6. Plan

Done: all components with logic of their own, and proofs of all their safety
properties and refinements. What a further step could add:

1. The hazards that no property is about, each with its reason in
   `PROJECT.json`: `destroy` followed by a rehash, a malloc of a bucket's list
   that fails, an index size of 0 or 1, set_at at SIZE_MAX, a rehash that loses
   the index, the entry that del does not free. The models take these steps; the
   first four end in undefined behaviour at once or at the next use, and the
   last two lose something every time.
2. A client of two structures, the hash table's lists as `LinkedList` models
   them: the table keeps its buckets as sequences now, on the strength of
   `ImplementsList`.
