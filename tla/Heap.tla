-------------------------------- MODULE Heap --------------------------------
(***************************************************************************)
(* src/src/structs/heap.c: a binary heap in the cells of an array list.    *)
(*                                                                         *)
(* cells and capacity are the array list: its values, those the heap has   *)
(* popped included, and the cells it has.  size is the heap's own.  Node i *)
(* of the code is cells[i + 1] here; indices keep the code's numbering.    *)
(* made tells whether heap_array is there.  A use of it when it is NULL    *)
(* and a write past the block malloc gave the array list set fault, and    *)
(* the program makes no further step.                                      *)
(*                                                                         *)
(* A call is one step, heapify_up and heapify_down one step per level: cur *)
(* is NULL or the push or pop that is under way, the node its heapify has  *)
(* reached, and the value pushed or popped.                                *)
(***************************************************************************)
EXTENDS Integers, Sequences, FiniteSets

CONSTANTS
  Value,    \* the pointers a client pushes; it may also push NULL
  NULL,
  Key,      \* what a pointer points at: a number, for value_cmp_int
  Capacity, \* the capacities a client asks for
  SIZE_MAX, \* the greatest size_t
  WrapAt,   \* (SIZE_MAX + 1) / sizeof(void*): as many cells take 0 bytes
  MaxSize   \* bound on the size of the heap

ASSUME ValueAssumption ==
  IsFiniteSet(Value) /\ NULL \notin Value /\ Key \in [Value -> Int]
ASSUME CallAssumption ==
  NULL \notin [op : {"push", "pop"}, index : Nat, value : Value \cup {NULL}]
ASSUME SizeAssumption ==
  /\ SIZE_MAX \in Nat /\ WrapAt \in 1 .. SIZE_MAX /\ MaxSize \in 1 .. WrapAt - 1
  /\ Capacity \subseteq 0 .. SIZE_MAX

VARIABLES type, size, cells, capacity, made, cur, fault, ret, args
heap == <<type, size, cells, capacity, made>>
vars == <<heap, cur, fault, ret, args>>

Type == {"MIN_HEAP", "MAX_HEAP"}
Stored == Value \cup {NULL}

\* value_cmp_int; value_cmp_string treats NULL alike and compares by strcmp
Cmp(a, b) ==
  IF a = NULL \/ b = NULL
  THEN IF a = b THEN 0 ELSE IF a = NULL THEN -1 ELSE 1
  ELSE IF Key[a] = Key[b] THEN 0 ELSE IF Key[a] > Key[b] THEN 1 ELSE -1

-----------------------------------------------------------------------------
(* The tree in the array *)

ParentOfNext(i) == i \div 2   \* mutant
Parent(i) == (i - 1) \div 2
LeftChildOfPrevious(i) == 2 * i   \* mutant
LeftChild(i) == 2 * i + 1
RightChild(i) == 2 * i + 2

\* array_list_get_at: NULL beyond the cells the array list counts
Node(i) == IF i < Len(cells) THEN cells[i + 1] ELSE NULL

\* array_list_set_at of a cell the array list counts, twice: it cannot fail
Swapped(i, j) == [cells EXCEPT ![i + 1] = Node(j), ![j + 1] = Node(i)]

\* heapify_up moves node i above its parent
Rises(i) ==
  LET c == Cmp(Node(Parent(i)), Node(i)) IN
  \/ type = "MIN_HEAP" /\ c > 0
  \/ type = "MAX_HEAP" /\ c =< 0

\* heapify_down moves node i below its right child, or below its left child
SinksRight(i) ==
  LET left == Node(LeftChild(i)) right == Node(RightChild(i)) IN
  \/ type = "MIN_HEAP" /\ Cmp(left, right) > 0 /\ Cmp(Node(i), right) > 0
  \/ type = "MAX_HEAP" /\ Cmp(left, right) < 0 /\ Cmp(Node(i), right) < 0
SinksLeft(i) ==
  LET left == Node(LeftChild(i)) right == Node(RightChild(i)) IN
  \/ type = "MIN_HEAP" /\ Cmp(left, right) =< 0 /\ Cmp(Node(i), left) >= 0
  \/ type = "MAX_HEAP" /\ Cmp(left, right) >= 0 /\ Cmp(Node(i), left) =< 0

-----------------------------------------------------------------------------
(* The operations *)

\* A heap as a failed heap_init leaves it
Init ==
  /\ type \in Type /\ size = 0 /\ cells = <<>> /\ capacity = 0 /\ made = FALSE
  /\ cur = NULL /\ fault = FALSE /\ ret = <<"init", FALSE>> /\ args = <<>>

\* How a call ends; there are no calls after a fault, or within a call
Idle == cur = NULL /\ ~fault
Answer(op, r) == Idle /\ ret' = <<op, r>> /\ UNCHANGED <<cur, fault>>
Return(op, r) == Answer(op, r) /\ UNCHANGED heap
Crash(op) ==
  Idle /\ fault' = TRUE /\ ret' = <<op, NULL>> /\ UNCHANGED <<heap, cur>>
Finish(r) ==
  /\ cur' = NULL /\ ret' = <<cur.op, r>> /\ UNCHANGED <<heap, fault>>

RoundedDown(n) == n - (n % 2)   \* mutant
Rounded(n) == (n + (n % 2)) % (SIZE_MAX + 1)

\* The cells of the block an array list of capacity n asks for: the byte count
\* wraps
Slots(n) == n % WrapAt

\* heap_init, on a heap without an array list
SetupKeepingSize(t, n) ==   \* mutant
  /\ ~made
  /\ type' = t /\ size' = size /\ cells' = <<>>
  /\ made' = TRUE /\ capacity' = Rounded(n) /\ Answer("init", TRUE)
Setup(t, n) ==
  /\ ~made
  /\ type' = t /\ size' = 0 /\ cells' = <<>>
  /\ \/ made' = TRUE /\ capacity' = Rounded(n) /\ Answer("init", TRUE)
     \/ made' = FALSE /\ capacity' = 0 /\ Answer("init", FALSE)

\* The capacity array_list_set_at sees to before it writes cell i
RoomOnlyBelow(i) == IF i < capacity THEN capacity ELSE i   \* mutant
RoomFor(i) == IF i < capacity THEN capacity ELSE i + 1

\* Cell size may be one the array list counts, one it has, or one to be added
Push(v) ==
  \/ ~made /\ Crash("push")
  \/ made /\ size >= capacity /\ Return("push", FALSE)
  \/ /\ made /\ size < MaxSize /\ size >= Slots(RoomFor(size)) /\ Crash("push")
  \/ /\ Idle /\ made /\ size < MaxSize /\ size < Slots(RoomFor(size))
     /\ cells' = [i \in 1 .. IF size < Len(cells) THEN Len(cells) ELSE size + 1 |->
                   IF i = size + 1 THEN v ELSE cells[i]]
     /\ capacity' = RoomFor(size)
     /\ size' = size + 1
     /\ cur' = [op |-> "push", index |-> size, value |-> v]
     /\ UNCHANGED <<type, made, fault, ret>>

HeapifyUp ==
  /\ cur # NULL /\ cur.op = "push"
  /\ \/ cur.index = 0 /\ Finish(TRUE)
     \/ cur.index > 0 /\ ~Rises(cur.index) /\ Finish(TRUE)
     \/ /\ cur.index > 0 /\ Rises(cur.index)
        /\ cells' = Swapped(cur.index, Parent(cur.index))
        /\ cur' = [cur EXCEPT !.index = Parent(cur.index)]
        /\ UNCHANGED <<type, size, capacity, made, fault, ret>>

\* The tail of the heap moves to its head
PastTailAtHead == [cells EXCEPT ![1] = Node(size)]   \* mutant
TailAtHead == [cells EXCEPT ![1] = Node(size - 1)]

Pop ==
  \/ size = 0 /\ Return("pop", NULL)
  \/ size > 0 /\ ~made /\ Crash("pop")
  \/ /\ size = 1 /\ made /\ size' = 0 /\ UNCHANGED <<type, cells, capacity, made>>
     /\ Answer("pop", Node(0))
  \/ /\ Idle /\ size > 1 /\ made
     /\ size' = size - 1 /\ cells' = TailAtHead
     /\ cur' = [op |-> "pop", index |-> 0, value |-> Node(0)]
     /\ UNCHANGED <<type, capacity, made, fault, ret>>

HeapifyDown ==
  /\ cur # NULL /\ cur.op = "pop"
  /\ LET i == cur.index
         Sink(child) ==
           /\ cells' = Swapped(i, child) /\ cur' = [cur EXCEPT !.index = child]
           /\ UNCHANGED <<type, size, capacity, made, fault, ret>> IN
     \/ (i >= size \/ LeftChild(i) >= size) /\ Finish(cur.value)
     \/ /\ i < size /\ LeftChild(i) < size
        /\ \/ SinksRight(i) /\ Sink(RightChild(i))
           \/ SinksLeft(i) /\ Sink(LeftChild(i))
           \/ ~SinksRight(i) /\ ~SinksLeft(i) /\ Finish(cur.value)

Peek ==
  \/ size = 0 /\ Return("peek", NULL)
  \/ size > 0 /\ ~made /\ Crash("peek")
  \/ size > 0 /\ made /\ Return("peek", Node(0))

\* The size stays
Destroy ==
  \/ ~made /\ Crash("destroy")
  \/ /\ made /\ made' = FALSE /\ cells' = <<>> /\ capacity' = 0
     /\ UNCHANGED <<type, size>> /\ Answer("destroy", TRUE)

Heapify == (HeapifyUp \/ HeapifyDown) /\
  args' = IF cur' # NULL THEN args ELSE IF cur.op = "push" THEN <<cur.value>> ELSE <<>>

Next ==
  \/ \E t \in Type, n \in Capacity : args' = <<n>> /\ Setup(t, n)
  \/ \E v \in Stored : Push(v) /\ args' = IF cur' = NULL THEN <<v>> ELSE args
  \/ (Pop \/ Peek \/ Destroy) /\ args' = IF cur' = NULL THEN <<>> ELSE args
  \/ Heapify

Spec == Init /\ [][Next]_vars

\* A call that has begun goes on
FairSpec == Spec /\ WF_vars(Heapify)
-----------------------------------------------------------------------------
(* Properties *)

TypeOK ==
  /\ type \in Type /\ size \in 0 .. MaxSize /\ cells \in Seq(Stored)
  /\ made \in BOOLEAN /\ fault \in BOOLEAN
  /\ capacity \in 0 .. SIZE_MAX
  /\ made => size =< Len(cells) /\ Len(cells) =< Slots(capacity)
  /\ cur # NULL =>
       /\ cur \in [op : {"push", "pop"}, index : 0 .. size - 1, value : Stored]
       /\ made /\ ~fault

InOrder(i, j) ==
  IF type = "MIN_HEAP" THEN Cmp(Node(i), Node(j)) =< 0 ELSE Cmp(Node(i), Node(j)) >= 0

\* The node on its way up may belong above its parent, the one on its way
\* down below its children
Displaced(i) ==
  cur # NULL /\ (IF cur.op = "push" THEN i = cur.index ELSE Parent(i) = cur.index)

\* Between calls, every node is in order with its parent.  Within one the node
\* heapify has reached is the only one that is not, and its children are in
\* order with its parent, so that heapify may stop after any level.
HeapOrder ==
  made => \A i \in 1 .. size - 1 :
    /\ Displaced(i) \/ InOrder(Parent(i), i)
    /\ cur # NULL /\ Parent(i) = cur.index /\ cur.index > 0 =>
         InOrder(Parent(cur.index), i)

\* heapify_down compares the left child even with a right child that the heap
\* has just given up: that cell is one the array list still counts, and holds
\* the very value on its way down, so it is never swapped in.
StaleRightChild ==
  cur # NULL /\ cur.op = "pop" /\ LeftChild(cur.index) < size =>
    /\ RightChild(cur.index) < Len(cells)
    /\ RightChild(cur.index) >= size =>
         Node(RightChild(cur.index)) = Node(cur.index) /\ ~SinksRight(cur.index)

\* On a heap that has been initialised only a push can write past the block of
\* the array list, and only if the client has asked for so large a capacity that
\* its byte count wraps: the capacity pushes make on their own is backed by cells.
OverrunsOnlyWrapped ==
  fault /\ made => ret[1] = "push" /\ capacity >= WrapAt

\* On a heap that has been initialised, with a capacity whose byte count does not
\* wrap, every call does what QueueSpec says; so does every other call that does
\* not go wrong.  The value being pushed is not yet in the queue, the one being
\* popped is.
Count(v) ==
  Cardinality({i \in 1 .. size : cells[i] = v})
    + (IF cur = NULL \/ cur.value # v THEN 0 ELSE IF cur.op = "pop" THEN 1 ELSE -1)
Counts == [v \in Stored |-> IF made THEN Count(v) ELSE 0]
Q == INSTANCE QueueSpec WITH queue <- Counts, room <- capacity
ImplementsQueueSpec ==
  Q!Init /\ [][(made /\ capacity < WrapAt) \/ ~fault' => [Q!Next]_Q!qvars]_vars

\* The recursion of heapify_up and heapify_down is no deeper than the tree: a call
\* of the first at least halves the index, one of the second doubles it, and both
\* stay in the heap.
HeapifyHalves ==
  [][cur # NULL /\ cur' # NULL =>
       /\ cur'.index < size
       /\ IF cur.op = "push" THEN 2 * cur'.index < cur.index
          ELSE 2 * cur.index < cur'.index]_vars

\* Every push and every pop ends: heapify meets a node it need not move.
CallsEnd == cur # NULL ~> cur = NULL
=============================================================================
