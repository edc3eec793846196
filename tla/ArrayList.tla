------------------------------ MODULE ArrayList ------------------------------
(***************************************************************************)
(* src/src/structs/array_list.c: a list in one heap block that grows.      *)
(*                                                                         *)
(* array is the block, cell by cell (cell i of the C array is array[i + 1] *)
(* here): its length is what malloc or realloc really gave, which is not   *)
(* always capacity.  A cell holds a stored value, NULL, or JUNK when       *)
(* nothing has been written to it.  Reading or writing a cell the block    *)
(* does not have, or freeing the block twice, is undefined: it sets fault, *)
(* and the program makes no further step.                                  *)
(*                                                                         *)
(* misused is a history variable: the requests so far that no block of     *)
(* memory can satisfy, or whose failure the client has ignored.            *)
(***************************************************************************)
EXTENDS Integers, SequencesExt

CONSTANTS
  Value,      \* the pointers a client stores
  NULL,
  JUNK,       \* what a cell never written holds
  SIZE_MAX,   \* the greatest size_t
  WrapAt,     \* (SIZE_MAX + 1) / sizeof(void*): as many cells take 0 bytes
  Capacity,   \* the capacities a client asks for
  MaxPos,     \* bound on the positions a client passes, SIZE_MAX aside
  MaxSize     \* bound on the size the list is grown to one value at a time

ASSUME CellAssumption ==
  NULL # JUNK /\ NULL \notin Value /\ JUNK \notin Value
ASSUME WidthAssumption ==
  /\ SIZE_MAX \in Nat /\ WrapAt \in 1 .. SIZE_MAX
  /\ MaxPos \in 0 .. WrapAt - 2 /\ MaxSize \in 1 .. WrapAt - 1
  /\ Capacity \subseteq 0 .. SIZE_MAX

VARIABLES
  size, capacity, array,
  block,      \* the state of the pointer: "null", "live", or "freed" (dangling)
  fault,
  ret, args,  \* the last operation with its answer, its arguments
  misused

list == <<size, capacity, array, block>>
vars == <<size, capacity, array, block, fault, ret, args, misused>>

Position == 0 .. MaxPos \cup {SIZE_MAX}
Misuse == {"zero", "wraps", "failed_init"}

\* A list all of whose bytes are 0; destroy leaves the same
GarbageList ==   \* mutant
  size = JUNK /\ capacity = 0 /\ array = <<>> /\ block = "null"
EmptyList == size = 0 /\ capacity = 0 /\ array = <<>> /\ block = "null"

Init ==
  /\ EmptyList /\ fault = FALSE /\ misused = {}
  /\ ret = <<"init", TRUE>> /\ args = <<>>

\* How a call ends; there are no calls after a fault
Answer(op, r) == ~fault /\ ret' = <<op, r>> /\ UNCHANGED fault
Return(op, r) == Answer(op, r) /\ UNCHANGED list
Crash(op) == ~fault /\ fault' = TRUE /\ ret' = <<op, NULL>> /\ UNCHANGED list

\* The call asks for a block of n cells
Requests(n) ==
  misused' = misused \cup (IF n = 0 THEN {"zero"} ELSE {})
                     \cup (IF n >= WrapAt THEN {"wraps"} ELSE {})

-----------------------------------------------------------------------------
(* Memory: every request for a block has a set of outcomes *)

\* The byte count wraps: n cells are asked for as n modulo WrapAt
Slots(n) == n % WrapAt

Outcome(ok, n, cells, state) ==
  [ok |-> ok, capacity |-> n, array |-> cells, block |-> state]
Same(ok) == Outcome(ok, capacity, array, block)

Grown(n) == [i \in 1 .. Slots(n) |-> IF i =< Len(array) THEN array[i] ELSE JUNK]

\* alloc_array, and its caller putting the old capacity back when it fails.
\* Asked for 0 bytes, realloc may free the block and return NULL.
AllocArrayKeepingCapacity(n) ==   \* mutant
  {Outcome(FALSE, n, array, block), Outcome(TRUE, n, Grown(n), "live")}
AllocArray(n) ==
  {Same(FALSE), Outcome(TRUE, n, Grown(n), "live")}
    \cup IF Slots(n) = 0 /\ block = "live"
         THEN {Outcome(FALSE, capacity, <<>>, "freed")}
         ELSE {}

\* array_list_resize as the other operations call it
ResizedUnchecked(n) == IF n = capacity THEN {Same(TRUE)} ELSE AllocArray(n)   \* mutant
Resized(n) ==
  IF n = capacity THEN {Same(TRUE)}
  ELSE IF n < capacity /\ n < size THEN {Same(FALSE)}
  ELSE AllocArray(n)

\* It hands realloc a block that has been freed
ReallocsFreed(n) == block = "freed" /\ \E r \in Resized(n) : r # Same(r.ok)

Become(r) == capacity' = r.capacity /\ array' = r.array /\ block' = r.block

\* Cell i of the C array is there to be read
Has(i) == i \in 0 .. Len(array) - 1

-----------------------------------------------------------------------------
(* The operations *)

\* array_list_init, called on a list that holds no block
Setup(n) ==
  /\ block = "null"
  /\ size' = 0 /\ capacity' = n
  /\ \/ /\ array' = [i \in 1 .. Slots(n) |-> NULL] /\ block' = "live"
        /\ Requests(n)
        /\ Answer("init", TRUE)
     \/ /\ array' = <<>> /\ block' = "null"
        /\ misused' = misused \cup {"failed_init"}
        /\ Answer("init", FALSE)

\* The cells from pos on, up to the size'th, move right: cell size is written
ShiftedRight(cells, pos) ==
  [i \in DOMAIN cells |-> IF i \in pos + 2 .. size + 1 THEN cells[i - 1] ELSE cells[i]]

\* shift_right asks for room for pos, whatever the size
NeedsRoom(pos) == pos + 1 >= capacity
RoomForPos(pos) == pos   \* mutant
Room(pos) == pos + 1

InsertAtPos(op, v, pos) ==
  /\ UNCHANGED misused
  /\ \/ pos > size /\ Return(op, FALSE)
     \/ /\ size = 0 /\ pos = 0
        /\ \/ ~Has(0) /\ Crash(op)
           \/ /\ Has(0)
              /\ array' = [array EXCEPT ![1] = v] /\ size' = 1
              /\ UNCHANGED <<capacity, block>>
              /\ Answer(op, TRUE)
     \/ /\ pos =< size /\ size \in 1 .. MaxSize - 1
        /\ \/ NeedsRoom(pos) /\ ReallocsFreed(Room(pos)) /\ Crash(op)
           \/ /\ ~(NeedsRoom(pos) /\ ReallocsFreed(Room(pos)))
              /\ \E r \in IF NeedsRoom(pos) THEN Resized(Room(pos)) ELSE {Same(TRUE)} :
                   \/ ~r.ok /\ Become(r) /\ Answer(op, FALSE) /\ UNCHANGED size
                   \/ r.ok /\ size + 1 > Len(r.array) /\ Crash(op)
                   \/ /\ r.ok /\ size + 1 =< Len(r.array)
                      /\ Become([r EXCEPT !.array =
                                   [ShiftedRight(@, pos) EXCEPT ![pos + 1] = v]])
                      /\ size' = size + 1
                      /\ Answer(op, TRUE)

InsertValue(v, pos) == InsertAtPos("insert_at", v, pos)
PushHead(v) == InsertAtPos("push_head", v, 0)
PushTail(v) == InsertAtPos("push_tail", v, size)

\* The cells after pos, up to the size'th, move left
ShiftedLeftLate(pos) ==   \* mutant
  [i \in DOMAIN array |-> IF i \in pos + 2 .. size - 1 THEN array[i + 1] ELSE array[i]]
ShiftedLeft(pos) ==
  [i \in DOMAIN array |-> IF i \in pos + 1 .. size - 1 THEN array[i + 1] ELSE array[i]]

DelAtPos(op, pos) ==
  /\ UNCHANGED misused
  /\ \/ pos >= size /\ Return(op, NULL)
     \/ pos < size /\ ~Has(size - 1) /\ Crash(op)
     \/ /\ pos < size /\ Has(size - 1)
        /\ size' = size - 1 /\ array' = ShiftedLeft(pos)
        /\ UNCHANGED <<capacity, block>>
        /\ Answer(op, array[pos + 1])

LastPos == IF size = 0 THEN 0 ELSE size - 1
DelAt(pos) == DelAtPos("del_at", pos)
PopHead == DelAtPos("pop_head", 0)
PopTail == DelAtPos("pop_tail", LastPos)

\* index_of reads on until it meets v
Found(v) == {i \in 0 .. size - 1 : Has(i) /\ array[i + 1] = v}
IndexOf(v) == IF Found(v) = {} THEN SIZE_MAX ELSE Min(Found(v))
Searchable(v) == Found(v) # {} \/ size =< Len(array)

Search(v) ==
  /\ UNCHANGED misused
  /\ \/ ~Searchable(v) /\ Crash("index_of")
     \/ Searchable(v) /\ Return("index_of", IndexOf(v))

DelValue(v) ==
  \/ ~Searchable(v) /\ Crash("del_value") /\ UNCHANGED misused
  \/ Searchable(v) /\ DelAtPos("del_value", IndexOf(v))

\* get_at, head and tail read one cell; iter reads them all
ReadCell(op, pos) ==
  /\ UNCHANGED misused
  /\ \/ pos >= size /\ Return(op, NULL)
     \/ pos < size /\ ~Has(pos) /\ Crash(op)
     \/ pos < size /\ Has(pos) /\ Return(op, array[pos + 1])

GetAt(pos) == ReadCell("get_at", pos)
HeadValue == ReadCell("head", 0)
TailValue == ReadCell("tail", LastPos)

Iter ==
  /\ UNCHANGED misused
  /\ \/ size > Len(array) /\ Crash("forward_iter")
     \/ size =< Len(array) /\ Return("forward_iter", SubSeq(array, 1, size))

\* The cells from size up to pos become NULL, and cell pos becomes v
Filled(cells, pos, v) ==
  [i \in DOMAIN cells |-> IF i = pos + 1 THEN v
                          ELSE IF i \in size + 1 .. pos THEN NULL ELSE cells[i]]

\* pos + 1 is computed in a size_t
Succ(n) == (n + 1) % (SIZE_MAX + 1)

SetAt(pos, v) ==
  LET grows == pos >= size /\ pos >= capacity IN
  /\ IF grows THEN Requests(Succ(pos)) ELSE UNCHANGED misused
  /\ \/ grows /\ ReallocsFreed(Succ(pos)) /\ Crash("set_at")
     \/ /\ ~(grows /\ ReallocsFreed(Succ(pos)))
        /\ \E r \in IF grows THEN Resized(Succ(pos)) ELSE {Same(TRUE)} :
             \/ ~r.ok /\ Become(r) /\ Answer("set_at", FALSE) /\ UNCHANGED size
             \/ r.ok /\ pos >= Len(r.array) /\ Crash("set_at")
             \/ /\ r.ok /\ pos < Len(r.array)
                /\ Become([r EXCEPT !.array = Filled(@, pos, v)])
                /\ size' = IF pos < size THEN size ELSE pos + 1
                /\ Answer("set_at", TRUE)

Resize(n) ==
  /\ Requests(n)
  /\ \/ ReallocsFreed(n) /\ Crash("resize")
     \/ /\ ~ReallocsFreed(n)
        /\ \E r \in Resized(n) : Become(r) /\ Answer("resize", r.ok) /\ UNCHANGED size

Destroy ==
  \/ block = "freed" /\ Crash("destroy") /\ UNCHANGED misused
  \/ /\ block # "freed"
     /\ size' = 0 /\ capacity' = 0 /\ array' = <<>> /\ block' = "null"
     /\ misused' = {}
     /\ Answer("destroy", TRUE)

Next ==
  \/ \E n \in Capacity : args' = <<n>> /\ (Setup(n) \/ Resize(n))
  \/ \E v \in Value :
       args' = <<v>> /\ (PushHead(v) \/ PushTail(v) \/ Search(v) \/ DelValue(v))
  \/ \E v \in Value, pos \in Position :
       args' = <<v, pos>> /\ (InsertValue(v, pos) \/ SetAt(pos, v))
  \/ \E pos \in Position : args' = <<pos>> /\ (GetAt(pos) \/ DelAt(pos))
  \/ /\ args' = <<>>
     /\ HeadValue \/ TailValue \/ PopHead \/ PopTail \/ Iter \/ Destroy

Spec == Init /\ [][Next]_vars
-----------------------------------------------------------------------------
(* Properties *)

TypeOK ==
  /\ size \in 0 .. SIZE_MAX /\ capacity \in 0 .. SIZE_MAX
  /\ array \in Seq(Value \cup {NULL, JUNK}) /\ Len(array) < WrapAt
  /\ block \in {"null", "live", "freed"}
  /\ fault \in BOOLEAN /\ misused \in SUBSET Misuse

\* As long as the client asks for nothing a block cannot hold, capacity is
\* the number of cells malloc gave, whatever failed on the way.
BlockFits == misused = {} => Len(array) = capacity /\ block # "freed"

\* Then also the values stored lie inside the block, and none of them is a
\* cell that growing the block left unwritten.
ValuesFit ==
  misused = {} => size =< Len(array) /\ \A i \in 1 .. size : array[i] # JUNK

\* Then a call goes wrong only when it inserts into a list with no cells (as a
\* destroyed one), or into a full list before its end: shift_right moves the
\* last value one cell past the block.
FaultsOnlyWhenFull ==
  fault /\ misused = {} =>
    \/ capacity = 0
    \/ size = capacity /\ ret[1] \in {"push_head", "insert_at"}

\* And every call that returns does to the sequence of stored values what
\* ListSpec says and answers from it.
L == INSTANCE ListSpec WITH list <- SubSeq(array, 1, size), NPOS <- SIZE_MAX
ImplementsListSpec ==
  L!Init /\ [][misused \cup misused' = {} /\ ~fault' => L!Next]_vars

\* array_list.h says the array "is automatically resized to accommodate" when
\* the items inserted exceed the capacity: an insertion into a list that has
\* cells never goes wrong.
GrowsAsDocumented == fault => misused # {} \/ capacity = 0
=============================================================================
