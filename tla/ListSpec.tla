------------------------------ MODULE ListSpec ------------------------------
(***************************************************************************)
(* What the two list containers of the library promise: a list is a        *)
(* sequence of values, every operation answers from the sequence and       *)
(* changes it as its header documents.  LinkedList and ArrayList are shown *)
(* to implement this specification.                                        *)
(*                                                                         *)
(* ret is the last operation with its answer, args its arguments.         *)
(* Positions are the C ones, counted from 0.  An operation that needs      *)
(* memory may answer FALSE and leave the list as it was.                   *)
(***************************************************************************)
EXTENDS Integers, SequencesExt

CONSTANTS
  Value,    \* the pointers a client stores
  NULL,     \* the answer when there is no value
  NPOS,     \* the answer of index_of when the value is not in the list
  Position, \* the positions a client asks for: a set of naturals
  Capacity  \* the capacities a client asks for

VARIABLES list, ret, args
lvars == <<list, ret, args>>

Answer(op, r) == ret' = <<op, r>>
Fails(op) == Answer(op, FALSE) /\ UNCHANGED list
Item(pos) == IF pos \in 0 .. Len(list) - 1 THEN list[pos + 1] ELSE NULL

Init == list = <<>> /\ ret = <<"init", TRUE>> /\ args = <<>>

PushHead(v) ==
  Fails("push_head") \/ (Answer("push_head", TRUE) /\ list' = Cons(v, list))
PushTail(v) ==
  Fails("push_tail") \/ (Answer("push_tail", TRUE) /\ list' = Append(list, v))

PopHead ==
  \/ list = <<>> /\ Answer("pop_head", NULL) /\ UNCHANGED list
  \/ list # <<>> /\ Answer("pop_head", Head(list)) /\ list' = Tail(list)

PopTail ==
  \/ list = <<>> /\ Answer("pop_tail", NULL) /\ UNCHANGED list
  \/ list # <<>> /\ Answer("pop_tail", Last(list)) /\ list' = Front(list)

Insert(v, pos) ==
  \/ Fails("insert_at")
  \/ /\ pos =< Len(list)
     /\ list' = InsertAt(list, pos + 1, v)
     /\ Answer("insert_at", TRUE)

\* linked_list answers whether a value was deleted, array_list which
DelAt(pos) ==
  \/ /\ pos < Len(list)
     /\ list' = RemoveAt(list, pos + 1)
     /\ Answer("del_at", TRUE) \/ Answer("del_at", list[pos + 1])
  \/ /\ pos >= Len(list)
     /\ Answer("del_at", FALSE) \/ Answer("del_at", NULL)
     /\ UNCHANGED list

Indexes(v) == {i \in 1 .. Len(list) : list[i] = v}

DelValue(v) ==
  \/ Indexes(v) = {} /\ Answer("del_value", NULL) /\ UNCHANGED list
  \/ /\ Indexes(v) # {}
     /\ Answer("del_value", v) /\ list' = RemoveAt(list, Min(Indexes(v)))

IndexOf(v) ==
  /\ Answer("index_of", IF Indexes(v) = {} THEN NPOS ELSE Min(Indexes(v)) - 1)
  /\ UNCHANGED list

\* A binary search answers with an index of the value or with none.  The header
\* promises that of an empty list too, but the code may answer 0 of one, and
\* this specification allows it.
BinarySearch(v) ==
  /\ \/ Answer("binary_search_index_of", NPOS)
     \/ \E i \in Indexes(v) : Answer("binary_search_index_of", i - 1)
     \/ list = <<>> /\ Answer("binary_search_index_of", 0)
  /\ UNCHANGED list

\* Setting past the end extends the list, with NULL in between
SetAt(v, pos) ==
  \/ Fails("set_at")
  \/ /\ list' = [i \in 1 .. Max({Len(list), pos + 1}) |->
                  IF i = pos + 1 THEN v ELSE Item(i - 1)]
     /\ Answer("set_at", TRUE)

GetAt(pos) == Answer("get_at", Item(pos)) /\ UNCHANGED list

Read ==
  /\ \/ Answer("head", Item(0))
     \/ Answer("tail", Item(Len(list) - 1))
     \/ Answer("forward_iter", list)
     \/ Answer("backward_iter", Reverse(list))
  /\ UNCHANGED list

Resize == (\E ok \in BOOLEAN : Answer("resize", ok)) /\ UNCHANGED list
Setup == list = <<>> /\ UNCHANGED list /\ \E ok \in BOOLEAN : Answer("init", ok)
Destroy == list' = <<>> /\ Answer("destroy", TRUE)

Next ==
  \/ \E n \in Capacity : args' = <<n>> /\ (Setup \/ Resize)
  \/ \E v \in Value :
       /\ args' = <<v>>
       /\ PushHead(v) \/ PushTail(v) \/ DelValue(v) \/ IndexOf(v) \/ BinarySearch(v)
  \/ \E v \in Value, pos \in Position :
       args' = <<v, pos>> /\ (Insert(v, pos) \/ SetAt(v, pos))
  \/ \E pos \in Position : args' = <<pos>> /\ (GetAt(pos) \/ DelAt(pos))
  \/ args' = <<>> /\ (PopHead \/ PopTail \/ Read \/ Destroy)

Spec == Init /\ [][Next]_lvars
=============================================================================
