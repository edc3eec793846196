------------------------------ MODULE QueueSpec ------------------------------
(***************************************************************************)
(* What heap.h promises: a priority queue.  Heap is shown to implement it. *)
(*                                                                         *)
(* queue counts how often each value is in the queue; values that compare  *)
(* equal may leave it in any order.  room is a number of values the queue  *)
(* holds without asking for more memory.  ret is the last operation with   *)
(* its answer, args its arguments.                                         *)
(***************************************************************************)
EXTENDS Integers, Functions

CONSTANTS
  Stored,    \* what a client may push
  NULL,      \* the answer of an empty queue
  Cmp(_, _), \* the comparison of the client: negative, 0 or positive
  Capacity   \* the capacities a client asks for

VARIABLES type, queue, room, ret, args
qvars == <<type, queue, room, ret, args>>

Answer(op, r) == ret' = <<op, r>>
Members == {v \in Stored : queue[v] > 0}
Length == SumFunction(queue)
Empty == [v \in Stored |-> 0]

\* Nothing in the queue has to leave it before v
First(v) ==
  /\ v \in Members
  /\ \A w \in Members :
       IF type = "MIN_HEAP" THEN Cmp(v, w) =< 0 ELSE Cmp(v, w) >= 0

Init == queue = Empty /\ room = 0 /\ ret = <<"init", FALSE>> /\ args = <<>>

\* A queue that could be set up has the room asked for
Setup(n) ==
  /\ queue' = Empty
  /\ \/ Answer("init", TRUE) /\ room' >= n
     \/ Answer("init", FALSE)

\* A push fails only when the room is used up
Push(v) ==
  /\ UNCHANGED <<type, room>>
  /\ \/ /\ Answer("push", TRUE)
        /\ queue' = [queue EXCEPT ![v] = @ + 1]
        /\ room' >= room
     \/ Answer("push", FALSE) /\ Length >= room /\ UNCHANGED <<queue, room>>

\* Room may be made ahead of the push that needs it
Reserve == room' >= room /\ UNCHANGED <<type, queue, ret, args>>

Pop ==
  /\ UNCHANGED <<type, room>>
  /\ \/ Members = {} /\ Answer("pop", NULL) /\ UNCHANGED queue
     \/ \E v \in Members :
          First(v) /\ Answer("pop", v) /\ queue' = [queue EXCEPT ![v] = @ - 1]

Peek ==
  /\ UNCHANGED <<type, room, queue>>
  /\ \/ Members = {} /\ Answer("peek", NULL)
     \/ \E v \in Members : First(v) /\ Answer("peek", v)

Destroy == queue' = Empty /\ Answer("destroy", TRUE)

Next ==
  \/ \E n \in Capacity : args' = <<n>> /\ Setup(n)
  \/ \E v \in Stored : args' = <<v>> /\ Push(v)
  \/ Reserve
  \/ args' = <<>> /\ (Pop \/ Peek \/ Destroy)

Spec == Init /\ [][Next]_qvars
=============================================================================
