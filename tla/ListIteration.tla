---------------------------- MODULE ListIteration ----------------------------
(***************************************************************************)
(* Iterations of src/src/structs/linked_list.c whose callbacks call the    *)
(* list they iterate over, to add, delete or destroy.  LinkedList has the  *)
(* iterations whose callbacks only read, as one step.                      *)
(*                                                                         *)
(* iter is NULL, or the iteration under way, between two callbacks or      *)
(* within one: next is the pointer read before the callback was called.    *)
(* due, done and gone are history: the nodes that were in the list when    *)
(* the iteration began, are not freed since, and are still to be handed to *)
(* the callback, or have been; and whether a callback freed the node that  *)
(* next points at.                                                         *)
(***************************************************************************)
EXTENDS LinkedList

VARIABLES iter, lost   \* lost: the iteration followed a pointer to freed memory
ivars == <<vars, iter, lost>>

IterInit == Init /\ iter = NULL /\ lost = FALSE

\* What is said of iterations holds while the links they follow are those the
\* calls have made; the model leaves them there
Trusted(dir) == IF dir = "forward" THEN ~reckless ELSE "pop_head" \notin used
LinkForward(dir) == next   \* mutant
Link(dir) == IF dir = "forward" THEN next ELSE prev

Nodes == {chain[i] : i \in DOMAIN chain}

\* p is handed to the callback; the pointer to the one after it is read first
Handed(dir, p, due, done, gone) ==
  iter' = [dir |-> dir, next |-> Link(dir)[p], due |-> due \ {p},
           done |-> done \cup {p}, gone |-> gone]

\* An iteration begins
Begin(dir) ==
  LET p == IF dir = "forward" THEN head ELSE tail IN
  /\ iter = NULL /\ ~fault /\ Trusted(dir) /\ UNCHANGED vars
  /\ \/ p \notin live \cup {NULL} /\ lost' = TRUE /\ UNCHANGED iter
     \/ p \in live /\ Handed(dir, p, Nodes, {}, FALSE) /\ UNCHANGED lost

\* A callback calls an operation of the list
Callback ==
  /\ Next /\ UNCHANGED lost
  /\ iter' = IF \/ iter = NULL
                \/ iter.dir = "forward" /\ reckless'
                \/ iter.dir = "backward" /\ "pop_head" \in used'
             THEN NULL
             ELSE [iter EXCEPT
                    !.due = @ \cap live', !.done = @ \cap live',
                    !.gone = @ \/ (iter.next \in live /\ iter.next \notin live')]

\* The callback returns: the loop goes on to next, or ends
Advance ==
  /\ iter # NULL /\ ~fault /\ UNCHANGED vars
  /\ \/ iter.next = NULL /\ iter' = NULL /\ UNCHANGED lost
     \/ iter.next \notin live \cup {NULL} /\ lost' = TRUE /\ UNCHANGED iter
     \/ /\ iter.next \in live
        /\ Handed(iter.dir, iter.next, iter.due, iter.done, iter.gone)
        /\ UNCHANGED lost

IterNext ==
  ~lost /\ (Callback \/ Advance \/ \E dir \in {"forward", "backward"} : Begin(dir))
IterSpec == IterInit /\ [][IterNext]_ivars
-----------------------------------------------------------------------------
(* Properties *)

\* An iteration follows no pointer to freed memory, whatever its callbacks do
\* to the list, unless one of them freed the very node it was to go to next.
IterationSafe == lost => iter # NULL /\ iter.gone

\* Then it hands out every node once that stays in the list, the one being
\* handed out deleted or not, and nothing it has handed out before.
HandedOnce ==
  iter # NULL /\ ~iter.gone =>
    /\ iter.next = NULL => iter.due = {}
    /\ iter.next \notin iter.done
=============================================================================
