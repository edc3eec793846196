----------------------------- MODULE LinkedList -----------------------------
(***************************************************************************)
(* src/src/structs/linked_list.c: the doubly-linked list, pointer by       *)
(* pointer.  A node is an address; its three fields are the functions      *)
(* value, prev and next.  malloc may return any address that is not live,  *)
(* so a freed address comes back, and it may fail.                         *)
(*                                                                         *)
(* Dereferencing a pointer to a node that is not live is undefined, and a  *)
(* loop over links that never reach NULL is endless: both set fault, and   *)
(* the program makes no further step.                                      *)
(*                                                                         *)
(* Three history variables are read by no guard and by no update of        *)
(* another variable.  used holds the operations called so far, of those    *)
(* that change a list that goes on.  reckless: after a pop_head, one that  *)
(* trusts tail or prev has changed the list.  chain holds the nodes the    *)
(* operations have linked together, head first, until then.                *)
(***************************************************************************)
EXTENDS Integers, FiniteSets, SequencesExt

CONSTANTS
  Addr,     \* the addresses malloc can return for a node
  Value,    \* the pointers a client stores
  NULL,
  MaxPos    \* bound on the positions a client passes

ASSUME NullAssumption == NULL \notin Addr /\ NULL \notin Value
ASSUME AddrAssumption == IsFiniteSet(Addr)
ASSUME MaxPosAssumption == MaxPos \in Nat

VARIABLES
  head, tail, size,     \* linked_list
  value, prev, next,    \* the fields of the nodes
  live,                 \* the addresses malloc returned and free has not taken
  fault,
  ret, args,            \* the last operation with its answer, its arguments
  used, reckless, chain

nodes == <<value, prev, next, live>>
vars == <<head, tail, size, value, prev, next, live, fault, ret, args,
          used, reckless, chain>>

Pointer == Addr \cup {NULL}
Position == 0 .. MaxPos

UnsizedList == head = NULL /\ tail = NULL /\ size = NULL   \* mutant
EmptyList == head = NULL /\ tail = NULL /\ size = 0

Init ==
  /\ EmptyList
  /\ value = [a \in Addr |-> NULL]
  /\ prev = [a \in Addr |-> NULL]
  /\ next = [a \in Addr |-> NULL]
  /\ live = {} /\ fault = FALSE /\ ret = <<"init", TRUE>> /\ args = <<>>
  /\ used = {} /\ reckless = FALSE /\ chain = <<>>

-----------------------------------------------------------------------------
(* Calls and their outcomes *)

Tracked == {"insert_at", "del_at", "push_head", "push_tail", "pop_head", "pop_tail"}

\* pop_head leaves the new head's prev, and the tail of a list it empties,
\* pointing at the node it freed; these are the operations that follow them,
\* the first three to change the list.
Writing == {"del_at", "push_tail", "pop_tail"}
Trusting == Writing \cup {"tail", "backward_iter"}

Call(op) == ~fault /\ used' = used \cup ({op} \cap Tracked)
Answer(op, r) == ret' = <<op, r>> /\ UNCHANGED fault

\* The call has changed the list, whose nodes are now c
Linked(op, c) ==
  /\ reckless' = (reckless \/ ("pop_head" \in used /\ op \in Writing))
  /\ chain' = IF reckless' THEN <<>> ELSE c

\* The call returns r and leaves the list as it was
Return(op, r) ==
  Answer(op, r) /\ UNCHANGED <<head, tail, size, nodes, reckless, chain>>

Crash(op) ==
  /\ fault' = TRUE /\ ret' = <<op, NULL>>
  /\ UNCHANGED <<head, tail, size, nodes, reckless, chain>>

-----------------------------------------------------------------------------
(* Memory *)

\* p may be compared with NULL and, when it is not, dereferenced
Usable(p) == p = NULL \/ p \in live

\* if (p != NULL) p->f = x
Store(f, p, x) == IF p = NULL THEN f ELSE [f EXCEPT ![p] = x]

\* A node that is not live holds nothing: the model keeps its fields NULL
Scrub(f, freed) == [a \in Addr |-> IF a \in freed THEN NULL ELSE f[a]]

\* head and tail once the node between before and after is gone
HeadKept(before, after) == head   \* mutant
HeadWithout(before, after) == IF before = NULL THEN after ELSE head

TailKept(before, after) == tail   \* mutant
TailWithout(before, after) == IF after = NULL THEN before ELSE tail

\* make_node: a is what malloc returned; its links are set by the caller
MakeNodeWithoutValue(a, v) == UNCHANGED value /\ live' = live \cup {a}  \* mutant
MakeNode(a, v) ==
  value' = [value EXCEPT ![a] = v] /\ live' = live \cup {a}

Leak(freed) == UNCHANGED <<value, live>>   \* mutant
Free(freed) == value' = Scrub(value, freed) /\ live' = live \ freed

\* The pointers met when link is followed from start: the walk stops at NULL
\* and at a node that is not live.
Walk(start, link) ==
  LET w[k \in Nat] ==
        IF k = 0 THEN start
        ELSE IF w[k - 1] \in live THEN link[w[k - 1]] ELSE w[k - 1]
  IN  w

FindNodeAfter(pos) == Walk(head, next)[pos + 1]   \* mutant
FindNodeAt(pos) == Walk(head, next)[pos]

\* A do-while loop from start reaches NULL after n nodes.  A loop that does
\* not within as many nodes as there are addresses never does.
Visits(start, link, n) ==
  /\ Walk(start, link)[n] = NULL
  /\ \A k \in 0 .. n - 1 : Walk(start, link)[k] # NULL
Lengths == 0 .. Cardinality(Addr)
Endless(start, link) == \A n \in Lengths : ~Visits(start, link, n)

-----------------------------------------------------------------------------
(* The operations *)

InsertNode(v, pos) ==
  /\ Call("insert_at")
  /\ LET p == FindNodeAt(pos) IN
     \/ p = NULL /\ Return("insert_at", FALSE)
     \/ ~Usable(p) /\ Crash("insert_at")
     \/ p \in live /\ Return("insert_at", FALSE)
     \/ \E a \in Addr \ live :
          /\ p \in live
          /\ prev' = [prev EXCEPT ![a] = prev[p]]
          /\ next' = [next EXCEPT ![a] = p]
          /\ size' = size + 1
          /\ MakeNode(a, v)
          /\ UNCHANGED <<head, tail>>
          /\ Linked("insert_at", chain)
          /\ Answer("insert_at", TRUE)

GetAt(pos) ==
  /\ Call("get_at")
  /\ LET p == FindNodeAt(pos) IN
     \/ ~Usable(p) /\ Crash("get_at")
     \/ Usable(p) /\ Return("get_at", IF p = NULL THEN NULL ELSE value[p])

DelAt(pos) ==
  /\ Call("del_at")
  /\ LET p == FindNodeAt(pos)
         before == prev[p]
         after == next[p]
     IN
     \/ p = NULL /\ Return("del_at", FALSE)
     \/ /\ p # NULL
        /\ IF p \in live THEN ~Usable(before) \/ ~Usable(after) ELSE TRUE
        /\ Crash("del_at")
     \/ /\ p \in live /\ Usable(before) /\ Usable(after)
        /\ head' = HeadWithout(before, after)
        /\ tail' = TailWithout(before, after)
        /\ next' = Scrub(Store(next, before, after), {p})
        /\ prev' = Scrub(Store(prev, after, before), {p})
        /\ size' = size - 1
        /\ Free({p})
        /\ Linked("del_at", IF pos < Len(chain) THEN RemoveAt(chain, pos + 1) ELSE chain)
        /\ Answer("del_at", TRUE)

HeadValue ==
  /\ Call("head")
  /\ \/ ~Usable(head) /\ Crash("head")
     \/ Usable(head) /\ Return("head", IF head = NULL THEN NULL ELSE value[head])

\* The address malloc returns may be the one a stale head or tail still holds:
\* writing through that pointer then reaches the new node itself.
PushHead(v) ==
  /\ Call("push_head")
  /\ \/ Return("push_head", FALSE)
     \/ \E a \in Addr \ live :
          \/ head \notin live \cup {a, NULL} /\ Crash("push_head")
          \/ /\ head \in live \cup {a, NULL}
             /\ head' = a
             /\ tail' = IF head = NULL THEN a ELSE tail
             /\ next' = [next EXCEPT ![a] = head]
             /\ prev' = Store([prev EXCEPT ![a] = NULL], head, a)
             /\ size' = size + 1
             /\ MakeNode(a, v)
             /\ Linked("push_head", Cons(a, chain))
             /\ Answer("push_head", TRUE)

PopHead ==
  /\ Call("pop_head")
  /\ \/ head = NULL /\ Return("pop_head", NULL)
     \/ ~Usable(head) /\ Crash("pop_head")
     \/ /\ head \in live
        /\ head' = next[head]
        /\ next' = Scrub(next, {head})
        /\ prev' = Scrub(prev, {head})
        /\ size' = size - 1
        /\ Free({head})
        /\ UNCHANGED tail
        /\ Linked("pop_head", IF chain = <<>> THEN <<>> ELSE Tail(chain))
        /\ Answer("pop_head", value[head])

TailValue ==
  /\ Call("tail")
  /\ \/ ~Usable(tail) /\ Crash("tail")
     \/ Usable(tail) /\ Return("tail", IF tail = NULL THEN NULL ELSE value[tail])

PushTail(v) ==
  /\ Call("push_tail")
  /\ \/ Return("push_tail", FALSE)
     \/ \E a \in Addr \ live :
          \/ tail \notin live \cup {a, NULL} /\ Crash("push_tail")
          \/ /\ tail \in live \cup {a, NULL}
             /\ head' = IF tail = NULL THEN a ELSE head
             /\ tail' = a
             /\ next' = Store([next EXCEPT ![a] = NULL], tail, a)
             /\ prev' = [prev EXCEPT ![a] = tail]
             /\ size' = size + 1
             /\ MakeNode(a, v)
             /\ Linked("push_tail", Append(chain, a))
             /\ Answer("push_tail", TRUE)

PopTail ==
  /\ Call("pop_tail")
  /\ LET before == prev[tail] IN
     \/ tail = NULL /\ Return("pop_tail", NULL)
     \/ /\ tail # NULL
        /\ IF tail \in live THEN ~Usable(before) ELSE TRUE
        /\ Crash("pop_tail")
     \/ /\ tail \in live /\ Usable(before)
        /\ head' = HeadWithout(before, NULL)
        /\ tail' = TailWithout(before, NULL)
        /\ next' = Scrub(Store(next, before, NULL), {tail})
        /\ prev' = Scrub(prev, {tail})
        /\ size' = size - 1
        /\ Free({tail})
        /\ Linked("pop_tail", IF chain = <<>> THEN <<>> ELSE Front(chain))
        /\ Answer("pop_tail", value[tail])

\* iter_func is handed the nodes one by one; what it sees is the answer
Iterate(op, start, link) ==
  /\ Call(op)
  /\ \/ Endless(start, link) /\ Crash(op)
     \/ \E n \in Lengths :
          /\ Visits(start, link, n)
          /\ Return(op, [k \in 1 .. n |-> value[Walk(start, link)[k - 1]]])

ForwardIter == Iterate("forward_iter", head, next)
BackwardIter == Iterate("backward_iter", tail, prev)

\* destroy frees each node its forward iteration meets
Destroy ==
  /\ Call("destroy")
  /\ \/ Endless(head, next) /\ Crash("destroy")
     \/ \E n \in Lengths :
          LET freed == {Walk(head, next)[k] : k \in 0 .. n - 1} IN
          /\ Visits(head, next, n)
          /\ head' = NULL /\ tail' = NULL /\ size' = 0
          /\ next' = Scrub(next, freed) /\ prev' = Scrub(prev, freed)
          /\ Free(freed)
          /\ Linked("destroy", <<>>)
          /\ Answer("destroy", TRUE)

Next ==
  \/ \E v \in Value : args' = <<v>> /\ (PushHead(v) \/ PushTail(v))
  \/ \E v \in Value, pos \in Position : args' = <<v, pos>> /\ InsertNode(v, pos)
  \/ \E pos \in Position : args' = <<pos>> /\ (GetAt(pos) \/ DelAt(pos))
  \/ /\ args' = <<>>
     /\ \/ HeadValue \/ TailValue \/ PopHead \/ PopTail
        \/ ForwardIter \/ BackwardIter \/ Destroy

Spec == Init /\ [][Next]_vars
-----------------------------------------------------------------------------
(* Properties *)

\* Every pointer in the list and in its nodes is an address or NULL, and the
\* nodes chained are addresses.
TypeOK ==
  /\ head \in Pointer /\ tail \in Pointer /\ size \in Int
  /\ value \in [Addr -> Value \cup {NULL}]
  /\ prev \in [Addr -> Pointer] /\ next \in [Addr -> Pointer]
  /\ live \in SUBSET Addr /\ fault \in BOOLEAN
  /\ used \in SUBSET Tracked /\ chain \in Seq(Addr)
  /\ reckless \in BOOLEAN /\ (reckless => "pop_head" \in used)

\* Until a list popped at its head is changed through tail or prev, head and
\* the next pointers thread exactly the nodes the calls have linked, in order,
\* none twice and all of them live, whatever insert_at and pop_head have done
\* to the rest.
ForwardLinked ==
  ~reckless =>
    /\ IsInjective(chain)
    /\ \A i \in 1 .. Len(chain) : chain[i] \in live
    /\ head = IF chain = <<>> THEN NULL ELSE chain[1]
    /\ \A i \in 1 .. Len(chain) :
         next[chain[i]] = IF i < Len(chain) THEN chain[i + 1] ELSE NULL

\* Until the first pop_head, tail and the prev pointers thread the same nodes
\* backwards.
BackwardLinked ==
  "pop_head" \notin used =>
    /\ tail = IF chain = <<>> THEN NULL ELSE chain[Len(chain)]
    /\ \A i \in 1 .. Len(chain) :
         prev[chain[i]] = IF i > 1 THEN chain[i - 1] ELSE NULL

\* The nodes allocated are the nodes of the list and size counts them: no
\* operation but insert_at loses a node, destroy included.
NothingLost ==
  ~reckless /\ "insert_at" \notin used =>
    /\ \A a \in live : \E i \in 1 .. Len(chain) : a = chain[i]
    /\ size = Len(chain)

\* A call goes wrong only after pop_head, and then only if it follows tail or a
\* prev pointer itself, or if one that does has changed the list since: a list
\* popped at its head is safe as a stack, whatever has been done to it before.
FaultsOnlyPastPopHead ==
  fault => "pop_head" \in used /\ (reckless \/ ret[1] \in Trusting)

\* With neither pop_head nor insert_at in use, every call does to the sequence
\* of stored values what ListSpec says and answers from it.
L == INSTANCE ListSpec WITH
       list <- [i \in 1 .. Len(chain) |-> value[chain[i]]],
       NPOS <- -1, Capacity <- {}
ImplementsListSpec ==
  L!Init /\ [][used' \cap {"pop_head", "insert_at"} = {} => [L!Next]_L!lvars]_vars

\* linked_list.h says a list "can efficiently be used as a queue or a stack": a
\* client that changes it only by pushing at the tail and popping at the head
\* meets no freed memory, and finds from head what it has pushed and not popped.
UsableAsQueue ==
  used \subseteq {"push_tail", "pop_head"} => ~fault /\ Visits(head, next, size)

\* linked_list.h says insert_at inserts a value into the list: a list that has
\* been only pushed to and inserted into links as many nodes as its size says.
InsertAtInserts ==
  used \subseteq {"push_head", "push_tail", "insert_at"} => Visits(head, next, size)
=============================================================================
