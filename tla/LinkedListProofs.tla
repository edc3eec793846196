-------------------------- MODULE LinkedListProofs --------------------------
(***************************************************************************)
(* Proofs about LinkedList, for every finite set of addresses, every set   *)
(* of values and every bound on the positions.                             *)
(***************************************************************************)
EXTENDS ListIteration, SeqLemmas

\* c[1], ..., c[m] are live nodes, start is the first and link leads from
\* each to the next and from the last to NULL.
Threads(start, link, c, m) ==
  /\ \A i \in 1 .. m : c[i] \in live
  /\ start = IF m = 0 THEN NULL ELSE c[1]
  /\ \A i \in 1 .. m : link[c[i]] = IF i < m THEN c[i + 1] ELSE NULL

-----------------------------------------------------------------------------
(* Walking a threaded list *)

\* find_node_at and the iterators meet the nodes of a threaded list in order
\* and NULL from then on.
LEMMA WalkThreads ==
  ASSUME NEW start, NEW link, NEW m \in Nat, NEW c,
         live \subseteq Addr, Threads(start, link, c, m)
  PROVE  \A k \in Nat : Walk(start, link)[k] = IF k < m THEN c[k + 1] ELSE NULL
<1> DEFINE step(g) == [k \in Nat |->
                         IF k = 0 THEN start
                         ELSE IF g[k - 1] \in live THEN link[g[k - 1]] ELSE g[k - 1]]
           f == [k \in Nat |-> IF k < m THEN c[k + 1] ELSE NULL]
           w == Walk(start, link)
<1>1. NULL \notin live
  BY NullAssumption
<1>2. f = step(f)
  <2>1. ASSUME NEW k \in Nat PROVE f[k] = step(f)[k]
    <3>1. CASE k = 0
      BY <3>1 DEF Threads
    <3>2. CASE k # 0 /\ k - 1 < m
      <4>1. k - 1 \in Nat /\ k \in 1 .. m /\ f[k - 1] = c[k]
        BY <3>2
      <4>2. c[k] \in live /\ link[c[k]] = IF k < m THEN c[k + 1] ELSE NULL
        BY <4>1 DEF Threads
      <4> QED
        BY <3>2, <4>1, <4>2
    <3>3. CASE k # 0 /\ ~(k - 1 < m)
      <4>1. k - 1 \in Nat /\ ~(k < m)
        BY <3>3
      <4> QED
        BY <1>1, <3>3, <4>1
    <3> QED
      BY <3>1, <3>2, <3>3
  <2> QED
    BY <2>1
<1>3. w = step(w)
  <2>1. w = CHOOSE g : g = step(g)
    BY DEF Walk
  <2> HIDE DEF w, f, step
  <2> QED
    BY <1>2, <2>1
<1>4. \A k \in Nat : w[k] = f[k]
  <2> DEFINE bad == {k \in Nat : w[k] # f[k]}
  <2> HIDE DEF w, f
  <2>1. SUFFICES ASSUME bad # {} PROVE FALSE
    OBVIOUS
  <2>2. PICK n \in bad : \A k \in bad : n =< k
    BY <2>1, LeastNatural
  <2>3. w[n] = step(w)[n] /\ f[n] = step(f)[n]
    BY <1>2, <1>3
  <2>4. CASE n = 0
    BY <2>2, <2>3, <2>4
  <2>5. CASE n # 0
    <3>1. n - 1 \in Nat /\ n - 1 \notin bad
      BY <2>2, <2>5
    <3>2. w[n - 1] = f[n - 1]
      BY <3>1
    <3> QED
      BY <2>2, <2>3, <2>5, <3>2
  <2> QED
    BY <2>4, <2>5
<1> QED
  BY <1>4

\* The loop over a threaded list of m nodes ends after exactly m of them.
LEMMA VisitsThreads ==
  ASSUME NEW start, NEW link, NEW m \in Lengths, NEW c,
         live \subseteq Addr, Threads(start, link, c, m)
  PROVE  /\ ~ Endless(start, link)
         /\ \A n \in Lengths : Visits(start, link, n) => n = m
<1>1. m \in Nat /\ Lengths \subseteq Nat
  BY AddrAssumption, FS_CardinalityType DEF Lengths
<1>2. \A k \in Nat : Walk(start, link)[k] = IF k < m THEN c[k + 1] ELSE NULL
  BY <1>1, WalkThreads
<1>3. \A k \in 0 .. m - 1 : Walk(start, link)[k] # NULL
  <2> TAKE k \in 0 .. m - 1
  <2>1. k \in Nat /\ k < m /\ k + 1 \in 1 .. m
    BY <1>1
  <2>2. c[k + 1] \in Addr
    BY <2>1 DEF Threads
  <2> QED
    BY <1>2, <2>1, <2>2, NullAssumption
<1>4. Visits(start, link, m)
  BY <1>1, <1>2, <1>3 DEF Visits
<1>5. ASSUME NEW n \in Lengths, Visits(start, link, n), n # m
      PROVE  FALSE
  <2>1. CASE n < m
    BY <1>1, <1>3, <1>5, <2>1 DEF Visits
  <2>2. CASE n > m
    <3>1. m \in 0 .. n - 1
      BY <1>1, <2>2
    <3> QED
      BY <1>1, <1>2, <1>5, <3>1 DEF Visits
  <2> QED
    BY <1>1, <1>5, <2>1, <2>2
<1> QED
  BY <1>4, <1>5 DEF Endless
-----------------------------------------------------------------------------
(* Type correctness *)

\* A guarded store of a pointer, and freeing, keep a field of the nodes what
\* it is.
LEMMA FieldTypes ==
  ASSUME NEW S, NULL \in S, NEW f \in [Addr -> S]
  PROVE  /\ \A p \in Pointer, x \in S : Store(f, p, x) \in [Addr -> S]
         /\ \A freed : Scrub(f, freed) \in [Addr -> S]
BY DEF Store, Scrub, Pointer

\* Calls only add to used, and what was reckless remains so.
LEMMA Calls ==
  ASSUME NEW op, Call(op), used \in SUBSET Tracked
  PROVE  /\ ~ fault
         /\ used' \in SUBSET Tracked
         /\ used \subseteq used'
         /\ op \in Tracked => op \in used'
BY DEF Call

\* A call that changes the list: what was reckless remains so, and only an
\* operation that trusts tail or prev, after a pop_head, makes it so.
LEMMA LinkedFacts ==
  ASSUME NEW op, NEW c, Linked(op, c)
  PROVE  /\ reckless => reckless'
         /\ op \notin Writing => (reckless' <=> reckless)
         /\ reckless' => chain' = <<>>
         /\ ~reckless' =>
              chain' = c /\ ~reckless /\ (op \in Writing => "pop_head" \notin used)
<1>1. reckless' = (reckless \/ ("pop_head" \in used /\ op \in Writing))
  BY DEF Linked
<1>2. chain' = IF reckless' THEN <<>> ELSE c
  BY DEF Linked
<1> QED
  BY <1>1, <1>2

LEMMA LinkedType ==
  ASSUME TypeOK, NEW op, Call(op), NEW c \in Seq(Addr), Linked(op, c)
  PROVE  /\ chain' \in Seq(Addr)
         /\ reckless' \in BOOLEAN /\ (reckless' => "pop_head" \in used')
<1>1. chain' \in Seq(Addr)
  BY EmptySeq, LinkedFacts
<1>2. reckless' = (reckless \/ ("pop_head" \in used /\ op \in Writing))
  BY DEF Linked
<1>3. reckless \in BOOLEAN /\ (reckless => "pop_head" \in used) /\ used \in SUBSET Tracked
  BY DEF TypeOK
<1>4. used \subseteq used'
  BY <1>3, Calls
<1>5. reckless' \in BOOLEAN
  BY <1>2
<1>6. reckless' => "pop_head" \in used'
  BY <1>2, <1>3, <1>4
<1> QED
  BY <1>1, <1>5, <1>6

\* A call that returns without changing the list, or goes wrong, keeps types.
LEMMA IdleTypes ==
  ASSUME TypeOK, NEW op, Call(op),
         (\E r : Return(op, r)) \/ Crash(op)
  PROVE  TypeOK'
<1>1. used' \in SUBSET Tracked
  BY Calls DEF TypeOK
<1>2. used \subseteq used'
  BY Calls DEF TypeOK
<1>3. UNCHANGED <<head, tail, size, value, prev, next, live, reckless, chain>>
  BY DEF Return, Crash, nodes
<1>4. fault' \in BOOLEAN
  BY DEF TypeOK, Return, Crash, Answer
<1> QED
  BY <1>1, <1>2, <1>3, <1>4 DEF TypeOK

\* Every operation keeps the types, in well-linked states or not.
LEMMA TypeOKInductive ==
  ASSUME TypeOK, [Next]_vars
  PROVE  TypeOK'
<1> USE DEF TypeOK
<1>null. NULL \in Pointer /\ NULL \in Value \cup {NULL}
  BY DEF Pointer
<1>1. ASSUME NEW v \in Value, PushHead(v) PROVE TypeOK'
  <2>1. CASE Return("push_head", FALSE)
    BY <1>1, <2>1, IdleTypes DEF PushHead
  <2>2. CASE Crash("push_head")
    BY <1>1, <2>2, IdleTypes DEF PushHead
  <2>3. ASSUME NEW a \in Addr \ live, head \in live \cup {a, NULL},
               head' = a, tail' = IF head = NULL THEN a ELSE tail,
               next' = [next EXCEPT ![a] = head],
               prev' = Store([prev EXCEPT ![a] = NULL], head, a),
               size' = size + 1, MakeNode(a, v), Linked("push_head", Cons(a, chain)),
               Answer("push_head", TRUE), Call("push_head")
        PROVE  TypeOK'
    <3>1. prev' \in [Addr -> Pointer]
      BY <1>null, <2>3, FieldTypes DEF Pointer
    <3>2. /\ chain' \in Seq(Addr)
          /\ reckless' \in BOOLEAN /\ (reckless' => "pop_head" \in used')
      BY <2>3, ConsFacts, LinkedType
    <3>3. used' \in SUBSET Tracked
      BY <2>3, Calls
    <3>4. head' \in Pointer /\ tail' \in Pointer /\ size' \in Int
      BY <2>3 DEF Pointer
    <3>5. next' \in [Addr -> Pointer]
      BY <2>3 DEF Pointer
    <3>6. value' \in [Addr -> Value \cup {NULL}] /\ live' \in SUBSET Addr
      BY <2>3 DEF MakeNode
    <3>7. fault' \in BOOLEAN
      BY <2>3 DEF Answer
    <3> QED
      BY <3>1, <3>2, <3>3, <3>4, <3>5, <3>6, <3>7, Zenon
  <2> QED
    BY <1>1, <2>1, <2>2, <2>3 DEF PushHead
<1>2. ASSUME NEW v \in Value, PushTail(v) PROVE TypeOK'
  <2>1. CASE Return("push_tail", FALSE)
    BY <1>2, <2>1, IdleTypes DEF PushTail
  <2>2. CASE Crash("push_tail")
    BY <1>2, <2>2, IdleTypes DEF PushTail
  <2>3. ASSUME NEW a \in Addr \ live, tail \in live \cup {a, NULL},
               head' = IF tail = NULL THEN a ELSE head, tail' = a,
               next' = Store([next EXCEPT ![a] = NULL], tail, a),
               prev' = [prev EXCEPT ![a] = tail],
               size' = size + 1, MakeNode(a, v), Linked("push_tail", Append(chain, a)),
               Answer("push_tail", TRUE), Call("push_tail")
        PROVE  TypeOK'
    <3>1. next' \in [Addr -> Pointer]
      BY <1>null, <2>3, FieldTypes DEF Pointer
    <3>2. /\ chain' \in Seq(Addr)
          /\ reckless' \in BOOLEAN /\ (reckless' => "pop_head" \in used')
      BY <2>3, AppendProperties, LinkedType
    <3>3. used' \in SUBSET Tracked
      BY <2>3, Calls
    <3>4. head' \in Pointer /\ tail' \in Pointer /\ size' \in Int
      BY <2>3 DEF Pointer
    <3>5. prev' \in [Addr -> Pointer]
      BY <2>3 DEF Pointer
    <3>6. value' \in [Addr -> Value \cup {NULL}] /\ live' \in SUBSET Addr
      BY <2>3 DEF MakeNode
    <3>7. fault' \in BOOLEAN
      BY <2>3 DEF Answer
    <3> QED
      BY <3>1, <3>2, <3>3, <3>4, <3>5, <3>6, <3>7, Zenon
  <2> QED
    BY <1>2, <2>1, <2>2, <2>3 DEF PushTail
<1>3. ASSUME NEW v \in Value, NEW pos \in Position, InsertNode(v, pos)
      PROVE  TypeOK'
  <2> DEFINE p == FindNodeAt(pos)
  <2>1. CASE Return("insert_at", FALSE)
    BY <1>3, <2>1, IdleTypes DEF InsertNode
  <2>2. CASE Crash("insert_at")
    BY <1>3, <2>2, IdleTypes DEF InsertNode
  <2>3. ASSUME NEW a \in Addr \ live, p \in live,
               prev' = [prev EXCEPT ![a] = prev[p]],
               next' = [next EXCEPT ![a] = p], size' = size + 1,
               MakeNode(a, v), UNCHANGED <<head, tail>>, Linked("insert_at", chain),
               Answer("insert_at", TRUE), Call("insert_at")
        PROVE  TypeOK'
    <3> HIDE DEF p
    <3>1. /\ chain' \in Seq(Addr)
          /\ reckless' \in BOOLEAN /\ (reckless' => "pop_head" \in used')
      BY <2>3, LinkedType
    <3>2. used' \in SUBSET Tracked
      BY <2>3, Calls
    <3> QED
      BY <2>3, <3>1, <3>2 DEF MakeNode, Answer, Pointer
  <2> QED
    BY <1>3, <2>1, <2>2, <2>3 DEF InsertNode
<1>4. ASSUME NEW pos \in Position, GetAt(pos) PROVE TypeOK'
  BY <1>4, IdleTypes DEF GetAt
<1>5. ASSUME NEW pos \in Position, DelAt(pos) PROVE TypeOK'
  <2> DEFINE p == FindNodeAt(pos)
  <2>1. CASE Return("del_at", FALSE)
    BY <1>5, <2>1, IdleTypes DEF DelAt, HeadWithout, TailWithout
  <2>2. CASE Crash("del_at")
    BY <1>5, <2>2, IdleTypes DEF DelAt, HeadWithout, TailWithout
  <2>3. ASSUME p \in live, Usable(prev[p]), Usable(next[p]),
               head' = IF prev[p] = NULL THEN next[p] ELSE head,
               tail' = IF next[p] = NULL THEN prev[p] ELSE tail,
               next' = Scrub(Store(next, prev[p], next[p]), {p}),
               prev' = Scrub(Store(prev, next[p], prev[p]), {p}),
               size' = size - 1, Free({p}),
               Linked("del_at", IF pos < Len(chain) THEN RemoveAt(chain, pos + 1) ELSE chain),
               Answer("del_at", TRUE), Call("del_at")
        PROVE  TypeOK'
    <3> HIDE DEF p
    <3>1. p \in Addr /\ prev[p] \in Pointer /\ next[p] \in Pointer
      BY <2>3
    <3>2. next' \in [Addr -> Pointer] /\ prev' \in [Addr -> Pointer]
      BY <1>null, <2>3, <3>1, FieldTypes
    <3>3. value' \in [Addr -> Value \cup {NULL}] /\ live' \in SUBSET Addr
      BY <1>null, <2>3, FieldTypes DEF Free
    <3>4. /\ chain' \in Seq(Addr)
          /\ reckless' \in BOOLEAN /\ (reckless' => "pop_head" \in used')
      <4>1. CASE pos < Len(chain)
        <5>1. pos + 1 \in 1 .. Len(chain)
          BY <4>1, LenProperties, MaxPosAssumption DEF Position
        <5> QED
          BY <2>3, <4>1, <5>1, RemoveAtFacts, LinkedType
      <4>2. CASE ~(pos < Len(chain))
        BY <2>3, <4>2, LinkedType
      <4> QED
        BY <4>1, <4>2
    <3>5. used' \in SUBSET Tracked
      BY <2>3, Calls
    <3>6. head' \in Pointer /\ tail' \in Pointer /\ size' \in Int
      BY <2>3, <3>1
    <3>7. fault' \in BOOLEAN
      BY <2>3 DEF Answer
    <3> QED
      BY <3>2, <3>3, <3>4, <3>5, <3>6, <3>7, Zenon
  <2> QED
    BY <1>5, <2>1, <2>2, <2>3 DEF DelAt, HeadWithout, TailWithout
<1>6. CASE HeadValue
  BY <1>6, IdleTypes DEF HeadValue
<1>7. CASE TailValue
  BY <1>7, IdleTypes DEF TailValue
<1>8. CASE PopHead
  <2>1. CASE Return("pop_head", NULL)
    BY <1>8, <2>1, IdleTypes DEF PopHead
  <2>2. CASE Crash("pop_head")
    BY <1>8, <2>2, IdleTypes DEF PopHead
  <2>3. ASSUME head \in live, head' = next[head],
               next' = Scrub(next, {head}), prev' = Scrub(prev, {head}),
               size' = size - 1, Free({head}), UNCHANGED tail,
               Linked("pop_head", IF chain = <<>> THEN <<>> ELSE Tail(chain)),
               Answer("pop_head", value[head]), Call("pop_head")
        PROVE  TypeOK'
    <3>1. /\ next' \in [Addr -> Pointer] /\ prev' \in [Addr -> Pointer]
          /\ value' \in [Addr -> Value \cup {NULL}] /\ live' \in SUBSET Addr
      BY <1>null, <2>3, FieldTypes DEF Free
    <3>2. /\ chain' \in Seq(Addr)
          /\ reckless' \in BOOLEAN /\ (reckless' => "pop_head" \in used')
      BY <2>3, LinkedType, EmptySeq, HeadTailProperties
    <3>3. used' \in SUBSET Tracked
      BY <2>3, Calls
    <3>4. head' \in Pointer /\ tail' \in Pointer /\ size' \in Int
      BY <2>3
    <3>5. fault' \in BOOLEAN
      BY <2>3 DEF Answer
    <3> QED
      BY <3>1, <3>2, <3>3, <3>4, <3>5, Zenon
  <2> QED
    BY <1>8, <2>1, <2>2, <2>3 DEF PopHead
<1>9. CASE PopTail
  <2>1. CASE Return("pop_tail", NULL)
    BY <1>9, <2>1, IdleTypes DEF PopTail, HeadWithout, TailWithout
  <2>2. CASE Crash("pop_tail")
    BY <1>9, <2>2, IdleTypes DEF PopTail, HeadWithout, TailWithout
  <2>3. ASSUME tail \in live, Usable(prev[tail]),
               head' = IF prev[tail] = NULL THEN NULL ELSE head,
               tail' = prev[tail],
               next' = Scrub(Store(next, prev[tail], NULL), {tail}),
               prev' = Scrub(prev, {tail}), size' = size - 1, Free({tail}),
               Linked("pop_tail", IF chain = <<>> THEN <<>> ELSE Front(chain)),
               Answer("pop_tail", value[tail]), Call("pop_tail")
        PROVE  TypeOK'
    <3>1. prev[tail] \in Pointer
      BY <2>3
    <3>2. /\ next' \in [Addr -> Pointer] /\ prev' \in [Addr -> Pointer]
          /\ value' \in [Addr -> Value \cup {NULL}] /\ live' \in SUBSET Addr
      BY <1>null, <2>3, <3>1, FieldTypes DEF Free
    <3>3. /\ chain' \in Seq(Addr)
          /\ reckless' \in BOOLEAN /\ (reckless' => "pop_head" \in used')
      BY <2>3, LinkedType, EmptySeq, FrontFacts
    <3>4. used' \in SUBSET Tracked
      BY <2>3, Calls
    <3>5. head' \in Pointer /\ tail' \in Pointer /\ size' \in Int
      BY <1>null, <2>3, <3>1
    <3>6. fault' \in BOOLEAN
      BY <2>3 DEF Answer
    <3> QED
      BY <3>2, <3>3, <3>4, <3>5, <3>6, Zenon
  <2> QED
    BY <1>9, <2>1, <2>2, <2>3 DEF PopTail, HeadWithout, TailWithout
<1>10. CASE ForwardIter
  BY <1>10, IdleTypes DEF ForwardIter, Iterate
<1>11. CASE BackwardIter
  BY <1>11, IdleTypes DEF BackwardIter, Iterate
<1>12. CASE Destroy
  <2>1. CASE Crash("destroy")
    BY <1>12, <2>1, IdleTypes DEF Destroy
  <2>2. ASSUME NEW freed, head' = NULL, tail' = NULL, size' = 0,
               next' = Scrub(next, freed), prev' = Scrub(prev, freed),
               Free(freed), Linked("destroy", <<>>), Answer("destroy", TRUE),
               Call("destroy")
        PROVE  TypeOK'
    <3>1. /\ next' \in [Addr -> Pointer] /\ prev' \in [Addr -> Pointer]
          /\ value' \in [Addr -> Value \cup {NULL}] /\ live' \in SUBSET Addr
      BY <1>null, <2>2, FieldTypes DEF Free
    <3>2. /\ chain' \in Seq(Addr)
          /\ reckless' \in BOOLEAN /\ (reckless' => "pop_head" \in used')
      BY <2>2, LinkedType, EmptySeq
    <3>3. used' \in SUBSET Tracked
      BY <2>2, Calls
    <3> QED
      BY <1>null, <2>2, <3>1, <3>2, <3>3 DEF Answer
  <2> QED
    BY <1>12, <2>1, <2>2 DEF Destroy
<1>13. CASE UNCHANGED vars
  BY <1>13 DEF vars
<1> QED
  BY <1>1, <1>2, <1>3, <1>4, <1>5, <1>6, <1>7, <1>8, <1>9, <1>10, <1>11,
     <1>12, <1>13 DEF Next

\* The list linked_list_init sets up has the types.
LEMMA InitTypes == Init => TypeOK
<1>1. ASSUME Init PROVE TypeOK
  <2>1. head \in Pointer /\ tail \in Pointer /\ size \in Int
    BY <1>1 DEF Init, EmptyList, Pointer
  <2>2. value \in [Addr -> Value \cup {NULL}]
    BY <1>1 DEF Init, EmptyList
  <2>3. prev \in [Addr -> Pointer] /\ next \in [Addr -> Pointer]
    BY <1>1 DEF Init, EmptyList, Pointer
  <2>4. live \in SUBSET Addr /\ used \in SUBSET Tracked /\ chain \in Seq(Addr)
    BY <1>1 DEF Init, EmptyList
  <2>5. fault \in BOOLEAN
    BY <1>1 DEF Init, EmptyList
  <2>6. reckless \in BOOLEAN /\ (reckless => "pop_head" \in used)
    BY <1>1 DEF Init
  <2> QED
    BY <2>1, <2>2, <2>3, <2>4, <2>5, <2>6, Zenon DEF TypeOK
<1> QED
  BY <1>1

\* Initially and after every step each field of the list and of its nodes
\* holds an address or NULL, whatever the client has called.
THEOREM TypeCorrect == Spec => []TypeOK
<1> QED
  BY InitTypes, TypeOKInductive, PTL DEF Spec
-----------------------------------------------------------------------------
(* The shape of a linked list, apart from the state that holds it: c[1] to *)
(* c[n] are the nodes, h and t its ends, nx and pv its links, lv the nodes *)
(* allocated.                                                              *)

Forward(h, nx, lv, c, n) ==
  /\ \A i, j \in 1 .. n : c[i] = c[j] => i = j
  /\ \A i \in 1 .. n : c[i] \in lv
  /\ h = IF n = 0 THEN NULL ELSE c[1]
  /\ \A i \in 1 .. n : nx[c[i]] = IF i < n THEN c[i + 1] ELSE NULL

Backward(t, pv, c, n) ==
  /\ t = IF n = 0 THEN NULL ELSE c[n]
  /\ \A i \in 1 .. n : pv[c[i]] = IF i > 1 THEN c[i - 1] ELSE NULL

Covered(lv, c, n) == \A a \in lv : \E i \in 1 .. n : a = c[i]

\* c with its k'th node taken out
Without(d, c, n, k) ==
  \A i \in 1 .. n - 1 : d[i] = IF i < k THEN c[i] ELSE c[i + 1]

\* A node put before the head threads forwards.
LEMMA PushHeadForward ==
  ASSUME NEW n \in Nat, NEW c, NEW d, NEW h, NEW nx \in [Addr -> Pointer],
         NEW lv \in SUBSET Addr, NEW a \in Addr \ lv,
         Forward(h, nx, lv, c, n),
         d[1] = a, \A i \in 2 .. n + 1 : d[i] = c[i - 1]
  PROVE  Forward(a, [nx EXCEPT ![a] = h], lv \cup {a}, d, n + 1)
<1> DEFINE nx1 == [nx EXCEPT ![a] = h]
<1>1. \A i \in 1 .. n : c[i] \in lv /\ c[i] # a /\ d[i + 1] = c[i]
  BY DEF Forward
<1>2. ASSUME NEW i \in 1 .. n + 1, NEW j \in 1 .. n + 1, d[i] = d[j]
      PROVE  i = j
  <2>1. CASE i > 1 /\ j > 1
    <3>1. i - 1 \in 1 .. n /\ j - 1 \in 1 .. n /\ d[i] = c[i - 1] /\ d[j] = c[j - 1]
      BY <2>1
    <3>2. c[i - 1] = c[j - 1]
      BY <1>2, <3>1
    <3>3. i - 1 = j - 1
      BY <3>1, <3>2 DEF Forward
    <3> QED
      BY <3>3
  <2>2. CASE i > 1 /\ j = 1
    <3>1. i - 1 \in 1 .. n /\ d[i] = c[i - 1]
      BY <2>2
    <3> QED
      BY <1>1, <1>2, <2>2, <3>1
  <2>3. CASE i = 1 /\ j > 1
    <3>1. j - 1 \in 1 .. n /\ d[j] = c[j - 1]
      BY <2>3
    <3> QED
      BY <1>1, <1>2, <2>3, <3>1
  <2> QED
    BY <2>1, <2>2, <2>3
<1>3. \A i \in 1 .. n + 1 : d[i] \in lv \cup {a}
  <2> TAKE i \in 1 .. n + 1
  <2>1. CASE i > 1
    <3>1. i - 1 \in 1 .. n
      BY <2>1
    <3> QED
      BY <1>1, <2>1, <3>1
  <2> QED
    BY <2>1
<1>4. \A i \in 1 .. n + 1 : nx1[d[i]] = IF i < n + 1 THEN d[i + 1] ELSE NULL
  <2> TAKE i \in 1 .. n + 1
  <2>1. CASE i > 1
    <3>1. i - 1 \in 1 .. n /\ d[i] = c[i - 1]
      BY <2>1
    <3>2. c[i - 1] \in lv /\ c[i - 1] # a
      BY <1>1, <3>1
    <3>3. nx1[d[i]] = nx[c[i - 1]]
      BY <3>1, <3>2
    <3>4. nx[c[i - 1]] = IF i - 1 < n THEN c[i] ELSE NULL
      BY <3>1 DEF Forward
    <3>5. i < n + 1 => d[i + 1] = c[i]
      BY <1>1, <2>1
    <3> QED
      BY <2>1, <3>3, <3>4, <3>5
  <2>2. CASE i = 1
    <3>1. nx1[d[i]] = h
      BY <2>2
    <3>2. n > 0 => d[2] = c[1]
      BY <1>1
    <3> QED
      BY <2>2, <3>1, <3>2 DEF Forward
  <2> QED
    BY <2>1, <2>2
<1> QED
  BY <1>2, <1>3, <1>4 DEF Forward

\* A node put before the head threads backwards.
LEMMA PushHeadBackward ==
  ASSUME NEW n \in Nat, NEW c, NEW d, NEW h, NEW t, NEW nx,
         NEW pv \in [Addr -> Pointer],
         NEW lv \in SUBSET Addr, NEW a \in Addr \ lv,
         Forward(h, nx, lv, c, n), Backward(t, pv, c, n),
         d[1] = a, \A i \in 2 .. n + 1 : d[i] = c[i - 1]
  PROVE  Backward(IF h = NULL THEN a ELSE t,
                  Store([pv EXCEPT ![a] = NULL], h, a), d, n + 1)
<1> DEFINE pv1 == Store([pv EXCEPT ![a] = NULL], h, a)
<1>1. \A i \in 1 .. n : c[i] \in lv /\ c[i] # a /\ c[i] # NULL /\ d[i + 1] = c[i]
  BY NullAssumption DEF Forward
<1>2. h = NULL <=> n = 0
  BY <1>1 DEF Forward
<1>3. (IF h = NULL THEN a ELSE t) = IF n + 1 = 0 THEN NULL ELSE d[n + 1]
  <2>1. CASE n = 0
    BY <1>2, <2>1
  <2>2. CASE n > 0
    BY <1>1, <1>2, <2>2 DEF Backward
  <2> QED
    BY <2>1, <2>2
<1>4. \A i \in 1 .. n + 1 : pv1[d[i]] = IF i > 1 THEN d[i - 1] ELSE NULL
  <2> TAKE i \in 1 .. n + 1
  <2>1. CASE i = 1
    <3>1. h # a
      BY <1>1, NullAssumption DEF Forward
    <3> QED
      BY <2>1, <3>1 DEF Store
  <2>2. CASE i = 2
    <3>1. n >= 1 /\ h = c[1] /\ d[2] = h /\ h # NULL /\ h \in Addr
      BY <1>1, <2>2 DEF Forward
    <3> QED
      BY <2>2, <3>1 DEF Store
  <2>3. CASE i > 2
    <3>1. i - 1 \in 2 .. n /\ d[i] = c[i - 1] /\ i - 2 \in 1 .. n
      BY <2>3
    <3>2. d[i - 1] = c[i - 2]
      BY <2>3
    <3>3. c[i - 1] \in Addr /\ c[i - 1] # a
      BY <1>1, <3>1
    <3>4. c[i - 1] # h
      BY <3>1 DEF Forward
    <3>5. pv1[c[i - 1]] = pv[c[i - 1]]
      BY <3>3, <3>4 DEF Store
    <3>6. pv[c[i - 1]] = c[i - 2]
      BY <3>1 DEF Backward
    <3> QED
      BY <2>3, <3>1, <3>2, <3>5, <3>6
  <2> QED
    BY <2>1, <2>2, <2>3
<1> QED
  BY <1>3, <1>4 DEF Backward
\* A node put after the tail threads forwards.
LEMMA PushTailForward ==
  ASSUME NEW n \in Nat, NEW c, NEW d, NEW h, NEW t, NEW pv,
         NEW nx \in [Addr -> Pointer],
         NEW lv \in SUBSET Addr, NEW a \in Addr \ lv,
         Forward(h, nx, lv, c, n), Backward(t, pv, c, n),
         d[n + 1] = a, \A i \in 1 .. n : d[i] = c[i]
  PROVE  Forward(IF t = NULL THEN a ELSE h,
                 Store([nx EXCEPT ![a] = NULL], t, a), lv \cup {a}, d, n + 1)
<1> DEFINE nx1 == Store([nx EXCEPT ![a] = NULL], t, a)
<1>1. \A i \in 1 .. n : c[i] \in lv /\ c[i] # a /\ c[i] # NULL /\ d[i] = c[i]
  BY NullAssumption DEF Forward
<1>2. t = NULL <=> n = 0
  BY <1>1 DEF Backward
<1>3. t # a
  BY <1>1, NullAssumption DEF Backward
<1>4. ASSUME NEW i \in 1 .. n + 1, NEW j \in 1 .. n + 1, d[i] = d[j]
      PROVE  i = j
  <2>1. CASE i \in 1 .. n /\ j \in 1 .. n
    <3>1. c[i] = c[j]
      BY <1>1, <1>4, <2>1
    <3> QED
      BY <2>1, <3>1 DEF Forward
  <2>2. CASE i \in 1 .. n /\ j = n + 1
    BY <1>1, <1>4, <2>2
  <2>3. CASE i = n + 1 /\ j \in 1 .. n
    BY <1>1, <1>4, <2>3
  <2> QED
    BY <2>1, <2>2, <2>3
<1>5. \A i \in 1 .. n + 1 : d[i] \in lv \cup {a}
  <2> TAKE i \in 1 .. n + 1
  <2>1. CASE i \in 1 .. n
    BY <1>1, <2>1
  <2> QED
    BY <2>1
<1>6. (IF t = NULL THEN a ELSE h) = IF n + 1 = 0 THEN NULL ELSE d[1]
  <2>1. CASE n = 0
    BY <1>2, <2>1
  <2>2. CASE n > 0
    BY <1>1, <1>2, <2>2 DEF Forward
  <2> QED
    BY <2>1, <2>2
<1>7. \A i \in 1 .. n + 1 : nx1[d[i]] = IF i < n + 1 THEN d[i + 1] ELSE NULL
  <2> TAKE i \in 1 .. n + 1
  <2>1. CASE i = n + 1
    BY <1>3, <2>1 DEF Store
  <2>2. CASE i = n
    <3>1. t = c[n] /\ t # NULL /\ d[n] = t /\ t \in Addr
      BY <1>1, <2>2 DEF Backward
    <3> QED
      BY <2>2, <3>1 DEF Store
  <2>3. CASE i < n
    <3>1. i \in 1 .. n /\ i + 1 \in 1 .. n /\ n \in 1 .. n
      BY <2>3
    <3>2. d[i] = c[i] /\ d[i + 1] = c[i + 1] /\ c[i] # a /\ c[i] \in Addr
      BY <1>1, <3>1
    <3>3. c[i] # t
      BY <2>3, <3>1 DEF Forward, Backward
    <3>4. nx1[c[i]] = nx[c[i]]
      BY <3>2, <3>3 DEF Store
    <3>5. nx[c[i]] = c[i + 1]
      BY <2>3, <3>1 DEF Forward
    <3> QED
      BY <2>3, <3>2, <3>4, <3>5
  <2> QED
    BY <2>1, <2>2, <2>3
<1> QED
  BY <1>4, <1>5, <1>6, <1>7 DEF Forward

\* A node put after the tail threads backwards.
LEMMA PushTailBackward ==
  ASSUME NEW n \in Nat, NEW c, NEW d, NEW h, NEW t, NEW nx,
         NEW pv \in [Addr -> Pointer],
         NEW lv \in SUBSET Addr, NEW a \in Addr \ lv,
         Forward(h, nx, lv, c, n), Backward(t, pv, c, n),
         d[n + 1] = a, \A i \in 1 .. n : d[i] = c[i]
  PROVE  Backward(a, [pv EXCEPT ![a] = t], d, n + 1)
<1> DEFINE pv1 == [pv EXCEPT ![a] = t]
<1>1. \A i \in 1 .. n : c[i] \in Addr /\ c[i] # a /\ d[i] = c[i]
  BY DEF Forward
<1>2. \A i \in 1 .. n + 1 : pv1[d[i]] = IF i > 1 THEN d[i - 1] ELSE NULL
  <2> TAKE i \in 1 .. n + 1
  <2>1. CASE i = n + 1
    <3>1. pv1[d[i]] = t
      BY <2>1
    <3>2. n > 0 => d[n] = c[n]
      BY <1>1
    <3> QED
      BY <2>1, <3>1, <3>2 DEF Backward
  <2>2. CASE i < n + 1
    <3>1. i \in 1 .. n
      BY <2>2
    <3>2. pv1[d[i]] = pv[c[i]]
      BY <1>1, <3>1
    <3>3. pv[c[i]] = IF i > 1 THEN c[i - 1] ELSE NULL
      BY <3>1 DEF Backward
    <3>4. i > 1 => d[i - 1] = c[i - 1]
      BY <1>1, <3>1
    <3> QED
      BY <3>2, <3>3, <3>4
  <2> QED
    BY <2>1, <2>2
<1> QED
  BY <1>2 DEF Backward

\* Taking out the k'th node and joining its neighbours threads forwards.
LEMMA UnlinkForward ==
  ASSUME NEW n \in Nat, NEW c, NEW d, NEW h, NEW nx \in [Addr -> Pointer],
         NEW lv \in SUBSET Addr, NEW k \in 1 .. n,
         NEW before, NEW after,
         before = IF k > 1 THEN c[k - 1] ELSE NULL,
         after = IF k < n THEN c[k + 1] ELSE NULL,
         Forward(h, nx, lv, c, n), Without(d, c, n, k)
  PROVE  Forward(IF before = NULL THEN after ELSE h,
                 Scrub(Store(nx, before, after), {c[k]}), lv \ {c[k]}, d, n - 1)
<1> DEFINE nx1 == Scrub(Store(nx, before, after), {c[k]})
<1>1. \A i \in 1 .. n : c[i] \in lv /\ c[i] \in Addr /\ c[i] # NULL
  BY NullAssumption DEF Forward
<1>2. \A i, j \in 1 .. n : c[i] = c[j] => i = j
  BY DEF Forward
<1>3. \A i \in 1 .. n - 1 : (i < k => d[i] = c[i]) /\ (i >= k => d[i] = c[i + 1])
  BY DEF Without
<1>4. before = NULL <=> k = 1
  BY <1>1
<1>5. ASSUME NEW i \in 1 .. n - 1, NEW j \in 1 .. n - 1, d[i] = d[j]
      PROVE  i = j
  <2>1. CASE i < k /\ j < k
    BY <1>2, <1>3, <1>5, <2>1
  <2>2. CASE i < k /\ j >= k
    BY <1>2, <1>3, <1>5, <2>2
  <2>3. CASE i >= k /\ j < k
    BY <1>2, <1>3, <1>5, <2>3
  <2>4. CASE i >= k /\ j >= k
    <3>1. c[i + 1] = c[j + 1] /\ i + 1 \in 1 .. n /\ j + 1 \in 1 .. n
      BY <1>3, <1>5, <2>4
    <3>2. i + 1 = j + 1
      BY <1>2, <3>1
    <3> QED
      BY <3>2
  <2> QED
    BY <2>1, <2>2, <2>3, <2>4
<1>6. \A i \in 1 .. n - 1 : d[i] \in lv \ {c[k]}
  <2> TAKE i \in 1 .. n - 1
  <2>1. CASE i < k
    BY <1>1, <1>2, <1>3, <2>1
  <2>2. CASE i >= k
    <3>1. i + 1 \in 1 .. n /\ i + 1 # k /\ d[i] = c[i + 1]
      BY <1>3, <2>2
    <3> QED
      BY <1>1, <1>2, <3>1
  <2> QED
    BY <2>1, <2>2
<1>7. (IF before = NULL THEN after ELSE h) = IF n - 1 = 0 THEN NULL ELSE d[1]
  <2>1. CASE k = 1
    BY <1>3, <1>4, <2>1
  <2>2. CASE k > 1
    BY <1>3, <1>4, <2>2 DEF Forward
  <2> QED
    BY <2>1, <2>2
<1>8. \A i \in 1 .. n - 1 : nx1[d[i]] = IF i < n - 1 THEN d[i + 1] ELSE NULL
  <2> TAKE i \in 1 .. n - 1
  <2>0. d[i] # c[k] /\ d[i] \in Addr
    BY <1>6
  <2>00. nx1[d[i]] = Store(nx, before, after)[d[i]]
    BY <2>0 DEF Scrub
  <2> HIDE DEF nx1
  <2>1. CASE i = k - 1
    <3>1. before = c[i] /\ d[i] = c[i] /\ before # NULL /\ before \in Addr
      BY <1>1, <1>3, <2>1
    <3>2. Store(nx, before, after)[d[i]] = after
      BY <3>1 DEF Store
    <3>3. i < n - 1 => d[i + 1] = c[k + 1]
      BY <1>3, <2>1
    <3> QED
      BY <2>1, <2>00, <3>2, <3>3
  <2>2. CASE i # k - 1
    <3>1. d[i] # before
      <4>1. CASE k = 1
        BY <1>1, <1>4, <2>0, <4>1, NullAssumption
      <4>2. CASE k > 1 /\ i < k
        BY <1>2, <1>3, <2>2, <4>2
      <4>3. CASE k > 1 /\ i >= k
        <5>1. i + 1 \in 1 .. n /\ k - 1 \in 1 .. n /\ i + 1 # k - 1 /\ d[i] = c[i + 1]
          BY <1>3, <4>3
        <5> QED
          BY <1>2, <4>3, <5>1
      <4> QED
        BY <4>1, <4>2, <4>3
    <3>2. nx1[d[i]] = nx[d[i]]
      BY <2>0, <2>00, <3>1 DEF Store
    <3>3. CASE i < k
      <4>1. i + 1 < k /\ i \in 1 .. n /\ i < n - 1 /\ i + 1 \in 1 .. n - 1
        BY <2>2, <3>3
      <4>2. d[i] = c[i] /\ d[i + 1] = c[i + 1]
        BY <1>3, <3>3, <4>1
      <4>3. nx[c[i]] = c[i + 1]
        BY <4>1 DEF Forward
      <4> QED
        BY <3>2, <4>1, <4>2, <4>3
    <3>4. CASE i >= k
      <4>1. i + 1 \in 1 .. n /\ d[i] = c[i + 1]
        BY <1>3, <3>4
      <4>2. nx[c[i + 1]] = IF i + 1 < n THEN c[i + 2] ELSE NULL
        BY <4>1 DEF Forward
      <4>3. i < n - 1 => d[i + 1] = c[i + 2]
        BY <1>3, <3>4
      <4> QED
        BY <3>2, <4>1, <4>2, <4>3
    <3> QED
      BY <3>3, <3>4
  <2> QED
    BY <2>1, <2>2
<1> QED
  BY <1>5, <1>6, <1>7, <1>8 DEF Forward

\* Taking out the k'th node and joining its neighbours threads backwards.
LEMMA UnlinkBackward ==
  ASSUME NEW n \in Nat, NEW c, NEW d, NEW h, NEW t, NEW nx,
         NEW pv \in [Addr -> Pointer],
         NEW lv \in SUBSET Addr, NEW k \in 1 .. n,
         NEW before, NEW after,
         before = IF k > 1 THEN c[k - 1] ELSE NULL,
         after = IF k < n THEN c[k + 1] ELSE NULL,
         Forward(h, nx, lv, c, n), Backward(t, pv, c, n), Without(d, c, n, k)
  PROVE  Backward(IF after = NULL THEN before ELSE t,
                  Scrub(Store(pv, after, before), {c[k]}), d, n - 1)
<1> DEFINE pv1 == Scrub(Store(pv, after, before), {c[k]})
<1>1. \A i \in 1 .. n : c[i] \in Addr /\ c[i] # NULL
  BY NullAssumption DEF Forward
<1>2. \A i, j \in 1 .. n : c[i] = c[j] => i = j
  BY DEF Forward
<1>3. \A i \in 1 .. n - 1 : (i < k => d[i] = c[i]) /\ (i >= k => d[i] = c[i + 1])
  BY DEF Without
<1>4. after = NULL <=> k = n
  BY <1>1
<1>5. (IF after = NULL THEN before ELSE t) = IF n - 1 = 0 THEN NULL ELSE d[n - 1]
  <2>1. CASE k = n
    BY <1>3, <1>4, <2>1
  <2>2. CASE k < n
    BY <1>3, <1>4, <2>2 DEF Backward
  <2> QED
    BY <2>1, <2>2
<1>6. \A i \in 1 .. n - 1 : pv1[d[i]] = IF i > 1 THEN d[i - 1] ELSE NULL
  <2> TAKE i \in 1 .. n - 1
  <2>1. CASE i < k
    <3>1. i \in 1 .. n /\ d[i] = c[i] /\ i # k /\ c[i] # c[k] /\ d[i] \in Addr
      BY <1>1, <1>2, <1>3, <2>1
    <3>2. d[i] # after
      <4>1. CASE k = n
        BY <1>1, <1>4, <3>1, <4>1
      <4>2. CASE k < n
        BY <1>2, <2>1, <3>1, <4>2
      <4> QED
        BY <4>1, <4>2
    <3>3. pv1[d[i]] = pv[c[i]]
      BY <3>1, <3>2 DEF Scrub, Store
    <3>4. pv[c[i]] = IF i > 1 THEN c[i - 1] ELSE NULL
      BY <3>1 DEF Backward
    <3>5. i > 1 => d[i - 1] = c[i - 1]
      BY <1>3, <2>1
    <3> QED
      BY <3>3, <3>4, <3>5
  <2>2. CASE i = k
    <3>1. k < n /\ d[i] = after /\ after # NULL /\ after \in Addr /\ after # c[k]
      BY <1>1, <1>2, <1>3, <1>4, <2>2
    <3>2. pv1[d[i]] = before
      BY <3>1 DEF Scrub, Store
    <3>3. k > 1 => d[k - 1] = c[k - 1]
      BY <1>3
    <3> QED
      BY <2>2, <3>2, <3>3
  <2>3. CASE i > k
    <3>1. /\ i + 1 \in 1 .. n /\ k + 1 \in 1 .. n /\ d[i] = c[i + 1]
          /\ d[i] \in Addr /\ i - 1 \in 1 .. n - 1 /\ d[i - 1] = c[i]
      BY <1>1, <1>3, <2>3
    <3>2. d[i] # c[k] /\ d[i] # after
      BY <1>2, <2>3, <3>1
    <3>3. pv1[d[i]] = pv[c[i + 1]]
      BY <3>1, <3>2 DEF Scrub, Store
    <3>4. pv[c[i + 1]] = c[i]
      BY <2>3, <3>1 DEF Backward
    <3> QED
      BY <2>3, <3>1, <3>3, <3>4
  <2> QED
    BY <2>1, <2>2, <2>3
<1> QED
  BY <1>5, <1>6 DEF Backward

\* Taking out the k'th node leaves the others allocated and nothing else.
LEMMA UnlinkCovered ==
  ASSUME NEW n \in Nat, NEW c, NEW d, NEW lv, NEW k \in 1 .. n,
         Covered(lv, c, n), Without(d, c, n, k)
  PROVE  Covered(lv \ {c[k]}, d, n - 1)
<1> SUFFICES ASSUME NEW a \in lv \ {c[k]}
             PROVE  \E i \in 1 .. n - 1 : a = d[i]
  BY DEF Covered
<1>1. PICK i \in 1 .. n : a = c[i]
  BY DEF Covered
<1>2. CASE i < k
  <2>1. i \in 1 .. n - 1 /\ d[i] = c[i]
    BY <1>2 DEF Without
  <2> QED
    BY <1>1, <2>1
<1>3. CASE i > k
  <2>1. i - 1 \in 1 .. n - 1 /\ d[i - 1] = c[i]
    <3>1. i - 1 \in 1 .. n - 1 /\ ~(i - 1 < k)
      BY <1>3
    <3> QED
      BY <3>1 DEF Without
  <2> QED
    BY <1>1, <2>1
<1> QED
  BY <1>1, <1>2, <1>3
-----------------------------------------------------------------------------
(* The invariants of the state, in terms of the shape *)

Inv ==
  TypeOK /\ ForwardLinked /\ BackwardLinked /\ NothingLost /\ FaultsOnlyPastPopHead

\* The invariants are the shape of the list, as far as the calls preserve it.
Shaped(n) ==
  /\ n = Len(chain)
  /\ ~reckless => Forward(head, next, live, chain, n)
  /\ "pop_head" \notin used => Backward(tail, prev, chain, n)
  /\ ~reckless /\ "insert_at" \notin used =>
       Covered(live, chain, n) /\ size = n

\* What a sequence of addresses gives the provers to count with.
LEMMA ChainFacts ==
  ASSUME NEW c \in Seq(Addr)
  PROVE  /\ \E n \in Nat : n = Len(c)
         /\ c = <<>> <=> Len(c) = 0
         /\ DOMAIN c = 1 .. Len(c)
         /\ \A i \in 1 .. Len(c) : c[i] \in Addr
<1>1. Len(c) \in Nat /\ DOMAIN c = 1 .. Len(c) /\ \A i \in 1 .. Len(c) : c[i] \in Addr
  BY LenProperties
<1>2. c = <<>> <=> Len(c) = 0
  BY EmptySeq
<1> QED
  BY <1>1, <1>2

LEMMA ShapedIsInv ==
  ASSUME chain \in Seq(Addr), NEW n \in Nat, n = Len(chain)
  PROVE  Shaped(n) <=> ForwardLinked /\ BackwardLinked /\ NothingLost
<1>1. /\ chain = <<>> <=> n = 0
      /\ DOMAIN chain = 1 .. n
  BY ChainFacts
<1>2. ForwardLinked <=> (~reckless => Forward(head, next, live, chain, n))
  BY <1>1 DEF ForwardLinked, Forward, IsInjective
<1>3. BackwardLinked <=> ("pop_head" \notin used => Backward(tail, prev, chain, n))
  BY <1>1 DEF BackwardLinked, Backward
<1>4. NothingLost <=> (~reckless /\ "insert_at" \notin used =>
                          Covered(live, chain, n) /\ size = n)
  BY DEF NothingLost, Covered
<1> QED
  BY <1>2, <1>3, <1>4, Zenon DEF Shaped

\* The same after a step.
LEMMA ShapedIsInvNext ==
  ASSUME chain' \in Seq(Addr), NEW n \in Nat, n = Len(chain'), Shaped(n)'
  PROVE  ForwardLinked' /\ BackwardLinked' /\ NothingLost'
<1>1. /\ chain' = <<>> <=> n = 0
      /\ DOMAIN chain' = 1 .. n
  BY ChainFacts
<1>2. (~reckless)' => Forward(head, next, live, chain, n)'
  BY DEF Shaped
<1>3. ForwardLinked'
  BY <1>1, <1>2 DEF ForwardLinked, Forward, IsInjective
<1>4. BackwardLinked'
  BY <1>1 DEF BackwardLinked, Backward, Shaped
<1>5. NothingLost'
  BY DEF NothingLost, Covered, Shaped
<1> QED
  BY <1>3, <1>4, <1>5
\* Until the links are reckless, head, find_node_at and the forward loops
\* meet only live nodes, and the loops end after the n nodes of the list.
LEMMA ForwardWalk ==
  ASSUME TypeOK, NEW n \in Nat, Shaped(n), ~reckless
  PROVE  /\ n \in Lengths
         /\ Usable(head)
         /\ \A k \in Nat : Walk(head, next)[k] = IF k < n THEN chain[k + 1] ELSE NULL
         /\ \A k \in Nat : Usable(Walk(head, next)[k])
         /\ ~Endless(head, next)
         /\ \A m \in Lengths : Visits(head, next, m) => m = n
<1>1. /\ chain \in Seq(Addr) /\ live \subseteq Addr
      /\ Forward(head, next, live, chain, n) /\ n = Len(chain)
  BY DEF TypeOK, Shaped
<1>2. IsInjective(chain)
  BY <1>1, ChainFacts DEF Forward, IsInjective
<1>3. n \in Lengths
  BY <1>1, <1>2, InjectiveLen, AddrAssumption DEF Lengths
<1>4. Threads(head, next, chain, n)
  BY <1>1 DEF Threads, Forward
<1>5. \A k \in Nat : Walk(head, next)[k] = IF k < n THEN chain[k + 1] ELSE NULL
  BY <1>1, <1>4, WalkThreads
<1>6. \A i \in 1 .. n : chain[i] \in live
  BY <1>1 DEF Forward
<1>7. \A k \in Nat : Usable(Walk(head, next)[k])
  <2> TAKE k \in Nat
  <2>1. CASE k < n
    <3>1. k + 1 \in 1 .. n
      BY <2>1
    <3> QED
      BY <1>5, <1>6, <2>1, <3>1 DEF Usable
  <2>2. CASE ~(k < n)
    BY <1>5, <2>2 DEF Usable
  <2> QED
    BY <2>1, <2>2
<1>8. Usable(head)
  BY <1>1, <1>6 DEF Forward, Usable
<1>9. /\ ~Endless(head, next)
      /\ \A m \in Lengths : Visits(head, next, m) => m = n
  BY <1>1, <1>3, <1>4, VisitsThreads
<1> QED
  BY <1>3, <1>5, <1>7, <1>8, <1>9

\* Before the first pop_head the same holds of tail and the backward loop.
LEMMA BackwardWalk ==
  ASSUME TypeOK, NEW n \in Nat, Shaped(n), "pop_head" \notin used
  PROVE  /\ ~reckless /\ Usable(tail) /\ ~Endless(tail, prev)
         /\ \A m \in Lengths : Visits(tail, prev, m) => m = n
         /\ \A k \in Nat : Walk(tail, prev)[k] = IF k < n THEN chain[n - k] ELSE NULL
<1>0. ~reckless
  BY DEF TypeOK
<1>1. /\ live \subseteq Addr
      /\ Forward(head, next, live, chain, n) /\ Backward(tail, prev, chain, n)
  BY <1>0 DEF TypeOK, Shaped
<1> DEFINE c == [i \in 1 .. n |-> chain[n + 1 - i]]
<1>2. \A i \in 1 .. n : n + 1 - i \in 1 .. n /\ c[i] = chain[n + 1 - i]
  OBVIOUS
<1> HIDE DEF c
<1>3. \A i \in 1 .. n : c[i] \in live
  BY <1>1, <1>2 DEF Forward
<1>4. tail = IF n = 0 THEN NULL ELSE c[1]
  <2>1. n # 0 => 1 \in 1 .. n /\ n + 1 - 1 = n
    OBVIOUS
  <2> QED
    BY <1>1, <1>2, <2>1 DEF Backward
<1>5. \A i \in 1 .. n : prev[c[i]] = IF i < n THEN c[i + 1] ELSE NULL
  <2> TAKE i \in 1 .. n
  <2>1. prev[c[i]] = IF n + 1 - i > 1 THEN chain[n + 1 - i - 1] ELSE NULL
    BY <1>1, <1>2 DEF Backward
  <2>2. CASE i < n
    <3>1. i + 1 \in 1 .. n /\ n + 1 - (i + 1) = n + 1 - i - 1 /\ n + 1 - i > 1
      BY <2>2
    <3>2. c[i + 1] = chain[n + 1 - (i + 1)]
      BY <1>2, <3>1
    <3> QED
      BY <2>1, <2>2, <3>1, <3>2
  <2>3. CASE i = n
    BY <2>1, <2>3
  <2> QED
    BY <2>2, <2>3
<1>6. Threads(tail, prev, c, n)
  BY <1>3, <1>4, <1>5 DEF Threads
<1>7. n \in Lengths
  BY <1>0, ForwardWalk
<1>8. ~Endless(tail, prev) /\ \A m \in Lengths : Visits(tail, prev, m) => m = n
  BY <1>1, <1>6, <1>7, VisitsThreads
<1>9. Usable(tail)
  BY <1>1 DEF Backward, Forward, Usable
<1>10. \A k \in Nat : Walk(tail, prev)[k] = IF k < n THEN c[k + 1] ELSE NULL
  BY <1>1, <1>6, WalkThreads
<1>11. ASSUME NEW k \in Nat, k < n PROVE c[k + 1] = chain[n - k]
  <2>1. k + 1 \in 1 .. n /\ n + 1 - (k + 1) = n - k
    BY <1>11
  <2> QED
    BY <1>2, <2>1
<1> QED
  BY <1>0, <1>8, <1>9, <1>10, <1>11

\* Once the links are reckless nothing is claimed of the links.
LEMMA RecklessShaped ==
  ASSUME TypeOK', reckless', NEW op, NEW c, Linked(op, c)
  PROVE  Len(chain') = 0 /\ Shaped(0)'
<1>1. chain' = <<>> /\ "pop_head" \in used'
  BY LinkedFacts DEF TypeOK
<1> QED
  BY <1>1 DEF Shaped

\* A call that returns without changing the list, or goes wrong, keeps the shape.
LEMMA IdleShaped ==
  ASSUME TypeOK, NEW n \in Nat, Shaped(n), NEW op, Call(op),
         (\E r : Return(op, r)) \/ Crash(op)
  PROVE  \E m \in Nat : m = Len(chain') /\ Shaped(m)'
<1>1. used \subseteq used'
  BY Calls DEF TypeOK
<1>2. UNCHANGED <<head, tail, size, prev, next, live, reckless, chain>>
  BY DEF Return, Crash, nodes
<1>3. n = Len(chain')
  BY <1>2 DEF Shaped
<1>4. Shaped(n)'
  BY <1>1, <1>2, <1>3 DEF Shaped
<1> QED
  BY <1>3, <1>4
\* What prepending a node to the chain gives.
LEMMA PrependFacts ==
  ASSUME NEW a \in Addr, chain \in Seq(Addr), NEW n, n = Len(chain),
         chain' = Cons(a, chain)
  PROVE  /\ Len(chain') = n + 1
         /\ chain'[1] = a
         /\ \A i \in 2 .. n + 1 : chain'[i] = chain[i - 1]
<1>1. Len(Cons(a, chain)) = Len(chain) + 1 /\ Cons(a, chain)[1] = a
  BY ConsFacts
<1>2. \A i \in 2 .. Len(chain) + 1 : Cons(a, chain)[i] = chain[i - 1]
  BY ONLY a \in Addr, chain \in Seq(Addr), ConsFacts
<1> QED
  BY <1>1, <1>2

\* push_head: the node goes before the head.
LEMMA PushHeadShaped ==
  ASSUME TypeOK, TypeOK', NEW n \in Nat, Shaped(n), NEW v \in Value, PushHead(v)
  PROVE  \E m \in Nat : m = Len(chain') /\ Shaped(m)'
<1>1. CASE Return("push_head", FALSE) \/ Crash("push_head")
  BY <1>1, IdleShaped DEF PushHead
<1>2. ASSUME NEW a \in Addr \ live,
             head' = a, tail' = IF head = NULL THEN a ELSE tail,
             next' = [next EXCEPT ![a] = head],
             prev' = Store([prev EXCEPT ![a] = NULL], head, a),
             size' = size + 1, live' = live \cup {a}, Linked("push_head", Cons(a, chain)),
             Call("push_head")
      PROVE  \E m \in Nat : m = Len(chain') /\ Shaped(m)'
  <2>1. used \subseteq used'
    BY <1>2 DEF Call
  <2>2. CASE reckless'
    BY <1>2, <2>2, RecklessShaped
  <2>3. CASE ~reckless'
    <3>1. ~reckless
      BY <1>2, <2>3, LinkedFacts
    <3>2. /\ chain' = Cons(a, chain) /\ n = Len(chain) /\ chain \in Seq(Addr)
      BY <1>2, <2>3 DEF Linked, Shaped, TypeOK
    <3>3. /\ Len(chain') = n + 1 /\ chain'[1] = a
          /\ \A i \in 2 .. n + 1 : chain'[i] = chain[i - 1]
      <4>1. a \in Addr
        BY <1>2
      <4> QED
        BY <3>2, <4>1, PrependFacts
    <3>4. /\ Forward(head, next, live, chain, n)
          /\ live \in SUBSET Addr
          /\ next \in [Addr -> Pointer] /\ prev \in [Addr -> Pointer]
      BY <3>1 DEF Shaped, TypeOK
    <3>5. Forward(head', next', live', chain', n + 1)
      BY <1>2, <3>3, <3>4, PushHeadForward
    <3>6. "pop_head" \notin used' => Backward(tail', prev', chain', n + 1)
      <4>1. SUFFICES ASSUME "pop_head" \notin used'
                     PROVE  Backward(tail', prev', chain', n + 1)
        OBVIOUS
      <4>2. Backward(tail, prev, chain, n)
        BY <2>1, <4>1 DEF Shaped
      <4> QED
        BY <1>2, <3>3, <3>4, <4>2, PushHeadBackward
    <3>7. "insert_at" \notin used' => Covered(live', chain', n + 1) /\ size' = n + 1
      <4>1. SUFFICES ASSUME "insert_at" \notin used'
                     PROVE  Covered(live', chain', n + 1) /\ size' = n + 1
        OBVIOUS
      <4>2. Covered(live, chain, n) /\ size = n
        BY <2>1, <3>1, <4>1 DEF Shaped
      <4>3. ASSUME NEW b \in live \cup {a} PROVE \E i \in 1 .. n + 1 : b = chain'[i]
        <5>1. CASE b = a
          BY <3>3, <5>1
        <5>2. CASE b \in live
          <6>1. PICK i \in 1 .. n : b = chain[i]
            BY <4>2, <5>2 DEF Covered
          <6>2. i + 1 \in 2 .. n + 1 /\ i + 1 - 1 = i
            OBVIOUS
          <6>3. b = chain'[i + 1]
            BY <3>3, <6>1, <6>2
          <6> QED
            BY <6>2, <6>3
        <5> QED
          BY <5>1, <5>2
      <4> QED
        BY <1>2, <4>2, <4>3 DEF Covered
    <3>8. Shaped(n + 1)'
      BY <3>3, <3>5, <3>6, <3>7 DEF Shaped
    <3> QED
      BY <3>3, <3>8
  <2> QED
    BY <2>2, <2>3
<1> QED
  BY <1>1, <1>2 DEF PushHead, MakeNode

\* push_tail: the node goes after the tail.
LEMMA PushTailShaped ==
  ASSUME TypeOK, TypeOK', NEW n \in Nat, Shaped(n), NEW v \in Value, PushTail(v)
  PROVE  \E m \in Nat : m = Len(chain') /\ Shaped(m)'
<1>1. CASE Return("push_tail", FALSE) \/ Crash("push_tail")
  BY <1>1, IdleShaped DEF PushTail
<1>2. ASSUME NEW a \in Addr \ live,
             head' = IF tail = NULL THEN a ELSE head, tail' = a,
             next' = Store([next EXCEPT ![a] = NULL], tail, a),
             prev' = [prev EXCEPT ![a] = tail],
             size' = size + 1, live' = live \cup {a}, Linked("push_tail", Append(chain, a)),
             Call("push_tail")
      PROVE  \E m \in Nat : m = Len(chain') /\ Shaped(m)'
  <2>1. used \subseteq used' /\ "push_tail" \in used' /\ used' \subseteq used \cup {"push_tail"}
    BY <1>2 DEF Call, Tracked
  <2>2. CASE reckless'
    BY <1>2, <2>2, RecklessShaped
  <2>3. CASE ~reckless'
    <3>1. ~reckless /\ "pop_head" \notin used
      BY <1>2, <2>3, LinkedFacts DEF Writing
    <3>2. /\ chain' = Append(chain, a) /\ n = Len(chain) /\ chain \in Seq(Addr)
      BY <1>2, <2>3 DEF Linked, Shaped, TypeOK
    <3>3. /\ Len(chain') = n + 1 /\ chain'[n + 1] = a
          /\ \A i \in 1 .. n : chain'[i] = chain[i]
      BY <3>2, AppendProperties
    <3>4. /\ Forward(head, next, live, chain, n) /\ Backward(tail, prev, chain, n)
          /\ live \in SUBSET Addr
          /\ next \in [Addr -> Pointer] /\ prev \in [Addr -> Pointer]
      BY <3>1 DEF Shaped, TypeOK
    <3>5. Forward(head', next', live', chain', n + 1)
      BY <1>2, <3>3, <3>4, PushTailForward
    <3>6. Backward(tail', prev', chain', n + 1)
      BY <1>2, <3>3, <3>4, PushTailBackward
    <3>7. "insert_at" \notin used' => Covered(live', chain', n + 1) /\ size' = n + 1
      <4>1. SUFFICES ASSUME "insert_at" \notin used'
                     PROVE  Covered(live', chain', n + 1) /\ size' = n + 1
        OBVIOUS
      <4>2. Covered(live, chain, n) /\ size = n
        BY <2>1, <3>1, <4>1 DEF Shaped
      <4>3. ASSUME NEW b \in live \cup {a} PROVE \E i \in 1 .. n + 1 : b = chain'[i]
        <5>1. CASE b = a
          BY <3>3, <5>1
        <5>2. CASE b \in live
          BY <3>3, <4>2, <5>2 DEF Covered
        <5> QED
          BY <5>1, <5>2
      <4> QED
        BY <1>2, <4>2, <4>3 DEF Covered
    <3>8. Shaped(n + 1)'
      BY <3>3, <3>5, <3>6, <3>7 DEF Shaped
    <3> QED
      BY <3>3, <3>8
  <2> QED
    BY <2>2, <2>3
<1> QED
  BY <1>1, <1>2 DEF PushTail, MakeNode

\* insert_at: the new node points into the list and nothing points at it.
LEMMA InsertShaped ==
  ASSUME TypeOK, TypeOK', NEW n \in Nat, Shaped(n),
         NEW v \in Value, NEW pos \in Position, InsertNode(v, pos)
  PROVE  \E m \in Nat : m = Len(chain') /\ Shaped(m)'
<1>1. CASE Return("insert_at", FALSE) \/ Crash("insert_at")
  BY <1>1, IdleShaped DEF InsertNode
<1>2. ASSUME NEW a \in Addr \ live, NEW p,
             prev' = [prev EXCEPT ![a] = prev[p]],
             next' = [next EXCEPT ![a] = p], live' = live \cup {a},
             UNCHANGED <<head, tail>>, Linked("insert_at", chain), Call("insert_at")
      PROVE  \E m \in Nat : m = Len(chain') /\ Shaped(m)'
  <2>1. used \subseteq used' /\ "insert_at" \in used'
    BY <1>2 DEF Call, Tracked
  <2>2. CASE reckless'
    BY <1>2, <2>2, RecklessShaped
  <2>3. CASE ~reckless'
    <3>1. ~reckless /\ chain' = chain /\ n = Len(chain)
      BY <1>2, <2>3, LinkedFacts DEF Shaped
    <3>2. /\ Forward(head, next, live, chain, n)
          /\ next \in [Addr -> Pointer] /\ prev \in [Addr -> Pointer]
      BY <3>1 DEF Shaped, TypeOK
    <3>3. \A i \in 1 .. n : chain[i] # a /\ chain[i] \in live'
      BY <1>2, <3>2 DEF Forward
    <3>4. \A i \in 1 .. n : next'[chain[i]] = next[chain[i]] /\ prev'[chain[i]] = prev[chain[i]]
      BY <1>2, <3>2, <3>3
    <3>5. Forward(head', next', live', chain', n)
      BY <1>2, <3>1, <3>2, <3>3, <3>4 DEF Forward
    <3>6. "pop_head" \notin used' => Backward(tail', prev', chain', n)
      BY <1>2, <2>1, <3>1, <3>4 DEF Backward, Shaped
    <3>7. Shaped(n)'
      BY <2>1, <3>1, <3>5, <3>6 DEF Shaped
    <3> QED
      BY <3>1, <3>7
  <2> QED
    BY <2>2, <2>3
<1> QED
  BY <1>1, <1>2 DEF InsertNode, MakeNode

\* Any operation that takes out the k'th node, joins its neighbours and frees it.
LEMMA UnlinkShaped ==
  ASSUME TypeOK, NEW n \in Nat, Shaped(n), ~reckless, ~reckless',
         NEW k \in 1 .. n, NEW before, NEW after,
         before = IF k > 1 THEN chain[k - 1] ELSE NULL,
         after = IF k < n THEN chain[k + 1] ELSE NULL,
         used \subseteq used',
         head' = IF before = NULL THEN after ELSE head,
         next' = Scrub(Store(next, before, after), {chain[k]}),
         "pop_head" \notin used' =>
            /\ tail' = IF after = NULL THEN before ELSE tail
            /\ prev' = Scrub(Store(prev, after, before), {chain[k]}),
         size' = size - 1, live' = live \ {chain[k]},
         Len(chain') = n - 1, Without(chain', chain, n, k)
  PROVE  \E m \in Nat : m = Len(chain') /\ Shaped(m)'
<1>2. Len(chain') = n - 1 /\ Without(chain', chain, n, k)
  OBVIOUS
<1>3. /\ Forward(head, next, live, chain, n)
      /\ live \in SUBSET Addr
      /\ next \in [Addr -> Pointer] /\ prev \in [Addr -> Pointer]
  BY DEF Shaped, TypeOK
<1>4. Forward(head', next', live', chain', n - 1)
  BY <1>2, <1>3, UnlinkForward
<1>5. "pop_head" \notin used' => Backward(tail', prev', chain', n - 1)
  <2>1. SUFFICES ASSUME "pop_head" \notin used'
                 PROVE  Backward(tail', prev', chain', n - 1)
    OBVIOUS
  <2>2. Backward(tail, prev, chain, n)
    BY <2>1 DEF Shaped
  <2>3. /\ tail' = IF after = NULL THEN before ELSE tail
        /\ prev' = Scrub(Store(prev, after, before), {chain[k]})
    BY <2>1
  <2>4. Backward(IF after = NULL THEN before ELSE tail,
                 Scrub(Store(prev, after, before), {chain[k]}), chain', n - 1)
    BY <1>2, <1>3, <2>2, UnlinkBackward
  <2> QED
    BY <2>3, <2>4, Zenon
<1>6. "insert_at" \notin used' => Covered(live', chain', n - 1) /\ size' = n - 1
  <2>1. SUFFICES ASSUME "insert_at" \notin used'
                 PROVE  Covered(live', chain', n - 1) /\ size' = n - 1
    OBVIOUS
  <2>2. Covered(live, chain, n) /\ size = n
    BY <2>1 DEF Shaped
  <2> QED
    BY <1>2, <2>2, UnlinkCovered
<1>7. n - 1 \in Nat
  OBVIOUS
<1>8. Shaped(n - 1)'
  BY <1>2, <1>4, <1>5, <1>6 DEF Shaped
<1> QED
  BY <1>2, <1>7, <1>8
\* pop_head takes out the first node; tail may be left dangling.
LEMMA PopHeadShaped ==
  ASSUME TypeOK, TypeOK', NEW n \in Nat, Shaped(n), PopHead
  PROVE  \E m \in Nat : m = Len(chain') /\ Shaped(m)'
<1>1. CASE Return("pop_head", NULL) \/ Crash("pop_head")
  BY <1>1, IdleShaped DEF PopHead
<1>2. ASSUME head \in live, head' = next[head],
             next' = Scrub(next, {head}), size' = size - 1,
             live' = live \ {head},
             Linked("pop_head", IF chain = <<>> THEN <<>> ELSE Tail(chain)), Call("pop_head")
      PROVE  \E m \in Nat : m = Len(chain') /\ Shaped(m)'
  <2>1. used \subseteq used' /\ "pop_head" \in used'
    BY <1>2 DEF Call, Tracked
  <2>2. CASE reckless'
    BY <1>2, <2>2, RecklessShaped
  <2>3. CASE ~reckless'
    <3>1. ~reckless
      BY <1>2, <2>3, LinkedFacts
    <3>2. /\ Forward(head, next, live, chain, n)
          /\ n = Len(chain) /\ chain \in Seq(Addr) /\ live \subseteq Addr
      BY <3>1 DEF Shaped, TypeOK
    <3>3. n >= 1 /\ head = chain[1]
      BY <1>2, <3>2, NullAssumption DEF Forward
    <3>4. chain # <<>>
      BY <3>2, <3>3, ChainFacts
    <3>5. chain' = Tail(chain)
      BY <1>2, <2>3, <3>4 DEF Linked
    <3>6. Len(chain') = n - 1 /\ \A i \in 1 .. n - 1 : chain'[i] = chain[i + 1]
      BY <3>2, <3>4, <3>5, HeadTailProperties
    <3>7. Without(chain', chain, n, 1)
      BY <3>6 DEF Without
    <3> DEFINE after == IF 1 < n THEN chain[2] ELSE NULL
    <3>8. next[head] = after
      BY <3>2, <3>3 DEF Forward
    <3> HIDE DEF after
    <3>9. /\ head' = IF NULL = NULL THEN after ELSE head
          /\ next' = Scrub(Store(next, NULL, after), {chain[1]})
          /\ live' = live \ {chain[1]}
      BY <1>2, <3>3, <3>8 DEF Store
    <3>10. 1 \in 1 .. n /\ NULL = IF 1 > 1 THEN chain[1 - 1] ELSE NULL
      BY <3>3
    <3>11. after = IF 1 < n THEN chain[1 + 1] ELSE NULL
      BY DEF after
    <3> QED
      BY <1>2, <2>1, <2>3, <3>1, <3>6, <3>7, <3>9, <3>10, <3>11, UnlinkShaped
  <2> QED
    BY <2>2, <2>3
<1> QED
  BY <1>1, <1>2 DEF PopHead, Free

\* pop_tail takes out the last node.
LEMMA PopTailShaped ==
  ASSUME TypeOK, TypeOK', NEW n \in Nat, Shaped(n), PopTail
  PROVE  \E m \in Nat : m = Len(chain') /\ Shaped(m)'
<1>1. CASE Return("pop_tail", NULL) \/ Crash("pop_tail")
  BY <1>1, IdleShaped DEF PopTail, HeadWithout, TailWithout
<1>2. ASSUME tail \in live,
             head' = IF prev[tail] = NULL THEN NULL ELSE head,
             tail' = prev[tail],
             next' = Scrub(Store(next, prev[tail], NULL), {tail}),
             prev' = Scrub(prev, {tail}), size' = size - 1,
             live' = live \ {tail},
             Linked("pop_tail", IF chain = <<>> THEN <<>> ELSE Front(chain)), Call("pop_tail")
      PROVE  \E m \in Nat : m = Len(chain') /\ Shaped(m)'
  <2>1. used \subseteq used' /\ "pop_tail" \in used'
    BY <1>2 DEF Call, Tracked
  <2>2. CASE reckless'
    BY <1>2, <2>2, RecklessShaped
  <2>3. CASE ~reckless'
    <3>1. ~reckless /\ "pop_head" \notin used
      BY <1>2, <2>3, LinkedFacts DEF Writing
    <3>2. /\ Forward(head, next, live, chain, n) /\ Backward(tail, prev, chain, n)
          /\ n = Len(chain) /\ chain \in Seq(Addr) /\ live \subseteq Addr
      BY <3>1 DEF Shaped, TypeOK
    <3>3. n >= 1 /\ tail = chain[n]
      BY <1>2, <3>2, NullAssumption DEF Backward
    <3>4. chain # <<>>
      BY <3>2, <3>3, ChainFacts
    <3>5. chain' = Front(chain)
      BY <1>2, <2>3, <3>4 DEF Linked
    <3>6. Len(chain') = n - 1 /\ \A i \in 1 .. n - 1 : chain'[i] = chain[i]
      BY <3>2, <3>4, <3>5, FrontFacts
    <3>7. Without(chain', chain, n, n)
      BY <3>6 DEF Without
    <3> DEFINE before == IF n > 1 THEN chain[n - 1] ELSE NULL
    <3>8. prev[tail] = before
      BY <3>2, <3>3 DEF Backward
    <3> HIDE DEF before
    <3>9. /\ head' = IF before = NULL THEN NULL ELSE head
          /\ tail' = IF NULL = NULL THEN before ELSE tail
          /\ next' = Scrub(Store(next, before, NULL), {chain[n]})
          /\ prev' = Scrub(Store(prev, NULL, before), {chain[n]})
          /\ live' = live \ {chain[n]}
      BY <1>2, <3>3, <3>8 DEF Store
    <3>10. n \in 1 .. n /\ NULL = IF n < n THEN chain[n + 1] ELSE NULL
      BY <3>3
    <3>11. before = IF n > 1 THEN chain[n - 1] ELSE NULL
      BY DEF before
    <3> QED
      BY <1>2, <2>1, <2>3, <3>1, <3>6, <3>7, <3>9, <3>10, <3>11, UnlinkShaped
  <2> QED
    BY <2>2, <2>3
<1> QED
  BY <1>1, <1>2 DEF PopTail, HeadWithout, TailWithout, Free

\* del_at takes out the node at the position, when there is one.
LEMMA DelAtShaped ==
  ASSUME TypeOK, TypeOK', NEW n \in Nat, Shaped(n), NEW pos \in Position, DelAt(pos)
  PROVE  \E m \in Nat : m = Len(chain') /\ Shaped(m)'
<1> DEFINE p == FindNodeAt(pos)
<1>1. CASE Return("del_at", FALSE) \/ Crash("del_at")
  BY <1>1, IdleShaped DEF DelAt, HeadWithout, TailWithout
<1>2. ASSUME p \in live,
             head' = IF prev[p] = NULL THEN next[p] ELSE head,
             tail' = IF next[p] = NULL THEN prev[p] ELSE tail,
             next' = Scrub(Store(next, prev[p], next[p]), {p}),
             prev' = Scrub(Store(prev, next[p], prev[p]), {p}),
             size' = size - 1, live' = live \ {p},
             Linked("del_at", IF pos < Len(chain) THEN RemoveAt(chain, pos + 1) ELSE chain),
             Call("del_at")
      PROVE  \E m \in Nat : m = Len(chain') /\ Shaped(m)'
  <2>1. used \subseteq used' /\ "del_at" \in used'
    BY <1>2 DEF Call, Tracked
  <2>2. CASE reckless'
    BY <1>2, <2>2, RecklessShaped
  <2>3. CASE ~reckless'
    <3>1. ~reckless /\ "pop_head" \notin used
      BY <1>2, <2>3, LinkedFacts DEF Writing
    <3>2. /\ Forward(head, next, live, chain, n) /\ Backward(tail, prev, chain, n)
          /\ n = Len(chain) /\ chain \in Seq(Addr) /\ live \subseteq Addr
      BY <3>1 DEF Shaped, TypeOK
    <3>3. pos \in Nat
      BY MaxPosAssumption DEF Position
    <3>4. p = IF pos < n THEN chain[pos + 1] ELSE NULL
      BY <3>1, <3>3, ForwardWalk DEF FindNodeAt
    <3> HIDE DEF p
    <3> DEFINE k == pos + 1
               before == IF k > 1 THEN chain[k - 1] ELSE NULL
               after == IF k < n THEN chain[k + 1] ELSE NULL
    <3>5. pos < n /\ k \in 1 .. n /\ p = chain[k]
      BY <1>2, <3>2, <3>3, <3>4, NullAssumption
    <3>6. prev[p] = before /\ next[p] = after
      BY <3>2, <3>5 DEF Forward, Backward
    <3>7. chain' = RemoveAt(chain, k)
      BY <1>2, <2>3, <3>2, <3>5 DEF Linked
    <3> HIDE DEF k
    <3>8. Len(chain') = n - 1 /\ Without(chain', chain, n, k)
      <4>1. /\ Len(RemoveAt(chain, k)) = Len(chain) - 1
            /\ \A i \in 1 .. Len(chain) - 1 :
                 RemoveAt(chain, k)[i] = IF i < k THEN chain[i] ELSE chain[i + 1]
        BY <3>2, <3>5, RemoveAtFacts
      <4> QED
        BY <3>2, <3>7, <4>1 DEF Without
    <3>9. /\ before = IF k > 1 THEN chain[k - 1] ELSE NULL
          /\ after = IF k < n THEN chain[k + 1] ELSE NULL
      OBVIOUS
    <3> HIDE DEF before, after
    <3>10. /\ head' = IF before = NULL THEN after ELSE head
           /\ tail' = IF after = NULL THEN before ELSE tail
           /\ next' = Scrub(Store(next, before, after), {chain[k]})
           /\ prev' = Scrub(Store(prev, after, before), {chain[k]})
           /\ live' = live \ {chain[k]}
      BY <1>2, <3>5, <3>6
    <3> QED
      BY <1>2, <2>1, <2>3, <3>1, <3>5, <3>8, <3>9, <3>10, UnlinkShaped
  <2> QED
    BY <2>2, <2>3
<1> QED
  BY <1>1, <1>2 DEF DelAt, HeadWithout, TailWithout, Free

\* destroy leaves the empty list, and frees what the list threaded.
LEMMA DestroyShaped ==
  ASSUME TypeOK, NEW n \in Nat, Shaped(n), Destroy
  PROVE  \E m \in Nat : m = Len(chain') /\ Shaped(m)'
<1>1. CASE Crash("destroy")
  BY <1>1, IdleShaped DEF Destroy
<1>2. ASSUME NEW m \in Lengths, Visits(head, next, m),
             head' = NULL, tail' = NULL, size' = 0,
             live' = live \ {Walk(head, next)[k] : k \in 0 .. m - 1},
             Linked("destroy", <<>>), Call("destroy")
      PROVE  \E l \in Nat : l = Len(chain') /\ Shaped(l)'
  <2>1. used \subseteq used' /\ chain' = <<>>
    BY <1>2 DEF Call, Linked
  <2>2. ~reckless /\ "insert_at" \notin used => live' = {}
    <3>1. SUFFICES ASSUME ~reckless, "insert_at" \notin used, NEW a \in live
                   PROVE  \E k \in 0 .. m - 1 : a = Walk(head, next)[k]
      BY <1>2
    <3>2. m = n /\ \A k \in Nat : Walk(head, next)[k] = IF k < n THEN chain[k + 1] ELSE NULL
      BY <1>2, <3>1, ForwardWalk
    <3>3. PICK i \in 1 .. n : a = chain[i]
      BY <3>1 DEF Shaped, Covered
    <3>4. i - 1 \in 0 .. m - 1 /\ Walk(head, next)[i - 1] = a
      BY <3>2, <3>3
    <3> QED
      BY <3>4
  <2>3. Len(chain') = 0 /\ (reckless' <=> reckless)
    BY <1>2, <2>1, LinkedFacts DEF Writing
  <2>4. Shaped(0)'
    BY <1>2, <2>1, <2>2, <2>3 DEF Shaped, Forward, Backward, Covered
  <2> QED
    BY <2>3, <2>4
<1> QED
  BY <1>1, <1>2 DEF Destroy, Free
-----------------------------------------------------------------------------
(* The inductive invariant *)

\* Every operation keeps the shape.
LEMMA NextShaped ==
  ASSUME TypeOK, TypeOK', NEW n \in Nat, Shaped(n), [Next]_vars
  PROVE  \E m \in Nat : m = Len(chain') /\ Shaped(m)'
<1>1. ASSUME NEW op, Call(op), (\E r : Return(op, r)) \/ Crash(op)
      PROVE  \E m \in Nat : m = Len(chain') /\ Shaped(m)'
  BY <1>1, IdleShaped
<1>2. ASSUME NEW v \in Value, PushHead(v) \/ PushTail(v)
      PROVE  \E m \in Nat : m = Len(chain') /\ Shaped(m)'
  BY <1>2, PushHeadShaped, PushTailShaped
<1>3. ASSUME NEW v \in Value, NEW pos \in Position, InsertNode(v, pos)
      PROVE  \E m \in Nat : m = Len(chain') /\ Shaped(m)'
  BY <1>3, InsertShaped
<1>4. ASSUME NEW pos \in Position, GetAt(pos)
      PROVE  \E m \in Nat : m = Len(chain') /\ Shaped(m)'
  BY <1>1, <1>4 DEF GetAt
<1>5. ASSUME NEW pos \in Position, DelAt(pos)
      PROVE  \E m \in Nat : m = Len(chain') /\ Shaped(m)'
  BY <1>5, DelAtShaped
<1>6. CASE HeadValue
  BY <1>1, <1>6 DEF HeadValue
<1>7. CASE TailValue
  BY <1>1, <1>7 DEF TailValue
<1>8. CASE PopHead
  BY <1>8, PopHeadShaped
<1>9. CASE PopTail
  BY <1>9, PopTailShaped
<1>10. CASE ForwardIter
  BY <1>1, <1>10 DEF ForwardIter, Iterate
<1>11. CASE BackwardIter
  BY <1>1, <1>11 DEF BackwardIter, Iterate
<1>12. CASE Destroy
  BY <1>12, DestroyShaped
<1>13. CASE UNCHANGED vars
  <2>1. UNCHANGED <<head, tail, size, next, prev, live, used, reckless, chain>>
    BY <1>13 DEF vars
  <2>2. (reckless' <=> reckless) /\ n = Len(chain')
    BY <2>1 DEF Shaped
  <2>3. Shaped(n)'
    BY <2>1, <2>2 DEF Shaped
  <2> QED
    BY <2>2, <2>3
<1> QED
  BY <1>2, <1>3, <1>4, <1>5, <1>6, <1>7, <1>8, <1>9, <1>10, <1>11, <1>12,
     <1>13 DEF Next

\* An operation that goes wrong follows tail or prev after a pop_head, or comes
\* after one that did and changed the list.
LEMMA CrashesOnlyPastPopHead ==
  ASSUME TypeOK, NEW n \in Nat, Shaped(n), FaultsOnlyPastPopHead, [Next]_vars
  PROVE  FaultsOnlyPastPopHead'
<1> DEFINE Blamed == "pop_head" \in used' /\ (reckless' \/ ret'[1] \in Trusting)
<1>1. SUFFICES ASSUME fault' PROVE Blamed
  BY DEF FaultsOnlyPastPopHead
<1>2. ASSUME NEW op, Call(op), Crash(op)
      PROVE  /\ "pop_head" \in used => "pop_head" \in used'
             /\ reckless => Blamed
             /\ ret'[1] = op
  <2>1. used \subseteq used' /\ reckless' = reckless /\ ret'[1] = op
    BY <1>2, Calls DEF TypeOK, Crash
  <2>2. reckless => "pop_head" \in used
    BY DEF TypeOK
  <2> QED
    BY <2>1, <2>2
<1>3. ASSUME NEW op, NEW r, Answer(op, r), Call(op) PROVE FALSE
  BY <1>1, <1>3, Zenon DEF Answer, Call
<1>4. ASSUME NEW op, NEW r, Return(op, r), Call(op) PROVE FALSE
  BY <1>3, <1>4 DEF Return
<1>fwd. ~reckless =>
          /\ Usable(head) /\ ~Endless(head, next)
          /\ \A k \in Nat : Usable(Walk(head, next)[k])
  BY ForwardWalk
<1>bwd. "pop_head" \notin used =>
          ~reckless /\ Usable(tail) /\ ~Endless(tail, prev)
  BY BackwardWalk
<1>pos. Position \subseteq Nat
  BY MaxPosAssumption DEF Position
<1>5. ASSUME NEW v \in Value, PushHead(v) PROVE Blamed
  <2>1. PICK a \in Addr \ live : head \notin live \cup {a, NULL} /\ Crash("push_head")
    BY <1>3, <1>4, <1>5 DEF PushHead
  <2>2. ~Usable(head) /\ Call("push_head")
    BY <1>5, <2>1 DEF PushHead, Usable
  <2> QED
    BY <1>2, <1>fwd, <2>1, <2>2
<1>6. ASSUME NEW v \in Value, PushTail(v) PROVE Blamed
  <2>1. PICK a \in Addr \ live : tail \notin live \cup {a, NULL} /\ Crash("push_tail")
    BY <1>3, <1>4, <1>6 DEF PushTail
  <2>2. ~Usable(tail) /\ Call("push_tail")
    BY <1>6, <2>1 DEF PushTail, Usable
  <2>3. "pop_head" \in used' /\ ret'[1] = "push_tail"
    BY <1>2, <1>bwd, <2>1, <2>2
  <2> QED
    BY <2>3 DEF Trusting, Writing
<1>7. ASSUME NEW v \in Value, NEW pos \in Position, InsertNode(v, pos) PROVE Blamed
  <2>1. ~Usable(FindNodeAt(pos)) /\ Crash("insert_at") /\ Call("insert_at")
    BY <1>3, <1>4, <1>7 DEF InsertNode
  <2> QED
    BY <1>2, <1>fwd, <1>pos, <2>1 DEF FindNodeAt
<1>8. ASSUME NEW pos \in Position, GetAt(pos) PROVE Blamed
  <2>1. ~Usable(FindNodeAt(pos)) /\ Crash("get_at") /\ Call("get_at")
    BY <1>4, <1>8 DEF GetAt
  <2> QED
    BY <1>2, <1>fwd, <1>pos, <2>1 DEF FindNodeAt
<1>9. ASSUME NEW pos \in Position, DelAt(pos) PROVE Blamed
  <2> DEFINE p == FindNodeAt(pos)
  <2>1. /\ Crash("del_at") /\ Call("del_at") /\ p # NULL
        /\ IF p \in live THEN ~Usable(prev[p]) \/ ~Usable(next[p]) ELSE TRUE
    BY <1>3, <1>4, <1>9 DEF DelAt, HeadWithout, TailWithout
  <2>2. ("pop_head" \in used => "pop_head" \in used') /\ ret'[1] = "del_at"
    BY <1>2, <2>1
  <2>3. ASSUME "pop_head" \notin used PROVE FALSE
    <3>1. ~reckless /\ pos \in Nat
      BY <1>bwd, <1>pos, <2>3
    <3>2. /\ Forward(head, next, live, chain, n) /\ Backward(tail, prev, chain, n)
      BY <2>3, <3>1 DEF Shaped
    <3>3. p = IF pos < n THEN chain[pos + 1] ELSE NULL
      BY <3>1, ForwardWalk DEF FindNodeAt
    <3>4. pos + 1 \in 1 .. n /\ p = chain[pos + 1]
      BY <2>1, <3>1, <3>3
    <3> HIDE DEF p
    <3>5. \A i \in 1 .. n : chain[i] \in live
      BY <3>2 DEF Forward
    <3>6. p \in live
      BY <3>4, <3>5
    <3> DEFINE k == pos + 1
    <3>7. k \in 1 .. n /\ p = chain[k]
      BY <3>4
    <3> HIDE DEF k
    <3>8. next[p] = IF k < n THEN chain[k + 1] ELSE NULL
      BY <3>2, <3>7 DEF Forward
    <3>9. prev[p] = IF k > 1 THEN chain[k - 1] ELSE NULL
      BY <3>2, <3>7 DEF Backward
    <3>10. Usable(next[p])
      BY <3>5, <3>7, <3>8 DEF Usable
    <3>11. Usable(prev[p])
      BY <3>5, <3>7, <3>9 DEF Usable
    <3> QED
      BY <2>1, <3>6, <3>10, <3>11
  <2> QED
    BY <2>2, <2>3 DEF Trusting, Writing
<1>10. CASE HeadValue
  <2>1. ~Usable(head) /\ Crash("head") /\ Call("head")
    BY <1>4, <1>10 DEF HeadValue
  <2> QED
    BY <1>2, <1>fwd, <2>1
<1>11. CASE TailValue
  <2>1. ~Usable(tail) /\ Crash("tail") /\ Call("tail")
    BY <1>4, <1>11 DEF TailValue
  <2> QED
    BY <1>2, <1>bwd, <2>1 DEF Trusting
<1>12. CASE PopHead
  <2>1. ~Usable(head) /\ Crash("pop_head") /\ Call("pop_head")
    BY <1>3, <1>4, <1>12 DEF PopHead
  <2> QED
    BY <1>2, <1>fwd, <2>1
<1>13. CASE PopTail
  <2>1. /\ Crash("pop_tail") /\ Call("pop_tail") /\ tail # NULL
        /\ IF tail \in live THEN ~Usable(prev[tail]) ELSE TRUE
    BY <1>3, <1>4, <1>13 DEF PopTail, HeadWithout, TailWithout
  <2>2. ("pop_head" \in used => "pop_head" \in used') /\ ret'[1] = "pop_tail"
    BY <1>2, <2>1
  <2>3. ASSUME "pop_head" \notin used PROVE FALSE
    <3>1. ~reckless
      BY <1>bwd, <2>3
    <3>2. /\ Forward(head, next, live, chain, n) /\ Backward(tail, prev, chain, n)
      BY <2>3, <3>1 DEF Shaped
    <3>3. n >= 1 /\ tail = chain[n]
      BY <2>1, <3>2 DEF Backward
    <3>4. \A i \in 1 .. n : chain[i] \in live
      BY <3>2 DEF Forward
    <3>5. tail \in live
      BY <3>3, <3>4
    <3>6. prev[tail] = IF n > 1 THEN chain[n - 1] ELSE NULL
      BY <3>2, <3>3 DEF Backward
    <3>7. Usable(prev[tail])
      BY <3>3, <3>4, <3>6 DEF Usable
    <3> QED
      BY <2>1, <3>5, <3>7
  <2> QED
    BY <2>2, <2>3 DEF Trusting, Writing
<1>14. CASE ForwardIter
  <2>1. Endless(head, next) /\ Crash("forward_iter") /\ Call("forward_iter")
    BY <1>4, <1>14 DEF ForwardIter, Iterate
  <2> QED
    BY <1>2, <1>fwd, <2>1
<1>15. CASE BackwardIter
  <2>1. Endless(tail, prev) /\ Crash("backward_iter") /\ Call("backward_iter")
    BY <1>4, <1>15 DEF BackwardIter, Iterate
  <2> QED
    BY <1>2, <1>bwd, <2>1 DEF Trusting
<1>16. CASE Destroy
  <2>1. Endless(head, next) /\ Crash("destroy") /\ Call("destroy")
    BY <1>3, <1>16 DEF Destroy
  <2> QED
    BY <1>2, <1>fwd, <2>1
<1>17. CASE UNCHANGED vars
  <2>1. fault' = fault /\ used' = used /\ ret' = ret /\ reckless' = reckless
    BY <1>17, Zenon DEF vars
  <2>2. fault
    BY <1>1, <2>1, Zenon
  <2> QED
    BY <2>1, <2>2 DEF FaultsOnlyPastPopHead
<1> QED
  BY <1>5, <1>6, <1>7, <1>8, <1>9, <1>10, <1>11, <1>12, <1>13, <1>14, <1>15,
     <1>16, <1>17 DEF Next

\* Inv holds initially and every step keeps it.
LEMMA InvInductive ==
  /\ Init => Inv
  /\ Inv /\ [Next]_vars => Inv'
<1>1. ASSUME Init PROVE Inv
  <2>1. TypeOK
    BY <1>1, InitTypes
  <2>2. Len(chain) = 0 /\ Shaped(0)
    BY <1>1 DEF Init, EmptyList, Shaped, Forward, Backward, Covered
  <2>3. ForwardLinked /\ BackwardLinked /\ NothingLost
    BY <2>1, <2>2, ShapedIsInv DEF TypeOK
  <2>4. FaultsOnlyPastPopHead
    BY <1>1 DEF Init, EmptyList, FaultsOnlyPastPopHead
  <2> QED
    BY <2>1, <2>3, <2>4 DEF Inv
<1>2. ASSUME Inv, [Next]_vars PROVE Inv'
  <2>1. TypeOK /\ FaultsOnlyPastPopHead
    BY <1>2 DEF Inv
  <2>2. PICK n \in Nat : n = Len(chain)
    BY <2>1, ChainFacts DEF TypeOK
  <2>3. Shaped(n)
    BY <1>2, <2>1, <2>2, ShapedIsInv DEF Inv, TypeOK
  <2>4. TypeOK'
    BY <1>2, <2>1, TypeOKInductive
  <2>5. PICK m \in Nat : m = Len(chain') /\ Shaped(m)'
    BY <1>2, <2>1, <2>3, <2>4, NextShaped
  <2>6. ForwardLinked' /\ BackwardLinked' /\ NothingLost'
    BY <2>4, <2>5, ShapedIsInvNext DEF TypeOK
  <2>7. FaultsOnlyPastPopHead'
    BY <1>2, <2>1, <2>3, CrashesOnlyPastPopHead
  <2> QED
    BY <2>4, <2>6, <2>7 DEF Inv
<1> QED
  BY <1>1, <1>2

\* Until a list popped at its head is changed through tail or prev, head and
\* next thread exactly the nodes linked.
THEOREM ForwardCorrect == Spec => []ForwardLinked
<1>1. Inv => ForwardLinked
  BY DEF Inv
<1> QED
  BY <1>1, InvInductive, PTL DEF Spec

\* Until the first pop_head, tail and prev thread the same nodes backwards.
THEOREM BackwardCorrect == Spec => []BackwardLinked
<1>1. Inv => BackwardLinked
  BY DEF Inv
<1> QED
  BY <1>1, InvInductive, PTL DEF Spec

\* Without insert_at the nodes allocated are those of the list, and size
\* counts them.
THEOREM NothingLostCorrect == Spec => []NothingLost
<1>1. Inv => NothingLost
  BY DEF Inv
<1> QED
  BY <1>1, InvInductive, PTL DEF Spec

\* Without pop_head no call is ever undefined or endless; after it, only a call
\* that follows tail or prev, or any call once one that does has changed the
\* list.
THEOREM SafeUntilPopHead == Spec => []FaultsOnlyPastPopHead
<1>1. Inv => FaultsOnlyPastPopHead
  BY DEF Inv
<1> QED
  BY <1>1, InvInductive, PTL DEF Spec
-----------------------------------------------------------------------------
(* What a call does to the order of the nodes *)

In(c, n, a) == \E i \in 1 .. n : c[i] = a
Before(c, n, a, b) == \E i, j \in 1 .. n : i < j /\ c[i] = a /\ c[j] = b

\* The nodes of c that are in lv are in d, in the same order.
Survive(c, n, lv, d, m) ==
  /\ \A a \in lv : In(c, n, a) => In(d, m, a)
  /\ \A a, b \in lv : Before(c, n, a, b) => Before(d, m, a, b)

LEMMA PrependSurvive ==
  ASSUME NEW n \in Nat, NEW c, NEW d, NEW lv, \A i \in 2 .. n + 1 : d[i] = c[i - 1]
  PROVE  Survive(c, n, lv, d, n + 1)
<1>1. \A i \in 1 .. n : i + 1 \in 1 .. n + 1 /\ d[i + 1] = c[i]
  OBVIOUS
<1>2. ASSUME NEW a \in lv, In(c, n, a) PROVE In(d, n + 1, a)
  BY <1>1, <1>2 DEF In
<1>3. ASSUME NEW a \in lv, NEW b \in lv, Before(c, n, a, b) PROVE Before(d, n + 1, a, b)
  <2>1. PICK i, j \in 1 .. n : i < j /\ c[i] = a /\ c[j] = b
    BY <1>3 DEF Before
  <2>2. i + 1 < j + 1 /\ d[i + 1] = a /\ d[j + 1] = b
    BY <1>1, <2>1
  <2> QED
    BY <1>1, <2>2 DEF Before
<1> QED
  BY <1>2, <1>3 DEF Survive

LEMMA AppendSurvive ==
  ASSUME NEW n \in Nat, NEW m \in Nat, n =< m, NEW c, NEW d, NEW lv,
         \A i \in 1 .. n : d[i] = c[i]
  PROVE  Survive(c, n, lv, d, m)
<1>1. \A i \in 1 .. n : i \in 1 .. m /\ d[i] = c[i]
  OBVIOUS
<1>2. ASSUME NEW a \in lv, In(c, n, a) PROVE In(d, m, a)
  BY <1>1, <1>2 DEF In
<1>3. ASSUME NEW a \in lv, NEW b \in lv, Before(c, n, a, b) PROVE Before(d, m, a, b)
  BY <1>1, <1>3 DEF Before
<1> QED
  BY <1>2, <1>3 DEF Survive

LEMMA WithoutSurvive ==
  ASSUME NEW n \in Nat, NEW c, NEW d, NEW k \in 1 .. n, NEW lv, c[k] \notin lv,
         Without(d, c, n, k)
  PROVE  Survive(c, n, lv, d, n - 1)
<1> DEFINE to(i) == IF i < k THEN i ELSE i - 1
<1>1. \A i \in 1 .. n : i # k => to(i) \in 1 .. n - 1 /\ d[to(i)] = c[i]
  <2> TAKE i \in 1 .. n
  <2>1. CASE i < k
    BY <2>1 DEF Without
  <2>2. CASE i > k
    <3>1. i - 1 \in 1 .. n - 1 /\ ~(i - 1 < k) /\ ~(i < k) /\ i - 1 + 1 = i
      BY <2>2
    <3>2. d[i - 1] = c[i - 1 + 1]
      BY <3>1 DEF Without
    <3> QED
      BY <3>1, <3>2
  <2> QED
    BY <2>1, <2>2
<1>2. \A i, j \in 1 .. n : i < j /\ i # k /\ j # k => to(i) < to(j)
  OBVIOUS
<1>3. \A i \in 1 .. n : c[i] \in lv => i # k
  OBVIOUS
<1> HIDE DEF to
<1>4. ASSUME NEW a \in lv, In(c, n, a) PROVE In(d, n - 1, a)
  <2>1. PICK i \in 1 .. n : c[i] = a
    BY <1>4 DEF In
  <2>2. to(i) \in 1 .. n - 1 /\ d[to(i)] = a
    BY <1>1, <1>3, <2>1
  <2> QED
    BY <2>2 DEF In
<1>5. ASSUME NEW a \in lv, NEW b \in lv, Before(c, n, a, b) PROVE Before(d, n - 1, a, b)
  <2>1. PICK i, j \in 1 .. n : i < j /\ c[i] = a /\ c[j] = b
    BY <1>5 DEF Before
  <2>2. i # k /\ j # k
    BY <1>3, <2>1
  <2>3. /\ to(i) \in 1 .. n - 1 /\ d[to(i)] = a
        /\ to(j) \in 1 .. n - 1 /\ d[to(j)] = b /\ to(i) < to(j)
    BY <1>1, <1>2, <2>1, <2>2
  <2> QED
    BY <2>3 DEF Before
<1> QED
  BY <1>4, <1>5 DEF Survive

\* head is the first node, tail the last, and del_at finds the node it is asked for.
LEMMA HeadIsFirst ==
  ASSUME TypeOK, NEW n \in Nat, Shaped(n), ~reckless, head # NULL
  PROVE  n >= 1 /\ head = chain[1] /\ chain # <<>> /\ n = Len(chain) /\ chain \in Seq(Addr)
<1>1. Forward(head, next, live, chain, n) /\ n = Len(chain) /\ chain \in Seq(Addr)
  BY DEF Shaped, TypeOK
<1>2. n >= 1 /\ head = chain[1]
  BY <1>1 DEF Forward
<1> QED
  BY <1>1, <1>2, ChainFacts

LEMMA TailIsLast ==
  ASSUME TypeOK, NEW n \in Nat, Shaped(n), "pop_head" \notin used, tail # NULL
  PROVE  n >= 1 /\ tail = chain[n] /\ chain # <<>> /\ n = Len(chain) /\ chain \in Seq(Addr)
<1>1. Backward(tail, prev, chain, n) /\ n = Len(chain) /\ chain \in Seq(Addr)
  BY DEF Shaped, TypeOK
<1>2. n >= 1 /\ tail = chain[n]
  BY <1>1 DEF Backward
<1> QED
  BY <1>1, <1>2, ChainFacts

LEMMA NodeAtPosition ==
  ASSUME TypeOK, NEW n \in Nat, Shaped(n), ~reckless, NEW pos \in Position
  PROVE  /\ pos \in Nat /\ n = Len(chain) /\ chain \in Seq(Addr)
         /\ FindNodeAt(pos) = IF pos < n THEN chain[pos + 1] ELSE NULL
         /\ FindNodeAt(pos) # NULL => pos < n
<1>1. pos \in Nat /\ n = Len(chain) /\ chain \in Seq(Addr)
  BY MaxPosAssumption DEF Position, Shaped, TypeOK
<1>2. FindNodeAt(pos) = IF pos < n THEN chain[pos + 1] ELSE NULL
  BY <1>1, ForwardWalk DEF FindNodeAt
<1> QED
  BY <1>1, <1>2

\* destroy frees every node of the list.
LEMMA DestroyFrees ==
  ASSUME TypeOK, NEW n \in Nat, Shaped(n), ~reckless,
         NEW m \in Lengths, Visits(head, next, m),
         live' = live \ {Walk(head, next)[k] : k \in 0 .. m - 1}
  PROVE  \A i \in 1 .. n : chain[i] \notin live'
<1>1. m = n /\ \A k \in Nat : Walk(head, next)[k] = IF k < n THEN chain[k + 1] ELSE NULL
  BY ForwardWalk
<1> TAKE i \in 1 .. n
<1>2. i - 1 \in 0 .. m - 1 /\ Walk(head, next)[i - 1] = chain[i]
  BY <1>1
<1> QED
  BY <1>2

\* A call leaves the nodes it does not free in order.
LEMMA NextSurvive ==
  ASSUME TypeOK, NEW n \in Nat, Shaped(n), Next, ~reckless'
  PROVE  Survive(chain, n, live', chain', Len(chain'))
<1>1. /\ n = Len(chain) /\ chain \in Seq(Addr)
  BY DEF Shaped, TypeOK
<1>2. ASSUME NEW op, NEW c, Linked(op, c)
      PROVE  ~reckless /\ (op \in Writing => "pop_head" \notin used)
  BY <1>2, LinkedFacts
<1>3. CASE chain' = chain
  BY <1>1, <1>3, AppendSurvive
<1>4. ASSUME NEW op, (\E r : Return(op, r)) \/ Crash(op) PROVE chain' = chain
  BY <1>4 DEF Return, Crash, Linked
<1>5. ASSUME NEW k \in 1 .. n, live' = live \ {chain[k]}, Len(chain') = n - 1,
             Without(chain', chain, n, k)
      PROVE  Survive(chain, n, live', chain', Len(chain'))
  BY <1>5, WithoutSurvive
<1>6. ASSUME NEW v \in Value, PushHead(v) PROVE Survive(chain, n, live', chain', Len(chain'))
  <2>1. ASSUME NEW a \in Addr \ live, Linked("push_head", Cons(a, chain))
        PROVE  Survive(chain, n, live', chain', Len(chain'))
    <3>1. a \in Addr /\ chain' = Cons(a, chain)
      BY <2>1 DEF Linked
    <3>2. Len(chain') = n + 1 /\ \A i \in 2 .. n + 1 : chain'[i] = chain[i - 1]
      BY <1>1, <3>1, PrependFacts
    <3> QED
      BY <3>2, PrependSurvive
  <2> QED
    BY <1>3, <1>4, <1>6, <2>1 DEF PushHead
<1>7. ASSUME NEW v \in Value, PushTail(v) PROVE Survive(chain, n, live', chain', Len(chain'))
  <2>1. ASSUME NEW a \in Addr \ live, Linked("push_tail", Append(chain, a))
        PROVE  Survive(chain, n, live', chain', Len(chain'))
    <3>1. a \in Addr /\ chain' = Append(chain, a)
      BY <2>1 DEF Linked
    <3>2. Len(chain') = n + 1 /\ \A i \in 1 .. n : chain'[i] = chain[i]
      BY <1>1, <3>1, AppendProperties
    <3> QED
      BY <3>2, AppendSurvive
  <2> QED
    BY <1>3, <1>4, <1>7, <2>1 DEF PushTail
<1>8. ASSUME NEW v \in Value, NEW pos \in Position, InsertNode(v, pos)
      PROVE  Survive(chain, n, live', chain', Len(chain'))
  BY <1>3, <1>4, <1>8 DEF InsertNode, Linked
<1>9. ASSUME NEW pos \in Position, GetAt(pos)
      PROVE  Survive(chain, n, live', chain', Len(chain'))
  BY <1>3, <1>4, <1>9 DEF GetAt
<1>10. ASSUME NEW pos \in Position, DelAt(pos)
       PROVE  Survive(chain, n, live', chain', Len(chain'))
  <2>1. ASSUME FindNodeAt(pos) \in live, live' = live \ {FindNodeAt(pos)},
               Linked("del_at", IF pos < Len(chain) THEN RemoveAt(chain, pos + 1) ELSE chain),
               Call("del_at")
        PROVE  Survive(chain, n, live', chain', Len(chain'))
    <3>1. ~reckless
      BY <1>2, <2>1
    <3>2. FindNodeAt(pos) # NULL
      BY <2>1, NullAssumption DEF TypeOK
    <3>3. PICK k \in 1 .. n : k = pos + 1 /\ FindNodeAt(pos) = chain[k] /\ pos < n
      BY <3>1, <3>2, NodeAtPosition
    <3>4. chain' = RemoveAt(chain, k)
      BY <1>1, <2>1, <3>3 DEF Linked
    <3>5. Len(chain') = n - 1 /\ Without(chain', chain, n, k)
      <4>1. /\ Len(RemoveAt(chain, k)) = Len(chain) - 1
            /\ \A i \in 1 .. Len(chain) - 1 :
                 RemoveAt(chain, k)[i] = IF i < k THEN chain[i] ELSE chain[i + 1]
        BY <1>1, RemoveAtFacts
      <4> QED
        BY <1>1, <3>4, <4>1 DEF Without
    <3> QED
      BY <1>5, <2>1, <3>3, <3>5
  <2> QED
    BY <1>3, <1>4, <1>10, <2>1 DEF DelAt, Free
<1>11. CASE HeadValue \/ TailValue \/ ForwardIter \/ BackwardIter
  BY <1>3, <1>4, <1>11 DEF HeadValue, TailValue, ForwardIter, BackwardIter, Iterate
<1>12. CASE PopHead
  <2>1. ASSUME head \in live, live' = live \ {head},
               Linked("pop_head", IF chain = <<>> THEN <<>> ELSE Tail(chain)), Call("pop_head")
        PROVE  Survive(chain, n, live', chain', Len(chain'))
    <3>1. n >= 1 /\ head = chain[1] /\ chain # <<>>
      BY <1>2, <2>1, HeadIsFirst, NullAssumption DEF TypeOK
    <3>2. Len(chain') = n - 1 /\ \A i \in 1 .. n - 1 : chain'[i] = chain[i + 1]
      BY <1>1, <2>1, <3>1, HeadTailProperties DEF Linked
    <3>3. 1 \in 1 .. n /\ Without(chain', chain, n, 1)
      BY <3>1, <3>2 DEF Without
    <3> QED
      BY <1>5, <2>1, <3>1, <3>2, <3>3
  <2> QED
    BY <1>3, <1>4, <1>12, <2>1 DEF PopHead, Free
<1>13. CASE PopTail
  <2>1. ASSUME tail \in live, live' = live \ {tail},
               Linked("pop_tail", IF chain = <<>> THEN <<>> ELSE Front(chain)), Call("pop_tail")
        PROVE  Survive(chain, n, live', chain', Len(chain'))
    <3>1. n >= 1 /\ tail = chain[n] /\ chain # <<>>
      BY <1>2, <2>1, TailIsLast, NullAssumption DEF TypeOK, Writing
    <3>2. Len(chain') = n - 1 /\ \A i \in 1 .. n - 1 : chain'[i] = chain[i]
      BY <1>1, <2>1, <3>1, FrontFacts DEF Linked
    <3>3. n \in 1 .. n /\ Without(chain', chain, n, n)
      BY <3>1, <3>2 DEF Without
    <3> QED
      BY <1>5, <2>1, <3>1, <3>2, <3>3
  <2> QED
    BY <1>3, <1>4, <1>13, <2>1 DEF PopTail, Free
<1>14. CASE Destroy
  <2>1. ASSUME NEW m \in Lengths, Visits(head, next, m), Linked("destroy", <<>>),
               live' = live \ {Walk(head, next)[k] : k \in 0 .. m - 1}
        PROVE  Survive(chain, n, live', chain', Len(chain'))
    <3>1. \A i \in 1 .. n : chain[i] \notin live'
      BY <1>2, <2>1, DestroyFrees
    <3> QED
      BY <3>1 DEF Survive, In, Before
  <2> QED
    BY <1>3, <1>4, <1>14, <2>1 DEF Destroy, Free
<1> QED
  BY <1>6, <1>7, <1>8, <1>9, <1>10, <1>11, <1>12, <1>13, <1>14 DEF Next
-----------------------------------------------------------------------------
(* Iterations whose callbacks change the list *)

\* a comes before b in the direction of the iteration.
Ahead(dir, c, n, a, b) ==
  IF dir = "forward" THEN Before(c, n, a, b) ELSE Before(c, n, b, a)

\* q is the node an iteration goes to next: what it is yet to hand out is q or
\* after it, what it has handed out before it.
OnCourse(dir, q, due, done, c, n) ==
  /\ q # NULL => In(c, n, q)
  /\ \A d \in due : q # NULL /\ (d = q \/ Ahead(dir, c, n, q, d))
  /\ \A d \in done : In(c, n, d) /\ (q # NULL => Ahead(dir, c, n, d, q))

Iteration ==
  [dir : {"forward", "backward"}, next : Pointer, due : SUBSET Addr,
   done : SUBSET Addr, gone : BOOLEAN]

\* An iteration under way follows links the calls have kept, and unless a
\* callback has freed the node it was to go to next, it is on course.
Steady(it, c, n) ==
  /\ it \in Iteration /\ Trusted(it.dir)
  /\ ~it.gone => OnCourse(it.dir, it.next, it.due, it.done, c, n)

IterInv ==
  /\ iter # NULL => Steady(iter, chain, Len(chain))
  /\ IterationSafe

LEMMA InFacts ==
  ASSUME NEW n \in Nat, NEW c, NEW a, NEW b, Before(c, n, a, b)
  PROVE  In(c, n, a) /\ In(c, n, b)
BY DEF Before, In

LEMMA TrustedFacts ==
  ASSUME TypeOK, NEW dir \in {"forward", "backward"}, Trusted(dir)
  PROVE  ~reckless /\ (dir = "backward" => "pop_head" \notin used)
BY DEF Trusted, TypeOK

\* Handing out the node at p and going on to the next keeps the course.
LEMMA HandedOn ==
  ASSUME TypeOK, NEW n \in Nat, Shaped(n), NEW dir \in {"forward", "backward"},
         Trusted(dir), NEW p, In(chain, n, p), NEW due, NEW done, NEW q, q = Link(dir)[p],
         \A d \in due : d = p \/ Ahead(dir, chain, n, p, d),
         \A d \in done : In(chain, n, d) /\ Ahead(dir, chain, n, d, p)
  PROVE  q \in Pointer /\ OnCourse(dir, q, due \ {p}, done \cup {p}, chain, n)
<1>1. ~reckless /\ (dir = "backward" => "pop_head" \notin used)
  BY TrustedFacts
<1>2. /\ Forward(head, next, live, chain, n)
      /\ dir = "backward" => Backward(tail, prev, chain, n)
      /\ live \subseteq Addr
  BY <1>1 DEF Shaped, TypeOK
<1>3. PICK i \in 1 .. n : chain[i] = p
  BY DEF In
<1>4. /\ \A j \in 1 .. n : chain[j] = p => j = i
      /\ \A j \in 1 .. n : chain[j] \in Addr /\ chain[j] # NULL
  BY <1>2, <1>3, NullAssumption DEF Forward
<1>5. CASE dir = "forward"
  <2>1. q = IF i < n THEN chain[i + 1] ELSE NULL
    BY <1>2, <1>3, <1>5 DEF Forward, Link
  <2>2. q # NULL => i + 1 \in 1 .. n /\ q = chain[i + 1]
    BY <2>1
  <2>3. q \in Pointer /\ (q # NULL => In(chain, n, q))
    BY <1>4, <2>1, <2>2 DEF Pointer, In
  <2>4. ASSUME NEW d \in due \ {p} PROVE q # NULL /\ (d = q \/ Before(chain, n, q, d))
    <3>1. PICK k, j \in 1 .. n : k < j /\ chain[k] = p /\ chain[j] = d
      BY <1>5, <2>4 DEF Ahead, Before
    <3>2. k = i /\ i < n /\ i + 1 \in 1 .. n
      BY <1>4, <3>1
    <3>3. q = chain[i + 1] /\ q # NULL
      BY <1>4, <2>1, <3>2
    <3>4. CASE j = i + 1
      BY <3>1, <3>3, <3>4
    <3>5. CASE i + 1 < j
      BY <3>1, <3>2, <3>3, <3>5 DEF Before
    <3> QED
      BY <3>1, <3>2, <3>3, <3>4, <3>5
  <2>5. ASSUME NEW d \in done \cup {p} PROVE In(chain, n, d) /\ (q # NULL => Before(chain, n, d, q))
    <3>1. CASE d = p
      <4>1. q # NULL => i + 1 \in 1 .. n /\ i < i + 1 /\ chain[i] = d /\ chain[i + 1] = q
        BY <1>3, <2>2, <3>1
      <4> QED
        BY <3>1, <4>1 DEF Before
    <3>2. CASE d # p
      <4>1. In(chain, n, d) /\ Before(chain, n, d, p)
        BY <1>5, <2>5, <3>2 DEF Ahead
      <4>2. PICK k, j \in 1 .. n : k < j /\ chain[k] = d /\ chain[j] = p
        BY <4>1 DEF Before
      <4>3. j = i
        BY <1>4, <4>2
      <4>4. q # NULL => i + 1 \in 1 .. n /\ k < i + 1 /\ chain[i + 1] = q
        BY <2>2, <4>2, <4>3
      <4> QED
        BY <4>1, <4>2, <4>4 DEF Before
    <3> QED
      BY <3>1, <3>2
  <2> QED
    BY <1>5, <2>3, <2>4, <2>5 DEF OnCourse, Ahead
<1>6. CASE dir = "backward"
  <2>1. q = IF i > 1 THEN chain[i - 1] ELSE NULL
    BY <1>2, <1>3, <1>6 DEF Backward, Link
  <2>2. q # NULL => i - 1 \in 1 .. n /\ q = chain[i - 1]
    BY <2>1
  <2>3. q \in Pointer /\ (q # NULL => In(chain, n, q))
    BY <1>4, <2>1, <2>2 DEF Pointer, In
  <2>4. ASSUME NEW d \in due \ {p} PROVE q # NULL /\ (d = q \/ Before(chain, n, d, q))
    <3>1. PICK j, k \in 1 .. n : j < k /\ chain[j] = d /\ chain[k] = p
      BY <1>6, <2>4 DEF Ahead, Before
    <3>2. k = i /\ i > 1 /\ i - 1 \in 1 .. n
      BY <1>4, <3>1
    <3>3. q = chain[i - 1] /\ q # NULL
      BY <1>4, <2>1, <3>2
    <3>4. CASE j = i - 1
      BY <3>1, <3>3, <3>4
    <3>5. CASE j < i - 1
      BY <3>1, <3>2, <3>3, <3>5 DEF Before
    <3> QED
      BY <3>1, <3>2, <3>3, <3>4, <3>5
  <2>5. ASSUME NEW d \in done \cup {p} PROVE In(chain, n, d) /\ (q # NULL => Before(chain, n, q, d))
    <3>1. CASE d = p
      <4>1. q # NULL => i - 1 \in 1 .. n /\ i - 1 < i /\ chain[i] = d /\ chain[i - 1] = q
        BY <1>3, <2>2, <3>1
      <4> QED
        BY <3>1, <4>1 DEF Before
    <3>2. CASE d # p
      <4>1. In(chain, n, d) /\ Before(chain, n, p, d)
        BY <1>6, <2>5, <3>2 DEF Ahead
      <4>2. PICK j, k \in 1 .. n : j < k /\ chain[j] = p /\ chain[k] = d
        BY <4>1 DEF Before
      <4>3. j = i
        BY <1>4, <4>2
      <4>4. q # NULL => i - 1 \in 1 .. n /\ i - 1 < k /\ chain[i - 1] = q
        BY <2>2, <4>2, <4>3
      <4> QED
        BY <4>1, <4>2, <4>4 DEF Before
    <3> QED
      BY <3>1, <3>2
  <2> QED
    BY <1>6, <2>3, <2>4, <2>5 DEF OnCourse, Ahead
<1> QED
  BY <1>5, <1>6

\* The iteration hands out a node and is steady.
LEMMA HandedSteady ==
  ASSUME TypeOK, NEW n \in Nat, Shaped(n), NEW dir \in {"forward", "backward"},
         Trusted(dir), NEW p \in live, NEW due \in SUBSET Addr, NEW done \in SUBSET Addr,
         NEW gone \in BOOLEAN,
         ~gone => /\ In(chain, n, p)
                  /\ \A d \in due : d = p \/ Ahead(dir, chain, n, p, d)
                  /\ \A d \in done : In(chain, n, d) /\ Ahead(dir, chain, n, d, p),
         Handed(dir, p, due, done, gone), UNCHANGED vars
  PROVE  Steady(iter, chain, Len(chain))'
<1>1. /\ live \subseteq Addr /\ prev \in [Addr -> Pointer] /\ next \in [Addr -> Pointer]
      /\ n = Len(chain)
  BY DEF TypeOK, Shaped
<1>2. chain' = chain
  BY DEF vars
<1>3. Trusted(dir)'
  BY DEF Trusted, vars
<1>4. PICK q : q = Link(dir)[p]
  OBVIOUS
<1>5. q \in Pointer
  BY <1>1, <1>4 DEF Link
<1>6. ~gone => OnCourse(dir, q, due \ {p}, done \cup {p}, chain, n)
  BY <1>4, HandedOn
<1>7. /\ iter'.dir = dir /\ iter'.next = q /\ iter'.due = due \ {p}
      /\ iter'.done = done \cup {p} /\ iter'.gone = gone
      /\ iter' \in Iteration
  BY <1>1, <1>4, <1>5 DEF Handed, Iteration
<1> QED
  BY <1>1, <1>2, <1>3, <1>5, <1>6, <1>7, Zenon DEF Steady, Trusted

LEMMA BeginSteady ==
  ASSUME TypeOK, NEW n \in Nat, Shaped(n), NEW dir \in {"forward", "backward"},
         Begin(dir)
  PROVE  Steady(iter, chain, Len(chain))' /\ lost' = lost
<1> DEFINE p == IF dir = "forward" THEN head ELSE tail
<1>1. Trusted(dir) /\ UNCHANGED vars
  BY DEF Begin
<1>2. ~reckless /\ (dir = "backward" => "pop_head" \notin used)
  BY <1>1, TrustedFacts
<1>3. Forward(head, next, live, chain, n) /\ n = Len(chain) /\ chain \in Seq(Addr)
  BY <1>2 DEF Shaped, TypeOK
<1>4. dir = "backward" => Backward(tail, prev, chain, n)
  BY <1>2 DEF Shaped
<1>5. p \in live \cup {NULL}
  BY <1>3, <1>4 DEF Forward, Backward
<1>6. p \in live /\ Handed(dir, p, Nodes, {}, FALSE) /\ UNCHANGED lost
  BY <1>5 DEF Begin
<1>7. p # NULL
  BY <1>6, NullAssumption DEF TypeOK
<1>8. n >= 1 /\ p = IF dir = "forward" THEN chain[1] ELSE chain[n]
  BY <1>3, <1>4, <1>7 DEF Forward, Backward
<1>9. In(chain, n, p)
  <2>1. 1 \in 1 .. n /\ n \in 1 .. n
    BY <1>8
  <2> QED
    BY <1>8, <2>1 DEF In
<1>10. ASSUME NEW d \in Nodes PROVE d = p \/ Ahead(dir, chain, n, p, d)
  <2>1. PICK j \in 1 .. n : d = chain[j]
    BY <1>3, ChainFacts DEF Nodes
  <2>2. CASE dir = "forward"
    <3>1. j = 1 \/ (1 \in 1 .. n /\ 1 < j)
      BY <1>8
    <3> QED
      BY <1>8, <2>1, <2>2, <3>1 DEF Ahead, Before
  <2>3. CASE dir = "backward"
    <3>1. j = n \/ (n \in 1 .. n /\ j < n)
      BY <1>8
    <3> QED
      BY <1>8, <2>1, <2>3, <3>1 DEF Ahead, Before
  <2> QED
    BY <2>2, <2>3
<1> HIDE DEF p
<1>11. Steady(iter, chain, Len(chain))'
  <2>1. \A d \in {} : In(chain, n, d) /\ Ahead(dir, chain, n, d, p)
    OBVIOUS
  <2>2. Nodes \in SUBSET Addr
    BY <1>3, ChainFacts DEF Nodes
  <2> QED
    BY <1>1, <1>6, <1>9, <1>10, <2>1, <2>2, HandedSteady
<1> QED
  BY <1>6, <1>11

LEMMA AdvanceSteady ==
  ASSUME TypeOK, NEW n \in Nat, Shaped(n), iter # NULL,
         Steady(iter, chain, Len(chain)), Advance
  PROVE  /\ iter' # NULL => Steady(iter, chain, Len(chain))'
         /\ lost' # lost => iter' # NULL /\ iter'.gone
<1>1. /\ n = Len(chain) /\ UNCHANGED vars
  BY DEF Shaped, Advance
<1> DEFINE p == iter.next
<1>2. /\ iter.dir \in {"forward", "backward"} /\ Trusted(iter.dir) /\ iter.gone \in BOOLEAN
      /\ iter.due \in SUBSET Addr /\ iter.done \in SUBSET Addr
      /\ ~iter.gone => OnCourse(iter.dir, p, iter.due, iter.done, chain, n)
  BY <1>1 DEF Steady, Iteration
<1>3. Forward(head, next, live, chain, n)
  BY <1>2, TrustedFacts DEF Shaped
<1>4. CASE iter.next = NULL /\ iter' = NULL /\ UNCHANGED lost
  BY <1>4
<1>5. CASE iter.next \notin live \cup {NULL} /\ lost' = TRUE /\ UNCHANGED iter
  <2>1. iter.gone
    <3>1. SUFFICES ASSUME ~iter.gone PROVE FALSE
      BY <1>2
    <3>2. In(chain, n, p)
      BY <1>2, <1>5, <3>1 DEF OnCourse
    <3> QED
      BY <1>3, <1>5, <3>2 DEF Forward, In
  <2>2. Steady(iter, chain, Len(chain))'
    BY <1>1, <1>5 DEF Steady, Trusted, vars
  <2> QED
    BY <1>5, <2>1, <2>2
<1>6. CASE /\ iter.next \in live
           /\ Handed(iter.dir, iter.next, iter.due, iter.done, iter.gone)
           /\ UNCHANGED lost
  <2>1. p # NULL
    BY <1>6, NullAssumption DEF TypeOK
  <2>2. ~iter.gone =>
          /\ In(chain, n, p)
          /\ \A d \in iter.due : d = p \/ Ahead(iter.dir, chain, n, p, d)
          /\ \A d \in iter.done : In(chain, n, d) /\ Ahead(iter.dir, chain, n, d, p)
    BY <1>2, <2>1 DEF OnCourse
  <2>3. PICK dir, due, done, gone : /\ dir = iter.dir /\ due = iter.due
                                    /\ done = iter.done /\ gone = iter.gone
    OBVIOUS
  <2>4. PICK r : r = p
    OBVIOUS
  <2>5. /\ dir \in {"forward", "backward"} /\ Trusted(dir) /\ gone \in BOOLEAN /\ r \in live
        /\ due \in SUBSET Addr /\ done \in SUBSET Addr
        /\ Handed(dir, r, due, done, gone)
        /\ ~gone => /\ In(chain, n, r)
                    /\ \A d \in due : d = r \/ Ahead(dir, chain, n, r, d)
                    /\ \A d \in done : In(chain, n, d) /\ Ahead(dir, chain, n, d, r)
    BY <1>2, <1>6, <2>2, <2>3, <2>4
  <2>6. Steady(iter, chain, Len(chain))'
    BY <1>1, <2>5, HandedSteady
  <2> QED
    BY <1>6, <2>6
<1> QED
  BY <1>4, <1>5, <1>6 DEF Advance

\* A callback leaves the iteration on course, or frees the node it goes to next.
LEMMA CallbackSteady ==
  ASSUME TypeOK, TypeOK', NEW n \in Nat, Shaped(n), iter # NULL,
         Steady(iter, chain, Len(chain)), Callback, iter' # NULL
  PROVE  Steady(iter, chain, Len(chain))'
<1>1. /\ n = Len(chain) /\ Next
      /\ iter' = [iter EXCEPT
                    !.due = @ \cap live', !.done = @ \cap live',
                    !.gone = @ \/ (iter.next \in live /\ iter.next \notin live')]
      /\ ~(iter.dir = "forward" /\ reckless')
      /\ ~(iter.dir = "backward" /\ "pop_head" \in used')
  BY DEF Shaped, Callback
<1>2. /\ iter \in Iteration /\ Trusted(iter.dir) /\ iter.dir \in {"forward", "backward"}
      /\ ~iter.gone => OnCourse(iter.dir, iter.next, iter.due, iter.done, chain, n)
  BY <1>1 DEF Steady, Iteration
<1>3. ~reckless /\ ~reckless'
  BY <1>1, <1>2, TrustedFacts DEF TypeOK
<1>4. Trusted(iter.dir)'
  BY <1>1, <1>2 DEF Trusted
<1>5. PICK dir, q, due, done : /\ dir = iter.dir /\ q = iter.next
                               /\ due = iter.due /\ done = iter.done
  OBVIOUS
<1>6. /\ iter'.dir = dir /\ iter'.next = q
      /\ iter'.due = due \cap live' /\ iter'.done = done \cap live'
      /\ iter'.gone = (iter.gone \/ (q \in live /\ q \notin live'))
      /\ iter' \in Iteration
  BY <1>1, <1>2, <1>5 DEF Iteration
<1>7. Survive(chain, n, live', chain', Len(chain'))
  BY <1>1, <1>3, NextSurvive
<1>8. Forward(head, next, live, chain, n)
  BY <1>3 DEF Shaped
<1>9. ASSUME ~iter'.gone
      PROVE  OnCourse(dir, q, due \cap live', done \cap live', chain', Len(chain'))
  <2>1. /\ ~iter.gone /\ (q \in live => q \in live')
        /\ OnCourse(dir, q, due, done, chain, n)
    BY <1>2, <1>5, <1>6, <1>9
  <2>2. q # NULL => In(chain, n, q) /\ q \in live'
    <3>1. In(chain, n, q) => q \in live
      BY <1>8 DEF Forward, In
    <3> QED
      BY <2>1, <3>1 DEF OnCourse
  <2>3. /\ \A a \in live' : In(chain, n, a) => In(chain', Len(chain'), a)
        /\ \A a, b \in live' : Before(chain, n, a, b) => Before(chain', Len(chain'), a, b)
    BY <1>7 DEF Survive
  <2>4. q # NULL => In(chain', Len(chain'), q)
    BY <2>2, <2>3
  <2>5. ASSUME NEW d \in due \cap live'
        PROVE  q # NULL /\ (d = q \/ Ahead(dir, chain', Len(chain'), q, d))
    <3>1. q # NULL /\ (d = q \/ Ahead(dir, chain, n, q, d))
      BY <2>1 DEF OnCourse
    <3> QED
      BY <2>2, <2>3, <3>1 DEF Ahead
  <2>6. ASSUME NEW d \in done \cap live'
        PROVE  /\ In(chain', Len(chain'), d)
               /\ q # NULL => Ahead(dir, chain', Len(chain'), d, q)
    <3>1. In(chain, n, d) /\ (q # NULL => Ahead(dir, chain, n, d, q))
      BY <2>1 DEF OnCourse
    <3> QED
      BY <2>2, <2>3, <3>1 DEF Ahead
  <2> QED
    BY <2>4, <2>5, <2>6 DEF OnCourse
<1>10. ~iter'.gone
         => OnCourse(iter'.dir, iter'.next, iter'.due, iter'.done, chain', Len(chain'))
  BY <1>6, <1>9, Zenon
<1> QED
  BY <1>4, <1>5, <1>6, <1>10, Zenon DEF Steady, Trusted

\* Every step of an iteration is one of the list or leaves the list alone.
LEMMA IterNextIsNext == [IterNext]_ivars => [Next]_vars
BY DEF IterNext, Callback, Advance, Begin, ivars

LEMMA IterImpliesSpec == IterSpec => Spec
<1>1. IterInit => Init
  BY DEF IterInit
<1> QED
  BY <1>1, IterNextIsNext, PTL DEF IterSpec, Spec

LEMMA IterInductive ==
  /\ IterInit => IterInv
  /\ Inv /\ Inv' /\ IterInv /\ [IterNext]_ivars => IterInv'
<1>1. IterInit => IterInv
  BY DEF IterInit, IterInv, IterationSafe
<1>2. ASSUME Inv, Inv', IterInv, [IterNext]_ivars PROVE IterInv'
  <2>1. TypeOK /\ TypeOK'
    BY <1>2 DEF Inv
  <2>2. PICK n \in Nat : n = Len(chain)
    BY <2>1, ChainFacts DEF TypeOK
  <2>3. Shaped(n)
    BY <1>2, <2>1, <2>2, ShapedIsInv DEF Inv, TypeOK
  <2>4. iter # NULL => Steady(iter, chain, Len(chain))
    BY <1>2 DEF IterInv
  <2>5. ASSUME NEW dir \in {"forward", "backward"}, Begin(dir), ~lost PROVE IterInv'
    <3>1. Steady(iter, chain, Len(chain))' /\ lost' = lost
      BY <2>1, <2>3, <2>5, BeginSteady
    <3> QED
      BY <2>5, <3>1 DEF IterInv, IterationSafe
  <2>6. CASE Advance /\ ~lost
    <3>1. iter # NULL
      BY <2>6 DEF Advance
    <3>2. /\ iter' # NULL => Steady(iter, chain, Len(chain))'
          /\ lost' # lost => iter' # NULL /\ iter'.gone
      BY <2>1, <2>3, <2>4, <2>6, <3>1, AdvanceSteady
    <3> QED
      BY <2>6, <3>2 DEF IterInv, IterationSafe
  <2>7. CASE Callback /\ ~lost
    <3>1. lost' = lost /\ (iter = NULL => iter' = NULL)
      BY <2>7 DEF Callback
    <3>2. iter' # NULL => Steady(iter, chain, Len(chain))'
      BY <2>1, <2>3, <2>4, <2>7, <3>1, CallbackSteady
    <3> QED
      BY <2>7, <3>1, <3>2 DEF IterInv, IterationSafe
  <2>8. CASE UNCHANGED ivars
    <3>1. /\ iter' = iter /\ lost' = lost /\ chain' = chain /\ used' = used
          /\ reckless' = reckless
      BY <2>8 DEF ivars, vars
    <3> QED
      BY <1>2, <3>1 DEF IterInv, IterationSafe, Steady, Trusted
  <2> QED
    BY <1>2, <2>5, <2>6, <2>7, <2>8 DEF IterNext
<1> QED
  BY <1>1, <1>2

LEMMA OnCourseHandsOnce ==
  ASSUME Inv, IterInv
  PROVE  HandedOnce
<1> SUFFICES ASSUME iter # NULL, ~iter.gone
             PROVE  (iter.next = NULL => iter.due = {}) /\ iter.next \notin iter.done
  BY DEF HandedOnce
<1>1. PICK n \in Nat : n = Len(chain)
  BY ChainFacts DEF Inv, TypeOK
<1>2. Shaped(n) /\ TypeOK
  BY <1>1, ShapedIsInv DEF Inv, TypeOK
<1>3. /\ iter \in Iteration /\ Trusted(iter.dir)
      /\ OnCourse(iter.dir, iter.next, iter.due, iter.done, chain, n)
  BY <1>1 DEF IterInv, Steady
<1>4. Forward(head, next, live, chain, n) /\ NULL \notin live
  BY <1>2, <1>3, TrustedFacts, NullAssumption DEF Shaped, TypeOK, Iteration
<1>5. iter.next = NULL => iter.due = {}
  BY <1>3 DEF OnCourse
<1>6. ASSUME iter.next \in iter.done PROVE FALSE
  <2>1. In(chain, n, iter.next) /\ (iter.next # NULL => Before(chain, n, iter.next, iter.next))
    BY <1>3, <1>6 DEF OnCourse, Ahead
  <2>2. iter.next # NULL
    BY <1>4, <2>1 DEF In, Forward
  <2> QED
    BY <1>4, <2>1, <2>2 DEF Before, Forward
<1> QED
  BY <1>5, <1>6

\* The inductive invariants together, of an iteration and the list it is over.
LEMMA IterInvariance == IterSpec => [](Inv /\ IterInv)
BY IterImpliesSpec, IterNextIsNext, InvInductive, IterInductive, PTL DEF IterSpec, Spec

\* An iteration follows no pointer to freed memory, whatever its callbacks do
\* to the list, unless one of them frees the node it was to go to next.
THEOREM IterationSafeCorrect == IterSpec => []IterationSafe
<1>1. IterInv => IterationSafe
  BY DEF IterInv
<1> QED
  BY <1>1, IterInvariance, PTL

\* Then it hands out every node once that stays in the list, and none twice.
THEOREM HandedOnceCorrect == IterSpec => []HandedOnce
BY OnCourseHandsOnce, IterInvariance, PTL
-----------------------------------------------------------------------------
(* LinkedList implements ListSpec *)

\* The values at the nodes c, f being the nodes' value field
ListAt(f, c) == [i \in 1 .. Len(c) |-> f[c[i]]]

\* s is a list of values of V that are those at the nodes.
Values(s, f, c, V) ==
  s \in Seq(V) /\ Len(s) = Len(c) /\ \A i \in 1 .. Len(c) : s[i] = f[c[i]]

LEMMA ListAtValues ==
  ASSUME NEW V, NEW f \in [Addr -> V], NEW c \in Seq(Addr)
  PROVE  Values(ListAt(f, c), f, c, V)
<1>1. Len(c) \in Nat /\ \A i \in 1 .. Len(c) : c[i] \in Addr
  BY LenProperties
<1>2. \A i \in 1 .. Len(c) : f[c[i]] \in V
  BY <1>1
<1> QED
  BY <1>1, <1>2 DEF ListAt, Values

\* There is one such list only.
LEMMA ListAtIs ==
  ASSUME NEW V, NEW f \in [Addr -> V], NEW c \in Seq(Addr), NEW s, Values(s, f, c, V)
  PROVE  ListAt(f, c) = s
<1>1. Values(ListAt(f, c), f, c, V)
  BY ListAtValues
<1>2. PICK t : t = ListAt(f, c)
  OBVIOUS
<1>3. t \in Seq(V) /\ Len(t) = Len(c) /\ \A i \in 1 .. Len(c) : t[i] = f[c[i]]
  BY <1>1, <1>2 DEF Values
<1>4. s \in Seq(V) /\ Len(s) = Len(c) /\ \A i \in 1 .. Len(c) : s[i] = f[c[i]]
  BY DEF Values
<1>5. t = s
  BY <1>3, <1>4, SeqEqual
<1> QED
  BY <1>2, <1>5

\* g and f have the same values at the nodes of c whose positions are in I.
SameAt(f, g, c, I) == \A i \in I : g[c[i]] = f[c[i]]

\* The list depends on the fields of its own nodes alone.
LEMMA ListSame ==
  ASSUME NEW f, NEW g, NEW c, \A i \in 1 .. Len(c) : g[c[i]] = f[c[i]]
  PROVE  ListAt(g, c) = ListAt(f, c)
BY DEF ListAt

LEMMA ListCons ==
  ASSUME NEW V, NEW f \in [Addr -> V], NEW c \in Seq(Addr), NEW a \in Addr, NEW v \in V,
         NEW g \in [Addr -> V], g[a] = v, SameAt(f, g, c, 1 .. Len(c))
  PROVE  ListAt(g, Cons(a, c)) = Cons(v, ListAt(f, c))
<1>1. PICK n \in Nat : n = Len(c)
  BY LenProperties
<1>2. PICK s \in Seq(V) : s = ListAt(f, c) /\ Len(s) = n /\ \A i \in 1 .. n : s[i] = f[c[i]]
  <2>1. Values(ListAt(f, c), f, c, V)
    BY ListAtValues
  <2>2. PICK s : s = ListAt(f, c)
    OBVIOUS
  <2>3. s \in Seq(V) /\ Len(s) = n /\ \A i \in 1 .. n : s[i] = f[c[i]]
    BY <1>1, <2>1, <2>2 DEF Values
  <2> QED
    BY <2>2, <2>3, Zenon
<1>3. PICK d : d = Cons(a, c)
  OBVIOUS
<1>4. PICK t : t = Cons(v, s)
  OBVIOUS
<1>5. /\ d \in Seq(Addr) /\ Len(d) = n + 1 /\ d[1] = a
      /\ \A i \in 2 .. n + 1 : d[i] = c[i - 1]
  <2>1. d \in Seq(Addr) /\ Prepends(d, a, c)
    BY <1>3, ConsPrepends
  <2> QED
    BY <1>1, <2>1 DEF Prepends
<1>6. /\ t \in Seq(V) /\ Len(t) = n + 1 /\ t[1] = v
      /\ \A i \in 2 .. n + 1 : t[i] = s[i - 1]
  <2>1. t \in Seq(V) /\ Prepends(t, v, s)
    BY <1>4, ConsPrepends
  <2> QED
    BY <1>2, <2>1 DEF Prepends
<1>7. ASSUME NEW i \in 1 .. n + 1 PROVE t[i] = g[d[i]]
  <2>1. CASE i = 1
    BY <1>5, <1>6, <2>1
  <2>2. CASE i > 1
    <3>1. i - 1 \in 1 .. n /\ i \in 2 .. n + 1
      BY <1>2, <2>2
    <3>2. d[i] = c[i - 1] /\ t[i] = f[c[i - 1]]
      BY <1>2, <1>5, <1>6, <3>1
    <3> QED
      BY <1>1, <3>1, <3>2 DEF SameAt
  <2> QED
    BY <1>2, <2>1, <2>2
<1>8. Values(t, g, d, V)
  BY <1>5, <1>6, <1>7 DEF Values
<1>9. ListAt(g, d) = t
  BY <1>5, <1>8, ListAtIs
<1> QED
  BY <1>2, <1>3, <1>4, <1>9

\* g's list of the nodes c and a is f's list of the nodes c and v.
Grown(f, g, c, a, v) == ListAt(g, Append(c, a)) = Append(ListAt(f, c), v)

LEMMA ListAppend ==
  ASSUME NEW V, NEW f \in [Addr -> V], NEW c \in Seq(Addr), NEW a \in Addr, NEW v \in V,
         NEW g \in [Addr -> V], g[a] = v, SameAt(f, g, c, 1 .. Len(c))
  PROVE  Grown(f, g, c, a, v)
<1>1. PICK n \in Nat : n = Len(c)
  BY LenProperties
<1>2. PICK s \in Seq(V) : s = ListAt(f, c) /\ Len(s) = n /\ \A i \in 1 .. n : s[i] = f[c[i]]
  <2>1. Values(ListAt(f, c), f, c, V)
    BY ListAtValues
  <2>2. PICK s : s = ListAt(f, c)
    OBVIOUS
  <2>3. s \in Seq(V) /\ Len(s) = n /\ \A i \in 1 .. n : s[i] = f[c[i]]
    BY <1>1, <2>1, <2>2 DEF Values
  <2> QED
    BY <2>2, <2>3, Zenon
<1>3. PICK d : d = Append(c, a)
  OBVIOUS
<1>4. PICK t : t = Append(s, v)
  OBVIOUS
<1>5. /\ d \in Seq(Addr) /\ Len(d) = n + 1 /\ d[n + 1] = a
      /\ \A i \in 1 .. n : d[i] = c[i]
  BY <1>1, <1>2, <1>3, AppendProperties
<1>6. /\ t \in Seq(V) /\ Len(t) = n + 1 /\ t[n + 1] = v
      /\ \A i \in 1 .. n : t[i] = s[i]
  BY <1>2, <1>4, AppendProperties
<1>7. ASSUME NEW i \in 1 .. n + 1 PROVE t[i] = g[d[i]]
  <2>1. CASE i = n + 1
    BY <1>5, <1>6, <2>1
  <2>2. CASE i < n + 1
    <3>1. i \in 1 .. n
      BY <1>2, <2>2
    <3>2. d[i] = c[i] /\ t[i] = f[c[i]]
      BY <1>2, <1>5, <1>6, <3>1
    <3> QED
      BY <1>1, <3>1, <3>2 DEF SameAt
  <2> QED
    BY <1>2, <2>1, <2>2
<1>8. Values(t, g, d, V)
  BY <1>5, <1>6, <1>7 DEF Values
<1>9. ListAt(g, d) = t
  BY <1>5, <1>8, ListAtIs
<1> QED
  BY <1>2, <1>3, <1>4, <1>9 DEF Grown

\* g's list of the nodes c but the k'th is f's list of c but the k'th.
Shrunk(f, g, c, k) == ListAt(g, RemoveAt(c, k)) = RemoveAt(ListAt(f, c), k)

LEMMA ListRemove ==
  ASSUME NEW V, NEW f \in [Addr -> V], NEW c \in Seq(Addr), NEW k \in 1 .. Len(c),
         NEW g \in [Addr -> V], SameAt(f, g, c, (1 .. Len(c)) \ {k})
  PROVE  Shrunk(f, g, c, k)
<1>1. PICK n \in Nat : n = Len(c)
  BY LenProperties
<1>2. PICK s \in Seq(V) : s = ListAt(f, c) /\ Len(s) = n /\ \A i \in 1 .. n : s[i] = f[c[i]]
  <2>1. Values(ListAt(f, c), f, c, V)
    BY ListAtValues
  <2>2. PICK s : s = ListAt(f, c)
    OBVIOUS
  <2>3. s \in Seq(V) /\ Len(s) = n /\ \A i \in 1 .. n : s[i] = f[c[i]]
    BY <1>1, <2>1, <2>2 DEF Values
  <2> QED
    BY <2>2, <2>3, Zenon
<1>3. PICK d : d = RemoveAt(c, k)
  OBVIOUS
<1>4. PICK t : t = RemoveAt(s, k)
  OBVIOUS
<1>5. k \in 1 .. n /\ k \in 1 .. Len(s)
  BY <1>1, <1>2
<1>6. d \in Seq(Addr) /\ Len(d) = n - 1
  BY <1>1, <1>3, RemoveAtFacts
<1>7. \A i \in 1 .. n - 1 : d[i] = IF i < k THEN c[i] ELSE c[i + 1]
  <2>1. \A i \in 1 .. Len(c) - 1 : RemoveAt(c, k)[i] = IF i < k THEN c[i] ELSE c[i + 1]
    BY ONLY c \in Seq(Addr), k \in 1 .. Len(c), RemoveAtFacts
  <2> QED
    BY <1>1, <1>3, <2>1
<1>8. t \in Seq(V) /\ Len(t) = n - 1
  BY <1>2, <1>4, <1>5, RemoveAtFacts
<1>9. \A i \in 1 .. n - 1 : t[i] = IF i < k THEN s[i] ELSE s[i + 1]
  <2>1. \A i \in 1 .. Len(s) - 1 : RemoveAt(s, k)[i] = IF i < k THEN s[i] ELSE s[i + 1]
    BY ONLY <1>2, <1>5, RemoveAtFacts
  <2> QED
    BY <1>2, <1>4, <2>1
<1>10. ASSUME NEW i \in 1 .. n - 1 PROVE t[i] = g[d[i]]
  <2>1. CASE i < k
    <3>1. i \in 1 .. n /\ i # k
      BY <1>2, <2>1
    <3>2. d[i] = c[i] /\ t[i] = f[c[i]]
      BY <1>2, <1>7, <1>9, <2>1, <3>1
    <3> QED
      BY <1>1, <3>1, <3>2 DEF SameAt
  <2>2. CASE ~(i < k)
    <3>1. i + 1 \in 1 .. n /\ i + 1 # k
      BY <1>2, <1>5, <2>2
    <3>2. d[i] = c[i + 1] /\ t[i] = f[c[i + 1]]
      BY <1>2, <1>7, <1>9, <2>2, <3>1
    <3> QED
      BY <1>1, <3>1, <3>2 DEF SameAt
  <2> QED
    BY <2>1, <2>2
<1>11. Values(t, g, d, V)
  BY <1>6, <1>8, <1>10 DEF Values
<1>12. ListAt(g, d) = t
  BY <1>6, <1>11, ListAtIs
<1> QED
  BY <1>2, <1>3, <1>4, <1>12 DEF Shrunk

LEMMA ListFront ==
  ASSUME NEW V, NEW f \in [Addr -> V], NEW c \in Seq(Addr), c # <<>>,
         NEW g \in [Addr -> V], SameAt(f, g, c, 1 .. Len(c) - 1)
  PROVE  ListAt(g, Front(c)) = Front(ListAt(f, c))
<1>1. PICK n \in Nat : n = Len(c)
  BY LenProperties
<1>2. PICK s \in Seq(V) : s = ListAt(f, c) /\ Len(s) = n /\ \A i \in 1 .. n : s[i] = f[c[i]]
  <2>1. Values(ListAt(f, c), f, c, V)
    BY ListAtValues
  <2>2. PICK s : s = ListAt(f, c)
    OBVIOUS
  <2>3. s \in Seq(V) /\ Len(s) = n /\ \A i \in 1 .. n : s[i] = f[c[i]]
    BY <1>1, <2>1, <2>2 DEF Values
  <2> QED
    BY <2>2, <2>3, Zenon
<1>3. n >= 1 /\ s # <<>>
  BY <1>1, <1>2, EmptySeq
<1>4. PICK d, t : d = Front(c) /\ t = Front(s)
  OBVIOUS
<1>5. d \in Seq(Addr) /\ Len(d) = n - 1 /\ \A i \in 1 .. n - 1 : d[i] = c[i]
  BY <1>1, <1>4, FrontFacts
<1>6. t \in Seq(V) /\ Len(t) = n - 1 /\ \A i \in 1 .. n - 1 : t[i] = s[i]
  BY <1>2, <1>3, <1>4, FrontFacts
<1>7. Values(t, g, d, V)
  <2> SUFFICES ASSUME NEW i \in 1 .. n - 1 PROVE t[i] = g[d[i]]
    BY <1>5, <1>6 DEF Values
  <2>1. i \in 1 .. n /\ i \in 1 .. Len(c) - 1
    BY <1>1
  <2> QED
    BY <1>2, <1>5, <1>6, <2>1 DEF SameAt
<1>8. ListAt(g, d) = t
  BY <1>5, <1>7, ListAtIs
<1> QED
  BY <1>2, <1>4, <1>8

\* The sequence of values the state stands for
TheList == [i \in 1 .. Len(chain) |-> value[chain[i]]]

\* ListSpec's instances of the library operators are the library's.
LEMMA SameOperators ==
  ASSUME NEW s, NEW e, NEW k
  PROVE  /\ L!Cons(e, s) = Cons(e, s) /\ L!RemoveAt(s, k) = RemoveAt(s, k)
         /\ L!Front(s) = Front(s) /\ L!Last(s) = Last(s) /\ L!Reverse(s) = Reverse(s)
BY Zenon DEF L!Cons, Cons, L!RemoveAt, RemoveAt, L!Front, Front, L!Last, Last, L!Reverse, Reverse

\* With neither pop_head nor insert_at in use
Plain(u) == u \cap {"pop_head", "insert_at"} = {}

\* The node added holds the value pushed and the others keep theirs.
LEMMA NodeAdded ==
  ASSUME TypeOK, NEW n \in Nat, Shaped(n), ~reckless, NEW v \in Value,
         NEW a \in Addr \ live, MakeNode(a, v)
  PROVE  /\ ListAt(value', Cons(a, chain)) = Cons(v, TheList)
         /\ ListAt(value', Append(chain, a)) = Append(TheList, v)
<1>1. PICK f, c, g, V : f = value /\ c = chain /\ g = value' /\ V = Value \cup {NULL}
  OBVIOUS
<1>2. f \in [Addr -> V] /\ g = [f EXCEPT ![a] = v]
  BY <1>1 DEF TypeOK, MakeNode
<1>3. f \in [Addr -> V] /\ g \in [Addr -> V]
  BY <1>1, <1>2
<1>4. c \in Seq(Addr)
  BY <1>1 DEF TypeOK
<1>5. Forward(head, next, live, chain, n) /\ n = Len(chain)
  BY DEF Shaped
<1>6. \A i \in 1 .. Len(c) : c[i] \in Addr /\ c[i] # a
  BY <1>1, <1>4, <1>5, LenProperties DEF Forward
<1>7. g[a] = v /\ a \in Addr /\ v \in V
  BY <1>1, <1>2
<1>8. SameAt(f, g, c, 1 .. Len(c))
  BY <1>2, <1>6 DEF SameAt
<1>9. ListAt(g, Cons(a, c)) = Cons(v, ListAt(f, c))
  BY ONLY <1>3, <1>4, <1>7, <1>8, ListCons
<1>10. Grown(f, g, c, a, v)
  BY ONLY <1>3, <1>4, <1>7, <1>8, ListAppend
<1>11. TheList = ListAt(f, c)
  BY <1>1 DEF TheList, ListAt
<1> QED
  BY <1>1, <1>9, <1>10, <1>11 DEF Grown

\* What is known of the list before and after a call that is not one of those.
LEMMA PlainFacts ==
  ASSUME TypeOK, TypeOK', NEW n \in Nat, Shaped(n), NEW op, Call(op), Plain(used')
  PROVE  /\ ~reckless /\ ~reckless' /\ "pop_head" \notin used
         /\ n = Len(chain) /\ chain \in Seq(Addr) /\ (chain = <<>> <=> n = 0)
         /\ Forward(head, next, live, chain, n) /\ Backward(tail, prev, chain, n)
<1>1. ~reckless /\ ~reckless' /\ "pop_head" \notin used
  BY Calls DEF Plain, TypeOK
<1>2. n = Len(chain) /\ chain \in Seq(Addr)
  BY DEF Shaped, TypeOK
<1> QED
  BY <1>1, <1>2, ChainFacts DEF Shaped

LEMMA TheListFacts ==
  ASSUME TypeOK
  PROVE  /\ TheList = ListAt(value, chain) /\ TheList \in Seq(Value \cup {NULL})
         /\ Len(TheList) = Len(chain) /\ (TheList = <<>> <=> chain = <<>>)
         /\ \A i \in 1 .. Len(chain) : TheList[i] = value[chain[i]]
<1>1. PICK f, c, V : f = value /\ c = chain /\ V = Value \cup {NULL}
  OBVIOUS
<1>2. f \in [Addr -> V] /\ c \in Seq(Addr)
  BY <1>1 DEF TypeOK
<1>3. Values(ListAt(f, c), f, c, V)
  BY <1>2, ListAtValues
<1>4. TheList = ListAt(f, c)
  BY <1>1 DEF TheList, ListAt
<1>5. PICK t : t = TheList
  OBVIOUS
<1>6. /\ t \in Seq(V) /\ Len(t) = Len(c)
      /\ \A i \in 1 .. Len(c) : t[i] = f[c[i]]
  BY <1>3, <1>4, <1>5 DEF Values
<1>7. t = <<>> <=> c = <<>>
  BY <1>2, <1>6, EmptySeq
<1> QED
  BY <1>1, <1>4, <1>5, <1>6, <1>7

\* The node freed takes its value out of the list and the others keep theirs.
LEMMA NodeFreed ==
  ASSUME TypeOK, NEW n \in Nat, Shaped(n), ~reckless, NEW k \in 1 .. n,
         Free({chain[k]})
  PROVE  /\ ListAt(value', RemoveAt(chain, k)) = RemoveAt(TheList, k)
         /\ k = n => ListAt(value', Front(chain)) = Front(TheList)
<1>1. PICK f, c, g, V : f = value /\ c = chain /\ g = value' /\ V = Value \cup {NULL}
  OBVIOUS
<1>2. f \in [Addr -> V] /\ NULL \in V /\ g = [a \in Addr |-> IF a = c[k] THEN NULL ELSE f[a]]
  BY <1>1 DEF TypeOK, Free, Scrub
<1>3. f \in [Addr -> V] /\ g \in [Addr -> V]
  BY <1>2
<1>4. c \in Seq(Addr)
  BY <1>1 DEF TypeOK
<1>5. Forward(head, next, live, c, n) /\ n = Len(c)
  BY <1>1 DEF Shaped
<1>6. \A i \in 1 .. Len(c) : c[i] \in Addr /\ (i # k => c[i] # c[k])
  BY <1>4, <1>5, LenProperties DEF Forward
<1>7. SameAt(f, g, c, (1 .. Len(c)) \ {k})
  BY <1>2, <1>6 DEF SameAt
<1>8. k \in 1 .. Len(c)
  BY <1>5
<1>9. Shrunk(f, g, c, k)
  BY ONLY <1>3, <1>4, <1>7, <1>8, ListRemove
<1>10. ASSUME k = n PROVE ListAt(g, Front(c)) = Front(ListAt(f, c))
  <2>1. SameAt(f, g, c, 1 .. Len(c) - 1)
    BY <1>5, <1>7, <1>10 DEF SameAt
  <2>2. c # <<>>
    BY <1>4, <1>8, ChainFacts
  <2> QED
    BY ONLY <1>3, <1>4, <2>1, <2>2, ListFront, ZenonT(30)
<1>11. TheList = ListAt(f, c)
  BY <1>1 DEF TheList, ListAt
<1> QED
  BY <1>1, <1>9, <1>10, <1>11 DEF Shrunk

\* A call that changes nothing leaves the list as it was.
LEMMA ReturnLists ==
  ASSUME NEW op, NEW r, Return(op, r)
  PROVE  L!Answer(op, r) /\ TheList' = TheList
BY DEF Return, Answer, L!Answer, nodes, TheList

\* push_head and push_tail put the value at their end, or fail.
LEMMA PushHeadLists ==
  ASSUME TypeOK, TypeOK', NEW n \in Nat, Shaped(n), Plain(used'), NEW v \in Value,
         PushHead(v), ~fault'
  PROVE  L!PushHead(v)
<1>1. ~reckless /\ ~reckless'
  BY PlainFacts DEF PushHead
<1>2. CASE Return("push_head", FALSE)
  BY <1>1, <1>2, ReturnLists DEF L!Fails, L!PushHead, TheList
<1>3. CASE Crash("push_head")
  BY <1>3 DEF Crash
<1>4. ASSUME NEW a \in Addr \ live, MakeNode(a, v), Linked("push_head", Cons(a, chain)),
             Answer("push_head", TRUE)
      PROVE  L!PushHead(v)
  <2>1. chain' = Cons(a, chain)
    BY <1>1, <1>4 DEF Linked
  <2>2. ListAt(value', Cons(a, chain)) = Cons(v, TheList)
    BY <1>1, <1>4, NodeAdded
  <2>3. TheList' = Cons(v, TheList)
    BY <2>1, <2>2 DEF TheList, ListAt
  <2> QED
    BY <1>4, <2>3, SameOperators DEF L!PushHead, L!Answer, Answer, TheList
<1> QED
  BY <1>2, <1>3, <1>4 DEF PushHead

LEMMA PushTailLists ==
  ASSUME TypeOK, TypeOK', NEW n \in Nat, Shaped(n), Plain(used'), NEW v \in Value,
         PushTail(v), ~fault'
  PROVE  L!PushTail(v)
<1>1. ~reckless /\ ~reckless'
  BY PlainFacts DEF PushTail
<1>2. CASE Return("push_tail", FALSE)
  BY <1>1, <1>2, ReturnLists DEF L!Fails, L!PushTail, TheList
<1>3. CASE Crash("push_tail")
  BY <1>3 DEF Crash
<1>4. ASSUME NEW a \in Addr \ live, MakeNode(a, v), Linked("push_tail", Append(chain, a)),
             Answer("push_tail", TRUE)
      PROVE  L!PushTail(v)
  <2>1. chain' = Append(chain, a)
    BY <1>1, <1>4 DEF Linked
  <2>2. ListAt(value', Append(chain, a)) = Append(TheList, v)
    BY <1>1, <1>4, NodeAdded
  <2>3. TheList' = Append(TheList, v)
    BY <2>1, <2>2 DEF TheList, ListAt
  <2> QED
    BY <1>4, <2>3 DEF L!PushTail, L!Answer, Answer, TheList
<1> QED
  BY <1>2, <1>3, <1>4 DEF PushTail

\* pop_tail takes the last value.
LEMMA PopTailLists ==
  ASSUME TypeOK, TypeOK', NEW n \in Nat, Shaped(n), Plain(used'), PopTail, ~fault'
  PROVE  L!PopTail
<1>1. /\ ~reckless /\ ~reckless' /\ "pop_head" \notin used
      /\ n = Len(chain) /\ (chain = <<>> <=> n = 0) /\ Backward(tail, prev, chain, n)
  BY PlainFacts DEF PopTail
<1>2. /\ Len(TheList) = n /\ (TheList = <<>> <=> chain = <<>>)
      /\ \A i \in 1 .. n : TheList[i] = value[chain[i]]
  BY <1>1, TheListFacts
<1>3. CASE tail = NULL /\ Return("pop_tail", NULL)
  <2>1. n = 0
    <3>1. n # 0 => chain[n] \in Addr
      BY <1>1, ChainFacts DEF TypeOK
    <3> QED
      BY <1>1, <1>3, <3>1, NullAssumption DEF Backward
  <2>2. TheList = <<>>
    BY <1>1, <1>2, <2>1
  <2> QED
    BY <1>1, <1>3, <2>2, ReturnLists DEF L!PopTail, TheList
<1>4. CASE Crash("pop_tail")
  BY <1>4 DEF Crash
<1>5. ASSUME tail \in live, Free({tail}), Answer("pop_tail", value[tail]),
             Linked("pop_tail", IF chain = <<>> THEN <<>> ELSE Front(chain))
      PROVE  L!PopTail
  <2>1. n >= 1 /\ tail = chain[n] /\ chain # <<>>
    <3>1. tail # NULL
      BY <1>5, NullAssumption DEF TypeOK
    <3> QED
      BY <1>1, <3>1, TailIsLast
  <2>2. chain' = Front(chain)
    BY <1>1, <1>5, <2>1 DEF Linked
  <2>3. n \in 1 .. n /\ Free({chain[n]})
    BY <1>5, <2>1
  <2>4. ListAt(value', Front(chain)) = Front(TheList)
    BY <1>1, <2>3, NodeFreed
  <2>5. TheList' = Front(TheList)
    BY <2>2, <2>4 DEF TheList, ListAt
  <2>6. Last(TheList) = value[tail] /\ TheList # <<>>
    BY <1>2, <2>1, <2>3 DEF Last
  <2> QED
    BY <1>5, <2>5, <2>6, SameOperators DEF L!PopTail, L!Answer, Answer, TheList
<1> QED
  BY <1>3, <1>4, <1>5 DEF PopTail

\* del_at takes out the value at the position, when there is one.
LEMMA DelAtLists ==
  ASSUME TypeOK, TypeOK', NEW n \in Nat, Shaped(n), Plain(used'), NEW pos \in Position,
         DelAt(pos), ~fault'
  PROVE  L!DelAt(pos)
<1>1. ~reckless /\ ~reckless' /\ \A i \in 1 .. n : chain[i] \in live
  BY PlainFacts DEF DelAt, Forward
<1>2. /\ pos \in Nat /\ n = Len(chain)
      /\ FindNodeAt(pos) = IF pos < n THEN chain[pos + 1] ELSE NULL
  BY <1>1, NodeAtPosition
<1>3. Len(TheList) = n
  BY <1>2, TheListFacts
<1>4. CASE FindNodeAt(pos) = NULL /\ Return("del_at", FALSE)
  <2>1. pos >= n
    <3>1. pos < n => pos + 1 \in 1 .. n
      BY <1>2
    <3>2. pos < n => chain[pos + 1] # NULL
      BY <1>1, <3>1, NullAssumption DEF TypeOK
    <3> QED
      BY <1>2, <1>4, <3>2
  <2>2. pos >= Len(TheList)
    BY <1>3, <2>1
  <2> QED
    BY <1>1, <1>4, <2>2, ReturnLists DEF L!DelAt, TheList
<1>5. CASE Crash("del_at")
  BY <1>5 DEF Crash
<1>6. ASSUME FindNodeAt(pos) \in live, Free({FindNodeAt(pos)}), Answer("del_at", TRUE),
             Linked("del_at", IF pos < Len(chain) THEN RemoveAt(chain, pos + 1) ELSE chain)
      PROVE  L!DelAt(pos)
  <2>1. FindNodeAt(pos) # NULL
    BY <1>6, NullAssumption DEF TypeOK
  <2>2. pos < n /\ pos + 1 \in 1 .. n /\ FindNodeAt(pos) = chain[pos + 1]
    BY <1>2, <2>1
  <2>3. chain' = RemoveAt(chain, pos + 1)
    BY <1>1, <1>2, <1>6, <2>2 DEF Linked
  <2>4. Free({chain[pos + 1]})
    BY <1>6, <2>2
  <2>5. ListAt(value', RemoveAt(chain, pos + 1)) = RemoveAt(TheList, pos + 1)
    BY <1>1, <2>2, <2>4, NodeFreed
  <2>6. TheList' = RemoveAt(TheList, pos + 1)
    BY <2>3, <2>5 DEF TheList, ListAt
  <2>7. pos < Len(TheList)
    BY <1>3, <2>2
  <2> QED
    BY <1>6, <2>6, <2>7, SameOperators DEF L!DelAt, L!Answer, Answer, TheList
<1> QED
  BY <1>4, <1>5, <1>6 DEF DelAt

\* get_at, head and tail answer with the value at a position.
LEMMA GetAtLists ==
  ASSUME TypeOK, TypeOK', NEW n \in Nat, Shaped(n), Plain(used'), NEW pos \in Position,
         GetAt(pos), ~fault'
  PROVE  L!GetAt(pos)
<1>1. ~reckless /\ ~reckless' /\ \A i \in 1 .. n : chain[i] \in live
  BY PlainFacts DEF GetAt, Forward
<1>2. /\ pos \in Nat /\ n = Len(chain)
      /\ FindNodeAt(pos) = IF pos < n THEN chain[pos + 1] ELSE NULL
  BY <1>1, NodeAtPosition
<1>3. Len(TheList) = n /\ \A i \in 1 .. n : TheList[i] = value[chain[i]]
  BY <1>2, TheListFacts
<1>4. Return("get_at", IF FindNodeAt(pos) = NULL THEN NULL ELSE value[FindNodeAt(pos)])
  BY DEF GetAt, Crash
<1>5. PICK r : r = IF FindNodeAt(pos) = NULL THEN NULL ELSE value[FindNodeAt(pos)]
  OBVIOUS
<1>6. r = IF pos \in 0 .. Len(TheList) - 1 THEN TheList[pos + 1] ELSE NULL
  <2>1. CASE pos < n
    <3>1. pos + 1 \in 1 .. n /\ pos \in 0 .. Len(TheList) - 1
      BY <1>2, <1>3, <2>1
    <3>2. chain[pos + 1] # NULL
      BY <1>1, <3>1, NullAssumption DEF TypeOK
    <3> QED
      BY <1>2, <1>3, <1>5, <2>1, <3>1, <3>2
  <2>2. CASE ~(pos < n)
    BY <1>2, <1>3, <1>5, <2>2
  <2> QED
    BY <2>1, <2>2
<1>7. Return("get_at", r)
  BY <1>4, <1>5
<1>8. L!Answer("get_at", r) /\ TheList' = TheList
  BY <1>1, <1>7, ReturnLists
<1> QED
  BY <1>6, <1>8 DEF L!GetAt, L!Item, TheList

LEMMA HeadLists ==
  ASSUME TypeOK, TypeOK', NEW n \in Nat, Shaped(n), Plain(used'), HeadValue, ~fault'
  PROVE  L!Read
<1>1. ~reckless /\ ~reckless' /\ n = Len(chain) /\ Forward(head, next, live, chain, n)
  BY PlainFacts DEF HeadValue
<1>2. Len(TheList) = n /\ \A i \in 1 .. n : TheList[i] = value[chain[i]]
  BY <1>1, TheListFacts
<1>3. PICK r : r = IF head = NULL THEN NULL ELSE value[head]
  OBVIOUS
<1>4. r = IF 0 \in 0 .. Len(TheList) - 1 THEN TheList[0 + 1] ELSE NULL
  <2>1. CASE n = 0
    BY <1>1, <1>2, <1>3, <2>1 DEF Forward
  <2>2. CASE n # 0
    <3>1. 1 \in 1 .. n /\ 0 \in 0 .. Len(TheList) - 1
      BY <1>2, <2>2
    <3>2. head = chain[1] /\ head # NULL
      BY <1>1, <2>2, <3>1, NullAssumption DEF Forward, TypeOK
    <3> QED
      BY <1>2, <1>3, <3>1, <3>2
  <2> QED
    BY <2>1, <2>2
<1>5. Return("head", r)
  BY <1>3 DEF HeadValue, Crash
<1>6. L!Answer("head", r) /\ TheList' = TheList
  BY <1>1, <1>5, ReturnLists
<1> QED
  BY <1>4, <1>6 DEF L!Read, L!Item, TheList

LEMMA TailLists ==
  ASSUME TypeOK, TypeOK', NEW n \in Nat, Shaped(n), Plain(used'), TailValue, ~fault'
  PROVE  L!Read
<1>1. /\ ~reckless /\ ~reckless' /\ n = Len(chain)
      /\ Forward(head, next, live, chain, n) /\ Backward(tail, prev, chain, n)
  BY PlainFacts DEF TailValue
<1>2. Len(TheList) = n /\ \A i \in 1 .. n : TheList[i] = value[chain[i]]
  BY <1>1, TheListFacts
<1>3. PICK r : r = IF tail = NULL THEN NULL ELSE value[tail]
  OBVIOUS
<1>4. r = IF Len(TheList) - 1 \in 0 .. Len(TheList) - 1
          THEN TheList[Len(TheList) - 1 + 1] ELSE NULL
  <2>1. CASE n = 0
    BY <1>1, <1>2, <1>3, <2>1 DEF Backward
  <2>2. CASE n # 0
    <3>1. n \in 1 .. n /\ n - 1 \in 0 .. n - 1 /\ n - 1 + 1 = n
      BY <2>2
    <3>2. tail = chain[n] /\ tail # NULL
      BY <1>1, <2>2, <3>1, NullAssumption DEF Forward, Backward, TypeOK
    <3> QED
      BY <1>2, <1>3, <3>1, <3>2
  <2> QED
    BY <2>1, <2>2
<1>5. Return("tail", r)
  BY <1>3 DEF TailValue, Crash
<1>6. L!Answer("tail", r) /\ TheList' = TheList
  BY <1>1, <1>5, ReturnLists
<1> QED
  BY <1>4, <1>6 DEF L!Read, L!Item, TheList

\* The forward loop hands over the values in order, the backward one reversed.
LEMMA ForwardIterLists ==
  ASSUME TypeOK, TypeOK', NEW n \in Nat, Shaped(n), Plain(used'), ForwardIter, ~fault'
  PROVE  L!Read
<1>1. ~reckless /\ ~reckless' /\ n = Len(chain)
  BY PlainFacts DEF ForwardIter, Iterate
<1>2. PICK m \in Lengths :
        /\ Visits(head, next, m)
        /\ Return("forward_iter", [k \in 1 .. m |-> value[Walk(head, next)[k - 1]]])
  BY DEF ForwardIter, Iterate, Crash
<1>3. m = n /\ \A k \in Nat : Walk(head, next)[k] = IF k < n THEN chain[k + 1] ELSE NULL
  BY <1>1, <1>2, ForwardWalk
<1>4. \A k \in 1 .. n : value[Walk(head, next)[k - 1]] = value[chain[k]]
  <2> TAKE k \in 1 .. n
  <2>1. k - 1 \in Nat /\ k - 1 < n /\ k - 1 + 1 = k
    OBVIOUS
  <2> QED
    BY <1>3, <2>1
<1>5. [k \in 1 .. m |-> value[Walk(head, next)[k - 1]]] = TheList
  BY <1>1, <1>3, <1>4 DEF TheList
<1>6. Return("forward_iter", TheList)
  BY <1>2, <1>5, Zenon
<1>7. L!Answer("forward_iter", TheList) /\ TheList' = TheList
  BY <1>1, <1>6, ReturnLists
<1> QED
  BY <1>7 DEF L!Read, TheList

LEMMA BackwardIterLists ==
  ASSUME TypeOK, TypeOK', NEW n \in Nat, Shaped(n), Plain(used'), BackwardIter, ~fault'
  PROVE  L!Read
<1>1. ~reckless' /\ "pop_head" \notin used /\ n = Len(chain)
  BY PlainFacts DEF BackwardIter, Iterate
<1>2. PICK m \in Lengths :
        /\ Visits(tail, prev, m)
        /\ Return("backward_iter", [k \in 1 .. m |-> value[Walk(tail, prev)[k - 1]]])
  BY DEF BackwardIter, Iterate, Crash
<1>3. m = n /\ \A k \in Nat : Walk(tail, prev)[k] = IF k < n THEN chain[n - k] ELSE NULL
  BY <1>1, <1>2, BackwardWalk
<1>4. Len(TheList) = n /\ \A i \in 1 .. n : TheList[i] = value[chain[i]]
  BY <1>1, TheListFacts
<1>5. \A k \in 1 .. n : value[Walk(tail, prev)[k - 1]] = TheList[(Len(TheList) - k) + 1]
  <2> TAKE k \in 1 .. n
  <2>1. k - 1 \in Nat /\ k - 1 < n /\ n - (k - 1) = (n - k) + 1 /\ (n - k) + 1 \in 1 .. n
    OBVIOUS
  <2> QED
    BY <1>3, <1>4, <2>1
<1>6. [k \in 1 .. m |-> value[Walk(tail, prev)[k - 1]]] = Reverse(TheList)
  BY <1>3, <1>4, <1>5 DEF Reverse
<1>7. PICK r : r = Reverse(TheList)
  OBVIOUS
<1>8. Return("backward_iter", r)
  BY <1>2, <1>6, <1>7, Zenon
<1>9. L!Answer("backward_iter", r) /\ TheList' = TheList
  BY <1>1, <1>8, ReturnLists
<1> QED
  BY <1>7, <1>9, SameOperators DEF L!Read, TheList

\* destroy leaves the empty list.
LEMMA DestroyLists ==
  ASSUME TypeOK, TypeOK', NEW n \in Nat, Shaped(n), Plain(used'), Destroy, ~fault'
  PROVE  L!Destroy
<1>1. ~reckless'
  BY PlainFacts DEF Destroy
<1>2. chain' = <<>> /\ Answer("destroy", TRUE)
  BY <1>1 DEF Destroy, Crash, Linked
<1>3. TheList' = <<>>
  BY <1>2 DEF TheList
<1> QED
  BY <1>2, <1>3 DEF L!Destroy, L!Answer, Answer, TheList

\* Every such call is a call of ListSpec.
LEMMA NextLists ==
  ASSUME TypeOK, TypeOK', NEW n \in Nat, Shaped(n), Next, Plain(used'), ~fault'
  PROVE  L!Next
<1>1. ASSUME NEW v \in Value, args' = <<v>>, PushHead(v) \/ PushTail(v) PROVE L!Next
  <2>1. L!PushHead(v) \/ L!PushTail(v)
    BY <1>1, PushHeadLists, PushTailLists
  <2> QED
    BY <1>1, <2>1, Zenon DEF L!Next
<1>2. ASSUME NEW v \in Value, NEW pos \in Position, InsertNode(v, pos) PROVE FALSE
  BY <1>2 DEF InsertNode, Call, Tracked, Plain
<1>3. ASSUME NEW pos \in Position, args' = <<pos>>, GetAt(pos) \/ DelAt(pos) PROVE L!Next
  <2>1. L!GetAt(pos) \/ L!DelAt(pos)
    BY <1>3, GetAtLists, DelAtLists
  <2> QED
    BY <1>3, <2>1, Zenon DEF L!Next
<1>4. ASSUME args' = <<>>, HeadValue \/ TailValue \/ ForwardIter \/ BackwardIter
      PROVE  L!Next
  <2>1. L!Read
    BY <1>4, HeadLists, TailLists, ForwardIterLists, BackwardIterLists
  <2> QED
    BY <1>4, <2>1, Zenon DEF L!Next
<1>5. ASSUME args' = <<>>, PopTail \/ Destroy PROVE L!Next
  <2>1. L!PopTail \/ L!Destroy
    BY <1>5, PopTailLists, DestroyLists
  <2> QED
    BY <1>5, <2>1, Zenon DEF L!Next
<1>6. ASSUME PopHead PROVE FALSE
  BY <1>6 DEF PopHead, Call, Tracked, Plain
<1> QED
  BY <1>1, <1>2, <1>3, <1>4, <1>5, <1>6, Zenon DEF Next

\* Every step is one of ListSpec, or leaves the list and the answer as they were.
LEMMA StepLists ==
  Inv /\ Inv' /\ [Next]_vars =>
    [used' \cap {"pop_head", "insert_at"} = {} => [L!Next]_L!lvars]_vars
<1> SUFFICES ASSUME Inv, Inv', Next, Plain(used')
             PROVE  L!Next
  BY Zenon DEF Plain
<1>1. PICK n \in Nat : n = Len(chain)
  BY ChainFacts DEF Inv, TypeOK
<1>2. TypeOK /\ TypeOK' /\ Shaped(n)
  BY <1>1, ShapedIsInv DEF Inv, TypeOK
<1>3. ~fault'
  BY DEF Inv, FaultsOnlyPastPopHead, Plain
<1> QED
  BY <1>2, <1>3, NextLists

\* With neither pop_head nor insert_at in use, a linked list is a list: each
\* call answers from the sequence of its values and changes it as documented.
THEOREM ImplementsList == Spec => ImplementsListSpec
<1>1. Init => L!Init
  <2> SUFFICES ASSUME Init PROVE L!Init
    OBVIOUS
  <2>1. TheList = <<>>
    BY DEF Init, TheList
  <2> QED
    BY <2>1 DEF Init, L!Init, TheList
<1> QED
  BY <1>1, InvInductive, StepLists, PTL DEF Spec, ImplementsListSpec
=============================================================================
