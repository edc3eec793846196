----------------------------- MODULE HeapProofs -----------------------------
(***************************************************************************)
(* Proofs about Heap, for every set of pointers with any keys, every size  *)
(* and every capacity, those whose byte count wraps included.              *)
(***************************************************************************)
EXTENDS Heap, SeqLemmas

\* a may be the parent of b.
Above(a, b) == IF type = "MIN_HEAP" THEN Cmp(a, b) =< 0 ELSE Cmp(a, b) >= 0

\* The value on its way down is also in the cell the heap has given up last:
\* that is where it came from, and no swap reaches there.
Sinking ==
  cur # NULL /\ cur.op = "pop" =>
    size < Len(cells) /\ Node(size) = Node(cur.index)

\* The inductive invariant.
Inv == TypeOK /\ HeapOrder /\ Sinking

-----------------------------------------------------------------------------
(* The comparison, and the tree *)

\* The comparator orders the pointers, NULL included, by their keys.
LEMMA CmpFacts ==
  /\ \A a, b \in Stored : Cmp(a, b) \in Int
  /\ \A a, b \in Stored : Cmp(a, b) =< 0 <=> Cmp(b, a) >= 0
  /\ \A a, b \in Stored : Cmp(a, b) < 0 <=> Cmp(b, a) > 0
  /\ \A a, b, c \in Stored : Cmp(a, b) =< 0 /\ Cmp(b, c) =< 0 => Cmp(a, c) =< 0
<1>1. \A a \in Stored : a # NULL => Key[a] \in Int
  BY ValueAssumption DEF Stored
<1> QED
  BY <1>1 DEF Cmp

\* So being above is a total preorder.
LEMMA AboveFacts ==
  ASSUME NEW a \in Stored, NEW b \in Stored, NEW c \in Stored
  PROVE  /\ Above(a, a)
         /\ Above(a, b) \/ Above(b, a)
         /\ Above(a, b) /\ Above(b, c) => Above(a, c)
<1>1. Cmp(a, a) \in Int /\ Cmp(a, b) \in Int /\ Cmp(b, a) \in Int
  BY CmpFacts
<1>2. Cmp(a, a) =< 0 /\ Cmp(a, a) >= 0
  BY <1>1, CmpFacts
<1>3. Cmp(a, b) =< 0 \/ Cmp(b, a) =< 0
  BY <1>1, CmpFacts
<1>4. Cmp(a, b) >= 0 \/ Cmp(b, a) >= 0
  BY <1>1, CmpFacts
<1>5. Cmp(a, b) =< 0 /\ Cmp(b, c) =< 0 => Cmp(a, c) =< 0
  BY CmpFacts
<1>6. Cmp(a, b) >= 0 /\ Cmp(b, c) >= 0 => Cmp(a, c) >= 0
  BY CmpFacts
<1> QED
  BY <1>2, <1>3, <1>4, <1>5, <1>6 DEF Above

\* Every node but the root has a parent, which comes before it, and is one of
\* its two children.
LEMMA TreeFacts ==
  ASSUME NEW i \in Nat \ {0}
  PROVE  /\ Parent(i) \in Nat /\ Parent(i) < i
         /\ i = LeftChild(Parent(i)) \/ i = RightChild(Parent(i))
BY DEF Parent, LeftChild, RightChild

\* The children of a node come after it, and have it as their parent.
LEMMA ChildFacts ==
  ASSUME NEW i \in Nat
  PROVE  /\ LeftChild(i) \in Nat \ {0} /\ RightChild(i) \in Nat \ {0}
         /\ RightChild(i) = LeftChild(i) + 1
         /\ LeftChild(i) > i
         /\ Parent(LeftChild(i)) = i /\ Parent(RightChild(i)) = i
BY DEF Parent, LeftChild, RightChild

\* Every node of the array list holds a pointer or NULL.
LEMMA NodeFacts ==
  ASSUME TypeOK
  PROVE  /\ Len(cells) \in Nat /\ DOMAIN cells = 1 .. Len(cells)
         /\ \A i \in Nat : Node(i) \in Stored
         /\ \A i \in 0 .. Len(cells) - 1 : Node(i) = cells[i + 1]
<1>1. cells \in Seq(Stored)
  BY DEF TypeOK
<1>2. \A i \in 1 .. Len(cells) : cells[i] \in Stored
  BY <1>1, LenProperties
<1> QED
  BY <1>1, <1>2, LenProperties DEF Node, Stored

\* Order in the heap is order of what the nodes hold.
LEMMA InOrderAbove ==
  \A i, j : InOrder(i, j) <=> Above(Node(i), Node(j))
BY DEF InOrder, Above

\* A node that rises belongs above its parent; one that does not, below it.
LEMMA RisesAbove ==
  ASSUME TypeOK, NEW i \in Nat \ {0}
  PROVE  IF Rises(i) THEN Above(Node(i), Node(Parent(i)))
                     ELSE Above(Node(Parent(i)), Node(i))
<1>1. Node(i) \in Stored /\ Node(Parent(i)) \in Stored
  BY NodeFacts, TreeFacts
<1>2. type \in Type
  BY DEF TypeOK
<1>3. /\ Cmp(Node(Parent(i)), Node(i)) \in Int /\ Cmp(Node(i), Node(Parent(i))) \in Int
      /\ Cmp(Node(i), Node(Parent(i))) =< 0 <=> Cmp(Node(Parent(i)), Node(i)) >= 0
      /\ Cmp(Node(Parent(i)), Node(i)) =< 0 <=> Cmp(Node(i), Node(Parent(i))) >= 0
  BY <1>1, CmpFacts
<1> QED
  BY <1>2, <1>3 DEF Rises, Above, Type

\* What a node sinks below belongs above it and its other child; a node that
\* sinks below neither belongs above both.
LEMMA SinksAbove ==
  ASSUME TypeOK, NEW i \in Nat
  PROVE  /\ SinksRight(i) => /\ Above(Node(RightChild(i)), Node(LeftChild(i)))
                             /\ Above(Node(RightChild(i)), Node(i))
         /\ SinksLeft(i) => /\ Above(Node(LeftChild(i)), Node(RightChild(i)))
                            /\ Above(Node(LeftChild(i)), Node(i))
         /\ ~SinksRight(i) /\ ~SinksLeft(i) =>
               /\ Above(Node(i), Node(LeftChild(i)))
               /\ Above(Node(i), Node(RightChild(i)))
<1> DEFINE n == Node(i)  l == Node(LeftChild(i))  r == Node(RightChild(i))
<1>1. n \in Stored /\ l \in Stored /\ r \in Stored
  BY NodeFacts, ChildFacts
<1>2. type \in Type
  BY DEF TypeOK
<1> HIDE DEF n, l, r
<1>3. /\ Cmp(l, r) \in Int /\ Cmp(n, r) \in Int /\ Cmp(n, l) \in Int
      /\ Cmp(r, l) \in Int /\ Cmp(r, n) \in Int /\ Cmp(l, n) \in Int
  BY <1>1, CmpFacts
<1>4. /\ Cmp(l, r) =< 0 <=> Cmp(r, l) >= 0
      /\ Cmp(r, l) =< 0 <=> Cmp(l, r) >= 0
      /\ Cmp(n, r) =< 0 <=> Cmp(r, n) >= 0
      /\ Cmp(r, n) =< 0 <=> Cmp(n, r) >= 0
      /\ Cmp(n, l) =< 0 <=> Cmp(l, n) >= 0
      /\ Cmp(l, n) =< 0 <=> Cmp(n, l) >= 0
  BY <1>1, CmpFacts
<1>5. /\ Cmp(n, l) =< 0 /\ Cmp(l, r) =< 0 => Cmp(n, r) =< 0
      /\ Cmp(n, r) =< 0 /\ Cmp(r, l) =< 0 => Cmp(n, l) =< 0
      /\ Cmp(l, n) =< 0 /\ Cmp(r, l) =< 0 => Cmp(r, n) =< 0
      /\ Cmp(r, n) =< 0 /\ Cmp(l, r) =< 0 => Cmp(l, n) =< 0
  BY <1>1, CmpFacts
<1>6. SinksRight(i) <=>
        \/ type = "MIN_HEAP" /\ Cmp(l, r) > 0 /\ Cmp(n, r) > 0
        \/ type = "MAX_HEAP" /\ Cmp(l, r) < 0 /\ Cmp(n, r) < 0
  BY DEF SinksRight, n, l, r
<1>7. SinksLeft(i) <=>
        \/ type = "MIN_HEAP" /\ Cmp(l, r) =< 0 /\ Cmp(n, l) >= 0
        \/ type = "MAX_HEAP" /\ Cmp(l, r) >= 0 /\ Cmp(n, l) =< 0
  BY DEF SinksLeft, n, l, r
<1>8. /\ SinksRight(i) => Above(r, l) /\ Above(r, n)
      /\ SinksLeft(i) => Above(l, r) /\ Above(l, n)
      /\ ~SinksRight(i) /\ ~SinksLeft(i) => Above(n, l) /\ Above(n, r)
  BY <1>2, <1>3, <1>4, <1>5, <1>6, <1>7 DEF Above, Type
<1> QED
  BY <1>8 DEF n, l, r

\* A swap of two nodes the array list counts exchanges what they hold.
LEMMA SwappedFacts ==
  ASSUME TypeOK, NEW c \in 0 .. Len(cells) - 1, NEW p \in 0 .. Len(cells) - 1,
         c # p, cells' = Swapped(c, p)
  PROVE  /\ cells' \in Seq(Stored) /\ Len(cells') = Len(cells)
         /\ Node(c)' = Node(p) /\ Node(p)' = Node(c)
         /\ \A i \in Nat \ {c, p} : Node(i)' = Node(i)
<1>1. /\ Len(cells) \in Nat /\ cells \in Seq(Stored)
      /\ Node(c) \in Stored /\ Node(p) \in Stored
      /\ c + 1 \in 1 .. Len(cells) /\ p + 1 \in 1 .. Len(cells) /\ c + 1 # p + 1
  BY NodeFacts DEF TypeOK
<1>2. cells' = [cells EXCEPT ![c + 1] = Node(p), ![p + 1] = Node(c)]
  BY DEF Swapped
<1>3. cells' \in Seq(Stored) /\ Len(cells') = Len(cells)
  BY <1>1, <1>2
<1>4. \A i \in 1 .. Len(cells) :
        cells'[i] = IF i = p + 1 THEN Node(c) ELSE IF i = c + 1 THEN Node(p) ELSE cells[i]
  BY <1>1, <1>2
<1>5. \A i \in Nat : Node(i)' = IF i < Len(cells) THEN cells'[i + 1] ELSE NULL
  BY <1>3 DEF Node
<1>6. Node(c)' = Node(p) /\ Node(p)' = Node(c)
  <2>1. c \in Nat /\ p \in Nat /\ c < Len(cells) /\ p < Len(cells)
    BY <1>1
  <2> QED
    BY <1>1, <1>4, <1>5, <2>1
<1>7. ASSUME NEW i \in Nat \ {c, p} PROVE Node(i)' = Node(i)
  <2>1. CASE i < Len(cells)
    <3>1. i + 1 \in 1 .. Len(cells) /\ i + 1 # c + 1 /\ i + 1 # p + 1
      BY <1>1, <2>1
    <3>2. cells'[i + 1] = cells[i + 1]
      BY <1>4, <3>1
    <3> QED
      BY <1>5, <2>1, <3>2 DEF Node
  <2>2. CASE ~(i < Len(cells))
    BY <1>5, <2>2 DEF Node
  <2> QED
    BY <2>1, <2>2
<1> QED
  BY <1>3, <1>6, <1>7
-----------------------------------------------------------------------------
(* The order of a heap, the node heapify has reached aside *)

\* Of two nodes in the heap, one parent of the other, the first is above the
\* second unless it is the parent that has been, or the child that is being,
\* put in order.
LEMMA OrderFacts ==
  ASSUME Inv, made
  PROVE  /\ cur = NULL => \A i \in 1 .. size - 1 : Above(Node(Parent(i)), Node(i))
         /\ cur # NULL /\ cur.op = "push" =>
              \A i \in 1 .. size - 1 : i # cur.index => Above(Node(Parent(i)), Node(i))
         /\ cur # NULL /\ cur.op = "pop" =>
              \A i \in 1 .. size - 1 :
                Parent(i) # cur.index => Above(Node(Parent(i)), Node(i))
         /\ cur # NULL /\ cur.index > 0 =>
              \A i \in 1 .. size - 1 : Parent(i) = cur.index =>
                Above(Node(Parent(cur.index)), Node(i))
<1>1. \A i \in 1 .. size - 1 :
        /\ Displaced(i) \/ Above(Node(Parent(i)), Node(i))
        /\ cur # NULL /\ Parent(i) = cur.index /\ cur.index > 0 =>
             Above(Node(Parent(cur.index)), Node(i))
  BY InOrderAbove DEF Inv, HeapOrder
<1> QED
  BY <1>1 DEF Displaced

\* What a call under way is.
LEMMA CurFacts ==
  ASSUME TypeOK, cur # NULL
  PROVE  /\ cur = [op |-> cur.op, index |-> cur.index, value |-> cur.value]
         /\ cur.op \in {"push", "pop"} /\ cur.value \in Stored
         /\ cur.index \in Nat /\ cur.index < size
         /\ size \in Nat /\ size =< Len(cells) /\ Len(cells) \in Nat
         /\ made /\ ~fault
<1>1. /\ cur \in [op : {"push", "pop"}, index : 0 .. size - 1, value : Stored]
      /\ made /\ ~fault /\ size \in 0 .. MaxSize
  BY DEF TypeOK
<1>2. size \in Nat
  BY <1>1, SizeAssumption
<1> QED
  BY <1>1, <1>2, NodeFacts DEF TypeOK

\* A block has no more cells than asked for, and has them all unless the byte
\* count wraps.
LEMMA SlotsFacts ==
  ASSUME NEW n \in Nat
  PROVE  /\ Slots(n) \in Nat /\ Slots(n) =< n
         /\ n < WrapAt => Slots(n) = n
BY SizeAssumption DEF Slots

\* The capacity a push sees to: the block keeps the cells counted, and has the
\* one to be written unless the client's capacity wraps.
LEMMA RoomFacts ==
  ASSUME TypeOK, made, size < MaxSize
  PROVE  /\ RoomFor(size) \in 0 .. SIZE_MAX /\ RoomFor(size) >= capacity
         /\ size < Slots(RoomFor(size)) => Len(cells) =< Slots(RoomFor(size))
         /\ capacity < WrapAt => size < Slots(RoomFor(size))
<1>1. /\ size \in Nat /\ MaxSize \in Nat /\ MaxSize < WrapAt /\ WrapAt \in Nat
      /\ WrapAt =< SIZE_MAX /\ SIZE_MAX \in Nat /\ capacity \in 0 .. SIZE_MAX
      /\ Len(cells) =< Slots(capacity) /\ Len(cells) \in Nat
  BY NodeFacts, SizeAssumption DEF TypeOK
<1>2. /\ Slots(capacity) \in Nat /\ Slots(capacity) =< capacity
      /\ capacity < WrapAt => Slots(capacity) = capacity
  BY <1>1, SlotsFacts
<1>3. CASE size < capacity
  <2>1. RoomFor(size) = capacity
    BY <1>3 DEF RoomFor
  <2> QED
    BY <1>1, <1>2, <1>3, <2>1
<1>4. CASE ~(size < capacity)
  <2>1. RoomFor(size) = size + 1
    BY <1>4 DEF RoomFor
  <2>2. Slots(size + 1) = size + 1
    BY <1>1, SlotsFacts
  <2> QED
    BY <1>1, <1>2, <1>4, <2>1, <2>2
<1> QED
  BY <1>3, <1>4

\* A call is not NULL.
LEMMA CallFacts ==
  ASSUME NEW op \in {"push", "pop"}, NEW i \in Nat, NEW v \in Stored
  PROVE  [op |-> op, index |-> i, value |-> v] # NULL
BY CallAssumption DEF Stored

\* A step within a call that leaves the tree alone and ends the call, all nodes
\* being in order, keeps the invariant.
LEMMA FinishInv ==
  ASSUME Inv, cur # NULL, NEW r, Finish(r),
         \A i \in 1 .. size - 1 : Above(Node(Parent(i)), Node(i))
  PROVE  Inv'
<1>1. cur' = NULL /\ UNCHANGED heap /\ UNCHANGED fault
  BY DEF Finish
<1>2. TypeOK'
  BY <1>1 DEF Inv, TypeOK, heap
<1>3. HeapOrder'
  BY <1>1, InOrderAbove DEF HeapOrder, InOrder, Above, Node, heap
<1>4. Sinking'
  BY <1>1 DEF Sinking
<1> QED
  BY <1>2, <1>3, <1>4 DEF Inv

\* A step within a call that swaps two nodes, c and i, keeps the types.
LEMMA SwapTypes ==
  ASSUME TypeOK, cur # NULL, NEW c, c = cur.index, NEW i \in 0 .. size - 1, i # c,
         cells' = Swapped(c, i), cur' = [cur EXCEPT !.index = i],
         UNCHANGED <<type, size, capacity, made, fault>>
  PROVE  /\ TypeOK' /\ cur' # NULL /\ Len(cells') = Len(cells)
         /\ cur'.op = cur.op /\ cur'.index = i /\ cur'.value = cur.value
         /\ Node(c)' = Node(i) /\ Node(i)' = Node(c)
         /\ \A j \in Nat \ {c, i} : Node(j)' = Node(j)
<1>1. c \in 0 .. Len(cells) - 1 /\ i \in 0 .. Len(cells) - 1 /\ i \in Nat
  BY CurFacts
<1>2. /\ cells' \in Seq(Stored) /\ Len(cells') = Len(cells)
      /\ Node(c)' = Node(i) /\ Node(i)' = Node(c)
      /\ \A j \in Nat \ {c, i} : Node(j)' = Node(j)
  BY <1>1, SwappedFacts
<1>3. cur' = [op |-> cur.op, index |-> i, value |-> cur.value]
  BY CurFacts
<1>4. cur' # NULL
  BY <1>1, <1>3, CurFacts, CallFacts
<1>5. TypeOK'
  <2>1. cur' \in [op : {"push", "pop"}, index : 0 .. size - 1, value : Stored]
    BY <1>3, CurFacts
  <2> QED
    BY <1>2, <2>1, CurFacts DEF TypeOK
<1> QED
  BY <1>2, <1>3, <1>4, <1>5

\* Being above does not depend on the cells.
LEMMA AbovePrimed ==
  ASSUME UNCHANGED type
  PROVE  /\ \A i, j : InOrder(i, j)' <=> Above(Node(i)', Node(j)')
         /\ \A a, b : Above(a, b)' <=> Above(a, b)
BY DEF InOrder, Above

\* heapify_up: the value pushed rises above its parent's, or stays.
LEMMA HeapifyUpInv ==
  ASSUME Inv, HeapifyUp
  PROVE  Inv'
<1>1. TypeOK /\ cur # NULL /\ cur.op = "push"
  BY DEF Inv, HeapifyUp
<1>2. PICK c : c = cur.index
  OBVIOUS
<1>3. c \in Nat /\ c < size /\ size \in Nat /\ size =< Len(cells) /\ made
  BY <1>1, <1>2, CurFacts
<1>4. \A i \in 1 .. size - 1 : i # c => Above(Node(Parent(i)), Node(i))
  BY <1>1, <1>2, <1>3, OrderFacts
<1>5. ASSUME c = 0 \/ ~Rises(c), Finish(TRUE) PROVE Inv'
  <2>1. \A i \in 1 .. size - 1 : Above(Node(Parent(i)), Node(i))
    BY <1>1, <1>3, <1>4, <1>5, RisesAbove
  <2> QED
    BY <1>1, <1>5, <2>1, FinishInv
<1>6. ASSUME c > 0, Rises(c), cells' = Swapped(c, Parent(c)),
             cur' = [cur EXCEPT !.index = Parent(c)],
             UNCHANGED <<type, size, capacity, made, fault, ret>>
      PROVE  Inv'
  <2>1. PICK p \in Nat : p = Parent(c) /\ p < c /\ p \in 0 .. size - 1
    BY <1>3, <1>6, TreeFacts
  <2>2. /\ TypeOK' /\ cur' # NULL /\ cur'.op = "push" /\ cur'.index = p
        /\ Node(c)' = Node(p) /\ Node(p)' = Node(c)
        /\ \A j \in Nat \ {c, p} : Node(j)' = Node(j)
    BY <1>1, <1>2, <1>3, <1>6, <2>1, SwapTypes
  <2>3. Above(Node(c), Node(p))
    BY <1>1, <1>3, <1>6, <2>1, RisesAbove
  <2>4. \A i \in Nat : Node(i) \in Stored
    BY <1>1, NodeFacts
  <2>5. \A i \in 1 .. size - 1 :
          i \in Nat \ {0} /\ Parent(i) \in Nat /\ Parent(i) < i /\ i < size
    BY <1>3, TreeFacts
  <2>6. \A i \in 1 .. size - 1 : Parent(i) = c => Above(Node(p), Node(i))
    BY <1>1, <1>2, <1>3, <1>6, <2>1, OrderFacts
  \* The other child of the parent is in order with it, and so with the value
  \* that takes its place.
  <2>7. ASSUME NEW i \in 1 .. size - 1, i # p
        PROVE  Above(Node(Parent(i))', Node(i)')
    <3>1. CASE i = c
      BY <2>1, <2>2, <2>3, <3>1
    <3>2. CASE i # c /\ Parent(i) = p
      <4>1. Above(Node(p), Node(i)) /\ Node(i)' = Node(i)
        BY <1>4, <2>2, <2>5, <2>7, <3>2
      <4>2. Above(Node(c), Node(i))
        BY <1>3, <2>3, <2>4, <2>5, <4>1, AboveFacts
      <4> QED
        BY <2>2, <3>2, <4>1, <4>2
    <3>3. CASE i # c /\ Parent(i) = c
      BY <1>3, <2>2, <2>5, <2>6, <2>7, <3>3
    <3>4. CASE i # c /\ Parent(i) # p /\ Parent(i) # c
      BY <1>4, <2>2, <2>5, <2>7, <3>4
    <3> QED
      BY <3>1, <3>2, <3>3, <3>4
  <2>8. ASSUME NEW i \in 1 .. size - 1, Parent(i) = p, p > 0
        PROVE  Above(Node(Parent(p))', Node(i)')
    <3>1. PICK q \in Nat : q = Parent(p) /\ q < p
      BY <2>1, <2>8, TreeFacts
    <3>2. Above(Node(q), Node(p)) /\ Node(q)' = Node(q)
      BY <1>3, <1>4, <2>1, <2>2, <2>8, <3>1
    <3>3. CASE i = c
      BY <2>2, <3>1, <3>2, <3>3
    <3>4. CASE i # c
      <4>1. Above(Node(p), Node(i)) /\ Node(i)' = Node(i)
        BY <1>4, <2>2, <2>5, <2>8, <3>4
      <4> QED
        BY <2>4, <2>5, <3>1, <3>2, <4>1, AboveFacts
    <3> QED
      BY <3>3, <3>4
  <2>9. HeapOrder'
    <3>1. \A i \in 1 .. size - 1 :
            /\ i = p \/ InOrder(Parent(i), i)'
            /\ Parent(i) = p /\ p > 0 => InOrder(Parent(p), i)'
      BY <1>6, <2>7, <2>8, AbovePrimed
    <3>2. size' = size
      BY <1>6
    <3> QED
      BY <2>2, <3>1, <3>2 DEF HeapOrder, Displaced
  <2> QED
    BY <2>2, <2>9 DEF Inv, Sinking
<1> QED
  BY <1>2, <1>3, <1>5, <1>6 DEF HeapifyUp

\* heapify_down, one level: the value sinks below a child that belongs above it
\* and above the other child.
LEMMA SinkInv ==
  ASSUME Inv, cur # NULL, cur.op = "pop", NEW n \in Nat, n = cur.index,
         NEW d \in 1 .. size - 1, Parent(d) = n,
         \A i \in 1 .. size - 1 : Parent(i) = n => Above(Node(d), Node(i)),
         Above(Node(d), Node(n)),
         cells' = Swapped(n, d), cur' = [cur EXCEPT !.index = d],
         UNCHANGED <<type, size, capacity, made, fault>>
  PROVE  Inv'
<1>1. TypeOK /\ n < size /\ size \in Nat /\ made /\ n < d
  BY CurFacts, TreeFacts DEF Inv
<1>2. /\ TypeOK' /\ cur' # NULL /\ Len(cells') = Len(cells)
      /\ cur'.op = "pop" /\ cur'.index = d
      /\ Node(n)' = Node(d) /\ Node(d)' = Node(n)
      /\ \A j \in Nat \ {n, d} : Node(j)' = Node(j)
  BY <1>1, SwapTypes
<1>3. \A i \in 1 .. size - 1 : Parent(i) # n => Above(Node(Parent(i)), Node(i))
  BY <1>1, OrderFacts
<1>4. n > 0 =>
        \A i \in 1 .. size - 1 : Parent(i) = n => Above(Node(Parent(n)), Node(i))
  BY <1>1, OrderFacts
<1>5. \A i \in 1 .. size - 1 :
        i \in Nat \ {0} /\ Parent(i) \in Nat /\ Parent(i) < i /\ i < size
  BY <1>1, TreeFacts
<1>6. ASSUME NEW i \in 1 .. size - 1, Parent(i) # d
      PROVE  Above(Node(Parent(i))', Node(i)')
  <2>1. CASE i = d
    BY <1>2, <2>1
  <2>2. CASE i # d /\ Parent(i) = n
    BY <1>2, <1>5, <2>2
  <2>3. CASE i = n
    BY <1>2, <1>4, <1>5, <1>6, <2>3
  <2>4. CASE i # d /\ i # n /\ Parent(i) # n
    BY <1>2, <1>3, <1>5, <1>6, <2>4
  <2> QED
    BY <2>1, <2>2, <2>3, <2>4
<1>7. ASSUME NEW i \in 1 .. size - 1, Parent(i) = d
      PROVE  Above(Node(Parent(d))', Node(i)')
  BY <1>1, <1>2, <1>3, <1>5, <1>7
<1>8. HeapOrder'
  <2>1. \A i \in 1 .. size - 1 :
          /\ Parent(i) = d \/ InOrder(Parent(i), i)'
          /\ Parent(i) = d => InOrder(Parent(d), i)'
    BY <1>6, <1>7, AbovePrimed
  <2> QED
    BY <1>2, <2>1 DEF HeapOrder, Displaced
<1>9. Sinking'
  <2>1. size < Len(cells) /\ Node(size) = Node(n)
    BY DEF Inv, Sinking
  <2>2. Node(size)' = Node(size)
    BY <1>1, <1>2
  <2> QED
    BY <1>2, <2>1, <2>2 DEF Sinking
<1> QED
  BY <1>2, <1>8, <1>9 DEF Inv

\* A node whose left child is the last of the heap has, for a right child, the
\* cell the heap has given up: it holds what the node does.
LEMMA StaleChild ==
  ASSUME Inv, cur # NULL, cur.op = "pop", LeftChild(cur.index) < size
  PROVE  /\ RightChild(cur.index) < Len(cells)
         /\ RightChild(cur.index) >= size =>
              Node(RightChild(cur.index)) = Node(cur.index) /\ ~SinksRight(cur.index)
<1>1. PICK n \in Nat : n = cur.index /\ size \in Nat /\ Len(cells) \in Nat
  BY CurFacts DEF Inv
<1>2. size < Len(cells) /\ Node(size) = Node(n)
  BY <1>1 DEF Inv, Sinking
<1>3. RightChild(n) = LeftChild(n) + 1 /\ LeftChild(n) \in Nat
  BY <1>1, ChildFacts
<1>4. RightChild(n) < Len(cells)
  BY <1>1, <1>2, <1>3
<1>5. ASSUME RightChild(n) >= size PROVE Node(RightChild(n)) = Node(n) /\ ~SinksRight(n)
  <2>1. RightChild(n) = size
    BY <1>1, <1>3, <1>5
  <2>2. Node(n) \in Stored /\ Cmp(Node(n), Node(n)) \in Int
    BY <1>1, NodeFacts, CmpFacts DEF Inv
  <2>3. Cmp(Node(n), Node(n)) =< 0 /\ Cmp(Node(n), Node(n)) >= 0
    BY <2>2, CmpFacts
  <2> QED
    BY <1>2, <2>1, <2>2, <2>3 DEF SinksRight
<1> QED
  BY <1>1, <1>4, <1>5

\* heapify_down: the value that came from the tail sinks, or stays.
LEMMA HeapifyDownInv ==
  ASSUME Inv, HeapifyDown
  PROVE  Inv'
<1>1. TypeOK /\ cur # NULL /\ cur.op = "pop"
  BY DEF Inv, HeapifyDown
<1>2. PICK n \in Nat : n = cur.index
  BY <1>1, CurFacts
<1>3. n < size /\ size \in Nat /\ made
  BY <1>1, <1>2, CurFacts
<1>4. \A i \in 1 .. size - 1 : Parent(i) # n => Above(Node(Parent(i)), Node(i))
  BY <1>1, <1>2, <1>3, OrderFacts
<1>5. \A i \in 1 .. size - 1 : Parent(i) = n => i = LeftChild(n) \/ i = RightChild(n)
  BY <1>3, TreeFacts
<1>6. /\ LeftChild(n) \in Nat \ {0} /\ RightChild(n) \in Nat \ {0}
      /\ RightChild(n) = LeftChild(n) + 1
      /\ Parent(LeftChild(n)) = n /\ Parent(RightChild(n)) = n
  BY ChildFacts
<1>7. \A i \in Nat : Node(i) \in Stored
  BY <1>1, NodeFacts
<1>8. CASE (n >= size \/ LeftChild(n) >= size) /\ Finish(cur.value)
  <2>1. \A i \in 1 .. size - 1 : Above(Node(Parent(i)), Node(i))
    BY <1>3, <1>4, <1>5, <1>6, <1>8
  <2> QED
    BY <1>1, <1>8, <2>1, FinishInv
<1>9. CASE /\ LeftChild(n) < size /\ SinksRight(n)
           /\ cells' = Swapped(n, RightChild(n))
           /\ cur' = [cur EXCEPT !.index = RightChild(n)]
           /\ UNCHANGED <<type, size, capacity, made, fault, ret>>
  <2>1. PICK d \in 1 .. size - 1 : d = RightChild(n)
    BY <1>1, <1>2, <1>3, <1>6, <1>9, StaleChild
  <2>2. Above(Node(d), Node(LeftChild(n))) /\ Above(Node(d), Node(n))
    BY <1>1, <1>9, <2>1, SinksAbove
  <2>3. \A i \in 1 .. size - 1 : Parent(i) = n => Above(Node(d), Node(i))
    BY <1>3, <1>5, <1>7, <2>1, <2>2, AboveFacts
  <2> QED
    BY <1>1, <1>2, <1>6, <1>9, <2>1, <2>2, <2>3, SinkInv
<1>10. CASE /\ LeftChild(n) < size /\ SinksLeft(n)
            /\ cells' = Swapped(n, LeftChild(n))
            /\ cur' = [cur EXCEPT !.index = LeftChild(n)]
            /\ UNCHANGED <<type, size, capacity, made, fault, ret>>
  <2>1. PICK d \in 1 .. size - 1 : d = LeftChild(n)
    BY <1>3, <1>6, <1>10
  <2>2. Above(Node(d), Node(RightChild(n))) /\ Above(Node(d), Node(n))
    BY <1>1, <1>10, <2>1, SinksAbove
  <2>3. \A i \in 1 .. size - 1 : Parent(i) = n => Above(Node(d), Node(i))
    BY <1>3, <1>5, <1>7, <2>1, <2>2, AboveFacts
  <2> QED
    BY <1>1, <1>2, <1>6, <1>10, <2>1, <2>2, <2>3, SinkInv
<1>11. CASE ~SinksRight(n) /\ ~SinksLeft(n) /\ Finish(cur.value)
  <2>1. Above(Node(n), Node(LeftChild(n))) /\ Above(Node(n), Node(RightChild(n)))
    BY <1>1, <1>11, SinksAbove
  <2>2. \A i \in 1 .. size - 1 : Above(Node(Parent(i)), Node(i))
    BY <1>4, <1>5, <2>1
  <2> QED
    BY <1>1, <1>11, <2>2, FinishInv
<1> QED
  BY <1>2, <1>8, <1>9, <1>10, <1>11 DEF HeapifyDown
-----------------------------------------------------------------------------
(* The calls *)

\* A call that leaves the heap alone, or goes wrong, keeps the invariant.
LEMMA IdleInv ==
  ASSUME Inv, UNCHANGED heap, cur = NULL, cur' = NULL, fault' \in BOOLEAN
  PROVE  Inv'
<1>1. TypeOK'
  BY DEF Inv, TypeOK, heap
<1>2. HeapOrder'
  BY DEF Inv, HeapOrder, InOrder, Node, Displaced, heap
<1> QED
  BY <1>1, <1>2 DEF Inv, Sinking

LEMMA ReturnInv ==
  ASSUME Inv, NEW op, NEW r, Return(op, r)
  PROVE  Inv'
<1>1. UNCHANGED heap /\ cur = NULL /\ cur' = NULL /\ fault' = fault
  BY DEF Return, Answer, Idle
<1>2. fault' \in BOOLEAN
  BY <1>1 DEF Inv, TypeOK
<1> QED
  BY <1>1, <1>2, IdleInv

LEMMA CrashInv ==
  ASSUME Inv, NEW op, Crash(op)
  PROVE  Inv'
<1>1. UNCHANGED heap /\ cur = NULL /\ cur' = NULL /\ fault' \in BOOLEAN
  BY DEF Crash, Idle
<1> QED
  BY <1>1, IdleInv

\* heap_init: a rounded capacity is a size_t, and an empty heap is in order.
LEMMA SetupInv ==
  ASSUME Inv, NEW t \in Type, NEW n \in Capacity, Setup(t, n)
  PROVE  Inv'
<1>1. n \in Nat /\ n =< SIZE_MAX /\ SIZE_MAX \in Nat /\ MaxSize \in Nat
  BY SizeAssumption
<1>2. Rounded(n) \in 0 .. SIZE_MAX
  BY <1>1 DEF Rounded
<1>3. /\ type' = t /\ size' = 0 /\ cells' = <<>> /\ made' \in BOOLEAN
      /\ capacity' \in 0 .. SIZE_MAX
      /\ cur' = NULL /\ fault' \in BOOLEAN
  <2>1. cur' = NULL /\ fault' = fault /\ fault \in BOOLEAN
    BY DEF Setup, Answer, Idle, Inv, TypeOK
  <2>2. \/ made' = TRUE /\ capacity' = Rounded(n)
        \/ made' = FALSE /\ capacity' = 0
    BY DEF Setup
  <2>3. capacity' \in 0 .. SIZE_MAX
    BY <1>1, <1>2, <2>2
  <2>4. made' \in BOOLEAN /\ fault' \in BOOLEAN
    BY <2>1, <2>2
  <2> QED
    BY <2>1, <2>3, <2>4 DEF Setup
<1>4. <<>> \in Seq(Stored) /\ Len(<<>>) = 0
  OBVIOUS
<1>5. TypeOK'
  <2>1. Slots(capacity') \in Nat
    BY <1>1, <1>3, SlotsFacts
  <2> QED
    BY <1>1, <1>3, <1>4, <2>1 DEF TypeOK
<1>6. HeapOrder'
  BY <1>3 DEF HeapOrder
<1> QED
  BY <1>3, <1>5, <1>6 DEF Inv, Sinking

\* heap_destroy leaves no array list, whatever it leaves in size.
LEMMA DestroyInv ==
  ASSUME Inv, Destroy
  PROVE  Inv'
<1>1. CASE Crash("destroy")
  BY <1>1, CrashInv
<1>2. CASE /\ made' = FALSE /\ cells' = <<>> /\ capacity' = 0
           /\ UNCHANGED <<type, size>> /\ Answer("destroy", TRUE)
  <2>1. cur' = NULL /\ fault' = fault
    BY <1>2 DEF Answer, Idle
  <2>2. <<>> \in Seq(Stored) /\ 0 \in 0 .. SIZE_MAX
    BY SizeAssumption
  <2>3. TypeOK'
    BY <1>2, <2>1, <2>2 DEF Inv, TypeOK
  <2> QED
    BY <1>2, <2>1, <2>3 DEF Inv, HeapOrder, Sinking
<1> QED
  BY <1>1, <1>2 DEF Destroy

\* heap_push: the value goes to the end of the heap, where it may be out of order
\* with its parent and has no children.
LEMMA PushInv ==
  ASSUME Inv, NEW v \in Stored, Push(v)
  PROVE  Inv'
<1>1. CASE Crash("push")
  BY <1>1, CrashInv
<1>2. CASE Return("push", FALSE)
  BY <1>2, ReturnInv
<1>3. CASE
     /\ Idle /\ made /\ size < MaxSize /\ size < Slots(RoomFor(size))
     /\ cells' = [i \in 1 .. IF size < Len(cells) THEN Len(cells) ELSE size + 1 |->
                   IF i = size + 1 THEN v ELSE cells[i]]
     /\ capacity' = RoomFor(size)
     /\ size' = size + 1
     /\ cur' = [op |-> "push", index |-> size, value |-> v]
     /\ UNCHANGED <<type, made, fault, ret>>
  <2>1. /\ size \in Nat /\ size < MaxSize /\ MaxSize \in Nat
        /\ Len(cells) \in Nat /\ size =< Len(cells) /\ cells \in Seq(Stored)
        /\ cur = NULL /\ ~fault
    BY <1>3, NodeFacts, SizeAssumption DEF Inv, TypeOK, Idle
  <2>2. PICK n \in Nat : n = IF size < Len(cells) THEN Len(cells) ELSE size + 1
    BY <2>1
  <2>3. \A i \in 1 .. Len(cells) : cells[i] \in Stored
    BY <2>1, LenProperties
  <2>4. cells' \in [1 .. n -> Stored]
    BY <1>3, <2>1, <2>2, <2>3
  <2>5. cells' \in Seq(Stored) /\ Len(cells') = n
    BY <2>2, <2>4, IsASeq, LenProperties
  <2>6. cur' # NULL /\ cur'.op = "push" /\ cur'.index = size /\ cur'.value = v
    BY <1>3, <2>1, CallFacts
  <2>7. TypeOK'
    <3>1. size' \in 0 .. MaxSize /\ capacity' \in 0 .. SIZE_MAX
      BY <1>3, <2>1, RoomFacts DEF Inv
    <3>2. size' =< Len(cells') /\ Len(cells') =< Slots(capacity')
      <4>1. Len(cells) =< Slots(capacity') /\ size < Slots(capacity') /\ Slots(capacity') \in Nat
        BY <1>3, <3>1, RoomFacts, SlotsFacts DEF Inv
      <4> QED
        BY <1>3, <2>1, <2>2, <2>5, <4>1
    <3>3. cur' \in [op : {"push", "pop"}, index : 0 .. size' - 1, value : Stored]
      BY <1>3, <2>1
    <3> QED
      BY <1>3, <2>1, <2>5, <3>1, <3>2, <3>3 DEF TypeOK, Inv
  <2>8. \A i \in 0 .. size - 1 : Node(i)' = Node(i)
    <3>1. ASSUME NEW i \in 0 .. size - 1 PROVE Node(i)' = Node(i)
      <4>1. i + 1 \in 1 .. n /\ i + 1 # size + 1 /\ i < n /\ i < Len(cells)
        BY <2>1, <2>2
      <4>2. cells'[i + 1] = cells[i + 1]
        BY <1>3, <2>2, <4>1
      <4> QED
        BY <2>5, <4>1, <4>2 DEF Node
    <3> QED
      BY <3>1
  <2>9. \A i \in 1 .. size - 1 : Above(Node(Parent(i)), Node(i))
    BY <1>3, <2>1, OrderFacts
  <2>10. \A i \in 1 .. size :
           /\ i # size => InOrder(Parent(i), i)'
           /\ Parent(i) # size
    <3>1. ASSUME NEW i \in 1 .. size
          PROVE  Parent(i) \in Nat /\ Parent(i) < i /\ i \in Nat
      BY <2>1, TreeFacts
    <3>2. ASSUME NEW i \in 1 .. size, i # size PROVE InOrder(Parent(i), i)'
      <4>1. /\ i \in 1 .. size - 1 /\ i \in 0 .. size - 1 /\ Parent(i) \in 0 .. size - 1
        BY <2>1, <3>1, <3>2
      <4> QED
        BY <1>3, <2>8, <2>9, <4>1, AbovePrimed
    <3>3. \A i \in 1 .. size : Parent(i) # size
      BY <2>1, <3>1
    <3> QED
      BY <3>2, <3>3
  <2>11. HeapOrder'
    <3>1. 1 .. size' - 1 = 1 .. size
      BY <1>3, <2>1
    <3> QED
      BY <2>6, <2>10, <3>1 DEF HeapOrder, Displaced
  <2> QED
    BY <2>6, <2>7, <2>11 DEF Inv, Sinking
<1> QED
  BY <1>1, <1>2, <1>3 DEF Push

\* heap_pop: the tail is copied to the root, which may be out of order with its
\* children; its old cell keeps it.
LEMMA PopInv ==
  ASSUME Inv, Pop
  PROVE  Inv'
<1>1. CASE Return("pop", NULL)
  BY <1>1, ReturnInv
<1>2. CASE Crash("pop")
  BY <1>2, CrashInv
<1>3. CASE /\ size = 1 /\ made /\ size' = 0 /\ UNCHANGED <<type, cells, capacity, made>>
           /\ Answer("pop", Node(0))
  <2>1. cur' = NULL /\ fault' = fault /\ MaxSize \in Nat
    BY <1>3, SizeAssumption DEF Answer, Idle
  <2>2. TypeOK'
    BY <1>3, <2>1, NodeFacts DEF Inv, TypeOK
  <2> QED
    BY <1>3, <2>1, <2>2 DEF Inv, HeapOrder, Sinking
<1>4. CASE /\ Idle /\ size > 1 /\ made
           /\ size' = size - 1 /\ cells' = TailAtHead
           /\ cur' = [op |-> "pop", index |-> 0, value |-> Node(0)]
           /\ UNCHANGED <<type, capacity, made, fault, ret>>
  <2>1. /\ TypeOK /\ size \in Nat /\ size =< MaxSize /\ MaxSize \in Nat /\ Len(cells) \in Nat
        /\ size =< Len(cells) /\ cells \in Seq(Stored) /\ Len(cells) =< Slots(capacity)
        /\ cur = NULL /\ ~fault
    BY <1>4, NodeFacts, SizeAssumption DEF Inv, TypeOK, Idle
  <2>2. Node(size - 1) \in Stored /\ Node(0) \in Stored
    BY <1>4, <2>1, NodeFacts
  <2>3. /\ cells' \in Seq(Stored) /\ Len(cells') = Len(cells)
        /\ \A i \in 1 .. Len(cells) : cells'[i] = IF i = 1 THEN Node(size - 1) ELSE cells[i]
    BY <1>4, <2>1, <2>2 DEF TailAtHead
  <2>4. cur' # NULL /\ cur'.op = "pop" /\ cur'.index = 0 /\ cur'.value = Node(0)
    BY <1>4, <2>2, CallFacts
  <2>5. TypeOK'
    <3>1. size' \in 0 .. MaxSize /\ size' =< Len(cells')
      BY <1>4, <2>1, <2>3
    <3>2. cur' \in [op : {"push", "pop"}, index : 0 .. size' - 1, value : Stored]
      BY <1>4, <2>1, <2>2
    <3> QED
      BY <1>4, <2>1, <2>3, <3>1, <3>2 DEF TypeOK
  <2>6. \A i \in 1 .. Len(cells) - 1 : Node(i)' = Node(i)
    <3>1. ASSUME NEW i \in 1 .. Len(cells) - 1 PROVE Node(i)' = Node(i)
      <4>1. i + 1 \in 1 .. Len(cells) /\ i + 1 # 1 /\ i < Len(cells)
        BY <2>1
      <4> QED
        BY <2>3, <4>1 DEF Node
    <3> QED
      BY <3>1
  <2>7. Node(0)' = Node(size - 1)
    BY <1>4, <2>1, <2>3 DEF Node
  <2>8. \A i \in 1 .. size - 1 : Above(Node(Parent(i)), Node(i))
    BY <1>4, <2>1, OrderFacts
  <2>9. ASSUME NEW i \in 1 .. size' - 1, Parent(i) # 0 PROVE InOrder(Parent(i), i)'
    <3>1. Parent(i) \in Nat /\ Parent(i) < i
      BY <1>4, <2>1, TreeFacts
    <3>2. /\ i \in 1 .. size - 1 /\ i \in 1 .. Len(cells) - 1
          /\ Parent(i) \in 1 .. Len(cells) - 1
      BY <1>4, <2>1, <2>9, <3>1
    <3> QED
      BY <1>4, <2>6, <2>8, <3>2, AbovePrimed
  <2>10. HeapOrder'
    BY <2>4, <2>9 DEF HeapOrder, Displaced
  <2>11. Sinking'
    <3>1. size' \in 1 .. Len(cells) - 1 /\ size' = size - 1
      BY <1>4, <2>1
    <3>2. PICK m \in 1 .. Len(cells) - 1 : m = size - 1
      BY <3>1
    <3>3. Node(m)' = Node(m) /\ Node(m) = Node(size - 1)
      BY <2>6, <3>2
    <3>4. cells'[size' + 1] = cells'[m + 1] /\ size' < Len(cells')
      BY <2>3, <3>1, <3>2
    <3>5. Node(size)' = Node(m)'
      BY <3>1, <3>2 DEF Node
    <3>6. Node(cur.index)' = Node(0)'
      BY <2>4 DEF Node
    <3> QED
      BY <2>7, <3>3, <3>4, <3>5, <3>6 DEF Sinking
  <2> QED
    BY <2>5, <2>10, <2>11 DEF Inv
<1> QED
  BY <1>1, <1>2, <1>3, <1>4 DEF Pop
-----------------------------------------------------------------------------
(* The theorems *)

LEMMA InitInv == Init => Inv
<1> SUFFICES ASSUME Init PROVE Inv
  OBVIOUS
<1>1. <<>> \in Seq(Stored) /\ Len(<<>>) = 0
  OBVIOUS
<1>2. 0 \in 0 .. MaxSize /\ 0 \in 0 .. SIZE_MAX
  BY SizeAssumption
<1>3. TypeOK
  BY <1>1, <1>2, Zenon DEF Init, TypeOK
<1> QED
  BY <1>3 DEF Init, Inv, HeapOrder, Sinking

LEMMA NextInv == Inv /\ [Next]_vars => Inv'
<1> SUFFICES ASSUME Inv, [Next]_vars PROVE Inv'
  OBVIOUS
<1>1. ASSUME NEW t \in Type, NEW n \in Capacity, Setup(t, n) PROVE Inv'
  BY <1>1, SetupInv
<1>2. ASSUME NEW v \in Stored, Push(v) PROVE Inv'
  BY <1>2, PushInv
<1>3. CASE Pop
  BY <1>3, PopInv
<1>4. CASE Peek
  BY <1>4, ReturnInv, CrashInv DEF Peek
<1>5. CASE Destroy
  BY <1>5, DestroyInv
<1>6. CASE Heapify
  BY <1>6, HeapifyUpInv, HeapifyDownInv DEF Heapify
<1>7. CASE UNCHANGED vars
  <2>1. UNCHANGED heap /\ UNCHANGED cur /\ UNCHANGED fault
    BY <1>7 DEF vars
  <2> QED
    BY <2>1 DEF Inv, TypeOK, HeapOrder, InOrder, Node, Displaced, Sinking, heap
<1> QED
  BY <1>1, <1>2, <1>3, <1>4, <1>5, <1>6, <1>7 DEF Next

LEMMA InvCorrect == Spec => []Inv
BY InitInv, NextInv, PTL DEF Spec

\* The heap's size and its array list agree: the nodes of the heap are cells the
\* array list counts, these are cells of the block malloc gave, whether or not
\* the byte count wrapped, and a push or pop under way is at one of them.
THEOREM TypeCorrect == Spec => []TypeOK
<1>1. Inv => TypeOK
  BY DEF Inv
<1> QED
  BY <1>1, InvCorrect, PTL

\* A step that goes wrong on a heap that is there is a push into a capacity whose
\* byte count wraps.
LEMMA OverrunNext == Inv /\ OverrunsOnlyWrapped /\ [Next]_vars => OverrunsOnlyWrapped'
<1> SUFFICES ASSUME Inv, OverrunsOnlyWrapped, [Next]_vars, fault', made'
             PROVE  ret'[1] = "push" /\ capacity' >= WrapAt
  BY DEF OverrunsOnlyWrapped
<1>1. CASE UNCHANGED vars
  <2>1. fault /\ made /\ ret' = ret /\ capacity' = capacity
    BY <1>1 DEF vars, heap
  <2> QED
    BY <2>1 DEF OverrunsOnlyWrapped
<1>2. ASSUME NEW op, NEW r, Answer(op, r) PROVE FALSE
  BY <1>2 DEF Answer, Idle
<1>3. ASSUME NEW op, Crash(op) PROVE ret'[1] = op /\ capacity' = capacity /\ made
  BY <1>3 DEF Crash, heap
<1>4. ASSUME NEW v \in Stored, Push(v) PROVE ret'[1] = "push" /\ capacity' >= WrapAt
  <2>1. CASE made /\ size < MaxSize /\ size >= Slots(RoomFor(size)) /\ Crash("push")
    <3>1. ~(size < Slots(RoomFor(size)))
      <4>1. capacity \in Nat /\ size \in Nat /\ RoomFor(size) \in Nat
        BY <2>1, RoomFacts, SizeAssumption DEF Inv, TypeOK
      <4> QED
        BY <2>1, <4>1, SlotsFacts
    <3>2. ~(capacity < WrapAt)
      BY <2>1, <3>1, RoomFacts DEF Inv
    <3>3. capacity >= WrapAt
      BY <3>2, SizeAssumption DEF Inv, TypeOK
    <3> QED
      BY <1>3, <2>1, <3>3
  <2> QED
    BY <1>2, <1>3, <1>4, <2>1 DEF Push, Return, Idle
<1>5. ASSUME NEW t \in Type, NEW n \in Capacity, Setup(t, n) PROVE FALSE
  BY <1>2, <1>5 DEF Setup
<1>6. ASSUME Pop \/ Peek \/ Destroy PROVE FALSE
  BY <1>2, <1>3, <1>6 DEF Pop, Peek, Destroy, Return, Idle
<1>7. ASSUME Heapify PROVE FALSE
  <2>1. ~fault /\ fault' = fault
    BY <1>7, CurFacts DEF Heapify, HeapifyUp, HeapifyDown, Finish, Inv
  <2> QED
    BY <2>1
<1> QED
  BY <1>1, <1>4, <1>5, <1>6, <1>7 DEF Next

\* On a heap that has been set up only a push writes past the block of the array
\* list, and only into a capacity whose byte count wraps.
THEOREM OverrunsOnlyWrappedCorrect == Spec => []OverrunsOnlyWrapped
<1>1. Init => OverrunsOnlyWrapped
  BY DEF Init, OverrunsOnlyWrapped
<1> QED
  BY <1>1, OverrunNext, InvCorrect, PTL DEF Spec

\* In heaps of any size and either type every node is in order with its parent,
\* but the one heapify has reached.
THEOREM HeapOrderCorrect == Spec => []HeapOrder
<1>1. Inv => HeapOrder
  BY DEF Inv
<1> QED
  BY <1>1, InvCorrect, PTL

\* heapify_down never swaps in the right child that is no longer in the heap.
THEOREM StaleRightChildCorrect == Spec => []StaleRightChild
<1>1. Inv => StaleRightChild
  BY StaleChild DEF StaleRightChild
<1> QED
  BY <1>1, InvCorrect, PTL

\* Nothing in the heap comes before its root: what peek and pop answer with.
RootFirst ==
  made /\ cur = NULL => \A i \in 0 .. size - 1 : InOrder(0, i)

LEMMA InvRootFirst == Inv => RootFirst
<1> SUFFICES ASSUME Inv, made, cur = NULL
             PROVE  \A i \in 0 .. size - 1 : Above(Node(0), Node(i))
  BY InOrderAbove DEF RootFirst
<1>1. size \in Nat /\ TypeOK
  BY SizeAssumption DEF Inv, TypeOK
<1>2. \A i \in Nat : Node(i) \in Stored
  BY <1>1, NodeFacts
<1>3. \A i \in 1 .. size - 1 : Above(Node(Parent(i)), Node(i))
  BY OrderFacts
<1> DEFINE Bad == {i \in 0 .. size - 1 : ~Above(Node(0), Node(i))}
<1>4. ASSUME Bad # {} PROVE FALSE
  <2>1. Bad \in SUBSET Nat
    BY <1>1
  <2>2. PICK i \in Bad : \A j \in Bad : i =< j
    BY <1>4, <2>1, LeastNatural
  <2>3. i # 0
    BY <1>2, <2>2, AboveFacts
  <2>4. i \in 1 .. size - 1 /\ Parent(i) \in Nat /\ Parent(i) < i
    BY <1>1, <2>2, <2>3, TreeFacts
  <2>5. Above(Node(0), Node(Parent(i)))
    BY <1>1, <2>2, <2>4
  <2>6. Above(Node(0), Node(i))
    BY <1>2, <1>3, <2>4, <2>5, AboveFacts
  <2> QED
    BY <2>2, <2>6
<1> QED
  BY <1>4

\* Between calls the root of a heap comes first, by its order along every path:
\* heap_peek and heap_pop answer with the least or the greatest value.
THEOREM RootFirstCorrect == Spec => []RootFirst
BY InvRootFirst, InvCorrect, PTL

\* However large the heap, heapify recurses no deeper than its tree: the bound
\* that ends every push and pop.
THEOREM HeapifyHalvesCorrect == Spec => HeapifyHalves
<1>1. ASSUME Inv, Next, cur # NULL, cur' # NULL
      PROVE  /\ cur'.index < size
             /\ IF cur.op = "push" THEN 2 * cur'.index < cur.index
                ELSE 2 * cur.index < cur'.index
  <2>1. /\ cur \in [op : {"push", "pop"}, index : 0 .. size - 1, value : Stored]
        /\ size \in Nat
    BY <1>1, SizeAssumption DEF Inv, TypeOK
  <2>2. Heapify
    BY <1>1
       DEF Next, Setup, Push, Pop, Peek, Destroy, Return, Answer, Crash, Idle
  <2>3. CASE HeapifyUp
    <3>1. /\ cur.op = "push" /\ cur.index > 0
          /\ cur' = [cur EXCEPT !.index = Parent(cur.index)]
      BY <1>1, <2>3 DEF HeapifyUp, Finish
    <3>2. cur'.index = Parent(cur.index)
      BY <2>1, <3>1
    <3>3. 2 * Parent(cur.index) < cur.index /\ Parent(cur.index) < size
      BY <2>1, <3>1 DEF Parent
    <3> QED
      BY <3>1, <3>2, <3>3
  <2>4. CASE HeapifyDown
    <3>1. PICK child \in {LeftChild(cur.index), RightChild(cur.index)} :
            /\ cur.op = "pop" /\ LeftChild(cur.index) < size
            /\ cur' = [cur EXCEPT !.index = child]
            /\ child = LeftChild(cur.index) \/ SinksRight(cur.index)
      BY <1>1, <2>4 DEF HeapifyDown, Finish
    <3>2. cur'.index = child
      BY <2>1, <3>1
    <3>3. child < size
      <4>1. ASSUME RightChild(cur.index) >= size PROVE ~SinksRight(cur.index)
        BY <1>1, <3>1, <4>1, StaleChild
      <4>2. RightChild(cur.index) \in Nat
        BY <2>1 DEF RightChild
      <4> QED
        BY <2>1, <3>1, <4>1, <4>2
    <3>4. 2 * cur.index < child
      BY <2>1, <3>1 DEF LeftChild, RightChild
    <3> QED
      BY <3>1, <3>2, <3>3, <3>4
  <2> QED
    BY <2>2, <2>3, <2>4 DEF Heapify
<1>2. Inv /\ [Next]_vars =>
        [cur # NULL /\ cur' # NULL =>
           /\ cur'.index < size
           /\ IF cur.op = "push" THEN 2 * cur'.index < cur.index
              ELSE 2 * cur.index < cur'.index]_vars
  BY <1>1
<1> QED
  BY <1>2, InvCorrect, PTL DEF Spec, HeapifyHalves
-----------------------------------------------------------------------------
(* The heap as a queue: how often a value is among the first n cells *)

Places(c, n, v) == {i \in 1 .. n : c[i] = v}
Tally(c, n, v) == Cardinality(Places(c, n, v))
OneIf(a, b) == IF a = b THEN 1 ELSE 0

\* A count is a natural number, and not 0 when the value is there.
LEMMA TallyNat ==
  ASSUME NEW c, NEW n \in Nat, NEW v
  PROVE  /\ Tally(c, n, v) \in Nat
         /\ Tally(c, n, v) > 0 <=> \E i \in 1 .. n : c[i] = v
         /\ IsFiniteSet(Places(c, n, v))
<1>1. IsFiniteSet(1 .. n) /\ Places(c, n, v) \in SUBSET (1 .. n)
  BY FS_Interval DEF Places
<1>2. IsFiniteSet(Places(c, n, v))
  BY <1>1, FS_Subset
<1>3. Tally(c, n, v) \in Nat
  BY <1>2, FS_CardinalityType DEF Tally, Places
<1>4. Tally(c, n, v) = 0 <=> Places(c, n, v) = {}
  BY <1>2, FS_EmptySet DEF Tally
<1>5. Places(c, n, v) = {} <=> ~ \E i \in 1 .. n : c[i] = v
  BY DEF Places
<1> QED
  BY <1>2, <1>3, <1>4, <1>5

LEMMA TallyNone ==
  ASSUME NEW c, NEW v
  PROVE  Tally(c, 0, v) = 0
<1>1. {i \in 1 .. 0 : c[i] = v} = {}
  OBVIOUS
<1> QED
  BY <1>1, FS_EmptySet DEF Tally, Places

\* Cells that hold the same count the same.
LEMMA TallySame ==
  ASSUME NEW c, NEW d, NEW n \in Nat, NEW v, \A i \in 1 .. n : d[i] = c[i]
  PROVE  Tally(d, n, v) = Tally(c, n, v)
<1>1. {i \in 1 .. n : d[i] = v} = {i \in 1 .. n : c[i] = v}
  OBVIOUS
<1> QED
  BY <1>1 DEF Tally, Places

SameBut(c, d, n, k) == \A i \in (1 .. n) \ {k} : d[i] = c[i]

\* Setting a cell takes its old value out of the count and puts its new one in.
LEMMA TallySet ==
  ASSUME NEW c, NEW d, NEW n \in Nat, NEW k \in 1 .. n, NEW v, SameBut(c, d, n, k)
  PROVE  Tally(d, n, v) + OneIf(c[k], v) = Tally(c, n, v) + OneIf(d[k], v)
<1>0. \A i \in (1 .. n) \ {k} : d[i] = c[i]
  BY DEF SameBut
<1> DEFINE others == {i \in (1 .. n) \ {k} : c[i] = v}
<1>1. IsFiniteSet(others) /\ k \notin others
  <2>1. others \in SUBSET (1 .. n) /\ IsFiniteSet(1 .. n)
    BY FS_Interval
  <2> QED
    BY <2>1, FS_Subset
<1>2. Cardinality(others) \in Nat
  BY <1>1, FS_CardinalityType
<1>3. Cardinality(others \cup {k}) = Cardinality(others) + 1
  BY <1>1, FS_AddElement
<1>4. Tally(c, n, v) = Cardinality(others) + OneIf(c[k], v)
  <2>1. {i \in 1 .. n : c[i] = v} = IF c[k] = v THEN others \cup {k} ELSE others
    OBVIOUS
  <2> HIDE DEF others
  <2> QED
    BY <1>2, <1>3, <2>1 DEF Tally, Places, OneIf
<1>5. Tally(d, n, v) = Cardinality(others) + OneIf(d[k], v)
  <2>1. {i \in 1 .. n : d[i] = v} = IF d[k] = v THEN others \cup {k} ELSE others
    BY <1>0
  <2> HIDE DEF others
  <2> QED
    BY <1>2, <1>3, <2>1 DEF Tally, Places, OneIf
<1> HIDE DEF others
<1> QED
  BY <1>2, <1>4, <1>5 DEF OneIf

\* One cell more.
LEMMA TallyNext ==
  ASSUME NEW c, NEW n \in Nat, NEW v
  PROVE  Tally(c, n + 1, v) = Tally(c, n, v) + OneIf(c[n + 1], v)
<1> DEFINE here == Places(c, n, v)
<1>1. IsFiniteSet(here) /\ n + 1 \notin here /\ Cardinality(here) \in Nat
  <2>1. IsFiniteSet(here)
    BY TallyNat
  <2>2. n + 1 \notin here
    BY DEF Places
  <2> HIDE DEF here
  <2> QED
    BY <2>1, <2>2, FS_CardinalityType
<1>2. Cardinality(here \cup {n + 1}) = Cardinality(here) + 1
  BY <1>1, FS_AddElement
<1>3. {i \in 1 .. n + 1 : c[i] = v} = IF c[n + 1] = v THEN here \cup {n + 1} ELSE here
  BY DEF Places
<1>4. Tally(c, n, v) = Cardinality(here)
  BY DEF Tally
<1> HIDE DEF here
<1> QED
  BY <1>1, <1>2, <1>3, <1>4 DEF Tally, Places, OneIf

\* A swap changes no count.
LEMMA TallySwap ==
  ASSUME NEW c, NEW d, NEW n \in Nat, NEW k \in 1 .. n, NEW m \in 1 .. n, k # m,
         d[k] = c[m], d[m] = c[k], \A i \in (1 .. n) \ {k, m} : d[i] = c[i], NEW v
  PROVE  Tally(d, n, v) = Tally(c, n, v)
<1>1. PICK e : e = [i \in 1 .. n |-> IF i = k THEN c[m] ELSE c[i]]
  OBVIOUS
<1>2. e[k] = c[m] /\ e[m] = c[m] /\ \A i \in (1 .. n) \ {k} : e[i] = c[i]
  BY <1>1
<1>3. SameBut(c, e, n, k) /\ SameBut(e, d, n, m)
  BY <1>2 DEF SameBut
<1>4. Tally(e, n, v) + OneIf(c[k], v) = Tally(c, n, v) + OneIf(e[k], v)
  BY <1>3, TallySet
<1>5. Tally(d, n, v) + OneIf(e[m], v) = Tally(e, n, v) + OneIf(d[m], v)
  BY <1>3, TallySet
<1>6. Tally(c, n, v) \in Nat /\ Tally(d, n, v) \in Nat /\ Tally(e, n, v) \in Nat
  BY TallyNat
<1> QED
  BY <1>2, <1>4, <1>5, <1>6 DEF OneIf

\* The counts of all values together are as many as the cells.
LEMMA TallySum ==
  ASSUME NEW c, NEW n \in Nat, \A i \in 1 .. n : c[i] \in Stored
  PROVE  SumFunctionOnSet([v \in Stored |-> Tally(c, n, v)], Stored) = n
<1> DEFINE counts(m) == [v \in Stored |-> Tally(c, m, v)]
           T == {m \in 0 .. n : SumFunctionOnSet(counts(m), Stored) = m}
<1>1. IsFiniteSet(Stored)
  BY ValueAssumption, FS_AddElement DEF Stored
<1>2. \A m \in Nat : \A v \in Stored : counts(m)[v] \in Nat
  BY TallyNat
<1>3. 0 \in T
  <2>1. \A v \in Stored : counts(0)[v] = 0
    BY TallyNone
  <2>2. SumFunctionOnSet(counts(0), Stored) = 0
    <3> HIDE DEF counts
    <3> QED
      BY <1>1, <2>1, SumNothing
  <2>3. 0 \in 0 .. n
    OBVIOUS
  <2> HIDE DEF counts
  <2> QED
    BY <2>2, <2>3
<1>4. ASSUME NEW m \in 1 .. n, m - 1 \in T PROVE m \in T
  <2>1. PICK k \in Nat : k = m - 1 /\ m = k + 1
    OBVIOUS
  <2>2. PICK x \in Stored : x = c[m]
    OBVIOUS
  <2>3. \A v \in Stored : counts(m)[v] = counts(k)[v] + OneIf(x, v)
    BY <2>1, <2>2, TallyNext
  <2>4. SumFunctionOnSet(counts(k), Stored) = k
    BY <1>4, <2>1
  <2>5. m \in Nat /\ \A v \in Stored : counts(k)[v] \in Nat
    BY <1>2, <2>1
  <2>6. PICK f, g : f = counts(k) /\ g = counts(m)
    OBVIOUS
  <2> HIDE DEF counts
  <2>7. g[x] = f[x] + 1 /\ \A v \in Stored \ {x} : g[v] = f[v]
    BY <2>3, <2>5, <2>6 DEF OneIf
  <2>8. SumFunctionOnSet(g, Stored) = SumFunctionOnSet(f, Stored) + 1
    BY <1>1, <2>5, <2>6, <2>7, SumMore
  <2> QED
    BY <2>1, <2>4, <2>6, <2>8
<1>5. n \in 0 .. n
  OBVIOUS
<1>6. n \in T
  <2> HIDE DEF T
  <2> QED
    BY <1>3, <1>4, <1>5, UpTo
<1> QED
  BY <1>6
-----------------------------------------------------------------------------
(* The heap implements the queue *)

\* How often v is in the queue when the array list has cells c, the heap n nodes,
\* and u is under way.
CountOf(c, n, u, v) ==
  Tally(c, n, v) + IF u = NULL \/ u.value # v THEN 0 ELSE IF u.op = "pop" THEN 1 ELSE -1

LEMMA CountIs ==
  \A v : /\ Count(v) = CountOf(cells, size, cur, v)
         /\ Count(v)' = CountOf(cells', size', cur', v)
BY DEF Count, CountOf, Tally, Places

\* The value on its way out comes before every node that stays.
Popped ==
  cur # NULL /\ cur.op = "pop" => \A i \in 0 .. size - 1 : Above(cur.value, Node(i))

\* The inductive invariant of the refinement.
QueueInv == Inv /\ Popped

\* Between calls the queue holds what the nodes do.
LEMMA CountsIdle ==
  ASSUME Inv, made, cur = NULL
  PROVE  /\ \A v \in Stored : Counts[v] = Tally(cells, size, v)
         /\ size \in Nat /\ \A i \in 1 .. size : cells[i] \in Stored
         /\ Counts = [v \in Stored |-> Tally(cells, size, v)]
<1>1. size \in Nat /\ size =< Len(cells) /\ cells \in Seq(Stored)
  BY SizeAssumption DEF Inv, TypeOK
<1>2. \A i \in 1 .. size : cells[i] \in Stored
  BY <1>1, LenProperties
<1>3. \A v \in Stored : Count(v) = Tally(cells, size, v)
  BY <1>1, CountIs, TallyNat DEF CountOf
<1> QED
  BY <1>1, <1>2, <1>3 DEF Counts

LEMMA QueueLength ==
  ASSUME Inv, made, cur = NULL
  PROVE  Q!Length = size
<1>1. Counts = [v \in Stored |-> Tally(cells, size, v)]
  BY CountsIdle
<1>2. SumFunctionOnSet(Counts, Stored) = size
  <2>1. PICK c, n : c = cells /\ n = size
    OBVIOUS
  <2>2. n \in Nat /\ \A i \in 1 .. n : c[i] \in Stored
    BY <2>1, CountsIdle
  <2>3. SumFunctionOnSet([v \in Stored |-> Tally(c, n, v)], Stored) = n
    BY <2>2, TallySum
  <2> QED
    BY <1>1, <2>1, <2>3
<1>3. DOMAIN Counts = Stored
  BY <1>1
<1>4. Q!Length = SumFunctionOnSet(Counts, Stored)
  BY <1>3, Zenon DEF Q!Length, Q!SumFunction, Q!SumFunctionOnSet,
    Q!FoldFunctionOnSet, Q!MapThenFoldSet, SumFunctionOnSet, FoldFunctionOnSet, MapThenFoldSet
<1> QED
  BY <1>2, <1>4

LEMMA FirstIs ==
  ASSUME NEW v \in Stored, Counts[v] > 0,
         \A w \in Stored : Counts[w] > 0 => Above(v, w)
  PROVE  v \in Q!Members /\ Q!First(v)
BY DEF Q!First, Q!Members, Above

\* Counts that do not change are a queue that does not.
LEMMA SameCounts ==
  ASSUME UNCHANGED made, \A v \in Stored : Count(v)' = Count(v)
  PROVE  Counts' = Counts
BY DEF Counts

\* A call that leaves the heap and cur alone leaves the queue alone.
LEMMA HeapCounts ==
  ASSUME UNCHANGED heap, UNCHANGED cur
  PROVE  Counts' = Counts /\ UNCHANGED <<type, capacity>>
BY DEF Counts, Count, heap

\* heap_init: the array list has the room asked for, rounded up to an even number.
LEMMA SetupStep ==
  ASSUME Inv, NEW t \in Type, NEW n \in Capacity, Setup(t, n), args' = <<n>>,
         SIZE_MAX \notin Capacity
  PROVE  Q!Next
<1>1. size' = 0 /\ cur' = NULL
  BY DEF Setup, Answer, Idle
<1>2. \A v \in Stored : Count(v)' = 0
  <2>1. PICK c : c = cells'
    OBVIOUS
  <2>2. \A v \in Stored : CountOf(c, 0, NULL, v) = 0
    BY TallyNone DEF CountOf
  <2> QED
    BY <1>1, <2>1, <2>2, CountIs
<1>3. Counts' = Q!Empty
  BY <1>2 DEF Counts, Q!Empty
<1>4. n \in Nat /\ n + 1 =< SIZE_MAX /\ SIZE_MAX \in Nat
  BY SizeAssumption
<1>5. Rounded(n) >= n
  <2>1. n % 2 \in 0 .. 1
    BY <1>4
  <2>2. n + (n % 2) \in 0 .. SIZE_MAX
    BY <1>4, <2>1
  <2>3. Rounded(n) = n + (n % 2)
    BY <1>4, <2>2 DEF Rounded
  <2> QED
    BY <1>4, <2>1, <2>3
<1>6. \/ ret' = <<"init", TRUE>> /\ capacity' >= n
      \/ ret' = <<"init", FALSE>>
  BY <1>5 DEF Setup, Answer
<1>7. Q!Setup(n)
  BY <1>3, <1>6 DEF Q!Setup, Q!Answer
<1> QED
  BY <1>7 DEF Q!Next

\* heap_push, up to the write of the cell: a refused push finds as many nodes as
\* there is room for; any other may make room.
LEMMA PushStep ==
  ASSUME Inv, NEW v \in Stored, Push(v), args' = IF cur' = NULL THEN <<v>> ELSE args,
         (made /\ capacity < WrapAt) \/ ~fault'
  PROVE  Q!Next
<1>1. CASE Crash("push") /\ ~made
  BY <1>1 DEF Crash
<1>4. CASE made /\ size < MaxSize /\ size >= Slots(RoomFor(size)) /\ Crash("push")
  <2>1. capacity < WrapAt
    BY <1>4 DEF Crash
  <2>2. size < Slots(RoomFor(size)) /\ RoomFor(size) \in Nat /\ size \in Nat
    BY <1>4, <2>1, RoomFacts, SizeAssumption DEF Inv, TypeOK
  <2> QED
    BY <1>4, <2>2, SlotsFacts
<1>2. CASE made /\ size >= capacity /\ Return("push", FALSE)
  <2>1. /\ UNCHANGED heap /\ UNCHANGED cur /\ cur = NULL /\ ret' = <<"push", FALSE>>
        /\ args' = <<v>>
    BY <1>2 DEF Return, Answer, Idle
  <2>2. Q!Length >= capacity
    BY <1>2, <2>1, QueueLength
  <2>3. Q!Push(v)
    BY <2>1, <2>2, HeapCounts DEF Q!Push, Q!Answer
  <2> QED
    BY <2>1, <2>3 DEF Q!Next
<1>3. CASE
     /\ Idle /\ made /\ size < MaxSize /\ size < Slots(RoomFor(size))
     /\ cells' = [i \in 1 .. IF size < Len(cells) THEN Len(cells) ELSE size + 1 |->
                   IF i = size + 1 THEN v ELSE cells[i]]
     /\ capacity' = RoomFor(size)
     /\ size' = size + 1
     /\ cur' = [op |-> "push", index |-> size, value |-> v]
     /\ UNCHANGED <<type, made, fault, ret>>
  <2>1. /\ size \in Nat /\ Len(cells) \in Nat /\ size =< Len(cells)
        /\ capacity \in Nat /\ cur = NULL
    BY <1>3, NodeFacts, SizeAssumption DEF Inv, TypeOK, Idle
  <2>2. cur' # NULL /\ cur'.op = "push" /\ cur'.value = v
    BY <1>3, <2>1, CallFacts
  <2>3. PICK c, d, n, u : c = cells /\ d = cells' /\ n = size /\ u = cur'
    OBVIOUS
  <2>4. /\ n \in Nat /\ u # NULL /\ u.op = "push" /\ u.value = v
        /\ \A i \in 1 .. n : d[i] = c[i]
        /\ d[n + 1] = v
    BY <1>3, <2>1, <2>2, <2>3
  <2>5. ASSUME NEW w \in Stored PROVE CountOf(d, n + 1, u, w) = CountOf(c, n, NULL, w)
    <3>1. /\ Tally(d, n + 1, w) = Tally(d, n, w) + OneIf(v, w)
          /\ Tally(d, n, w) = Tally(c, n, w) /\ Tally(c, n, w) \in Nat
      BY <2>4, TallyNext, TallySame, TallyNat
    <3> QED
      BY <2>4, <3>1 DEF CountOf, OneIf
  <2>6. \A w \in Stored : Count(w)' = Count(w)
    BY <1>3, <2>1, <2>3, <2>5, CountIs
  <2>7. capacity' >= capacity
    BY <1>3, RoomFacts DEF Inv
  <2>8. Counts' = Counts /\ args' = args
    BY <1>3, <2>2, <2>6, SameCounts
  <2>9. Q!Reserve
    BY <1>3, <2>7, <2>8 DEF Q!Reserve
  <2> QED
    BY <2>9 DEF Q!Next
<1> QED
  BY <1>1, <1>2, <1>3, <1>4 DEF Push

\* A swap within a call is no step of the queue.
LEMMA SwapStep ==
  ASSUME Inv, cur # NULL, NEW k \in 0 .. size - 1, NEW m \in 0 .. size - 1, k # m,
         cells' = Swapped(k, m), cur' = [cur EXCEPT !.index = m],
         UNCHANGED <<type, size, capacity, made, fault, ret, args>>
  PROVE  UNCHANGED Q!qvars
<1>1. /\ size \in Nat /\ size =< Len(cells) /\ Len(cells) \in Nat /\ cells \in Seq(Stored)
      /\ cur = [op |-> cur.op, index |-> cur.index, value |-> cur.value]
      /\ cur.op \in {"push", "pop"} /\ cur.value \in Stored
  BY CurFacts DEF Inv, TypeOK
<1>2. cur' # NULL /\ cur'.op = cur.op /\ cur'.value = cur.value
  BY <1>1, CallFacts
<1>3. PICK c, d, n, u, x : c = cells /\ d = cells' /\ n = size /\ u = cur /\ x = cur'
  OBVIOUS
<1>4. /\ n \in Nat /\ k + 1 \in 1 .. n /\ m + 1 \in 1 .. n /\ k + 1 # m + 1
      /\ d[k + 1] = c[m + 1] /\ d[m + 1] = c[k + 1]
      /\ \A i \in (1 .. n) \ {k + 1, m + 1} : d[i] = c[i]
  BY <1>1, <1>3 DEF Swapped, Node
<1>5. ASSUME NEW v \in Stored PROVE CountOf(d, n, x, v) = CountOf(c, n, u, v)
  <2>1. Tally(d, n, v) = Tally(c, n, v)
    BY <1>4, TallySwap
  <2> QED
    BY <1>2, <1>3, <2>1 DEF CountOf
<1>6. \A v \in Stored : Count(v)' = Count(v)
  BY <1>3, <1>5, CountIs
<1>7. Counts' = Counts
  BY <1>6, SameCounts
<1> QED
  BY <1>7 DEF Q!qvars

\* The end of a call: the value pushed is counted now, the one popped no longer.
LEMMA FinishCounts ==
  ASSUME Inv, cur # NULL, NEW r, Finish(r)
  PROVE  /\ cur.value \in Stored /\ made /\ made'
         /\ UNCHANGED <<type, capacity>> /\ ret' = <<cur.op, r>>
         /\ \A v \in Stored :
              /\ Counts[v] \in Int /\ Tally(cells, size, v) \in Nat
              /\ Counts'[v] = Tally(cells, size, v)
              /\ v # cur.value => Counts[v] = Tally(cells, size, v)
         /\ Counts[cur.value] =
              Tally(cells, size, cur.value) + IF cur.op = "pop" THEN 1 ELSE -1
<1>1. size \in Nat /\ cur.value \in Stored /\ made
  BY CurFacts DEF Inv
<1>2. cur' = NULL /\ UNCHANGED heap /\ ret' = <<cur.op, r>>
  BY DEF Finish
<1>3. UNCHANGED <<type, size, cells, capacity, made>>
  BY <1>2 DEF heap
<1>4. \A v \in Stored : Tally(cells, size, v) \in Nat
  BY <1>1, TallyNat
<1>5. \A v \in Stored : Count(v)' = Tally(cells, size, v)
  BY <1>2, <1>3, <1>4, CountIs DEF CountOf
<1>6. /\ \A v \in Stored : v # cur.value => Count(v) = Tally(cells, size, v)
      /\ Count(cur.value) =
           Tally(cells, size, cur.value) + IF cur.op = "pop" THEN 1 ELSE -1
  BY <1>1, <1>4, CountIs DEF CountOf
<1>7. \A v \in Stored : Counts[v] = Count(v) /\ Counts'[v] = Count(v)'
  BY <1>1, <1>3 DEF Counts
<1> QED
  BY <1>1, <1>2, <1>3, <1>4, <1>5, <1>6, <1>7

\* A queue one of whose values is counted once more, or once less.
LEMMA CountsMore ==
  ASSUME NEW x \in Stored, NEW k, \A v \in Stored \ {x} : Counts'[v] = Counts[v],
         Counts'[x] = k
  PROVE  Counts' = [Counts EXCEPT ![x] = k]
BY DEF Counts

\* heapify_up: when it ends the value is in the queue.
LEMMA UpStep ==
  ASSUME Inv, HeapifyUp,
         args' = IF cur' # NULL THEN args ELSE IF cur.op = "push" THEN <<cur.value>> ELSE <<>>
  PROVE  [Q!Next]_Q!qvars
<1>1. cur # NULL /\ cur.op = "push"
  BY DEF HeapifyUp
<1>2. cur.index \in Nat /\ cur.index < size /\ size \in Nat
  BY <1>1, CurFacts DEF Inv
<1>3. CASE Finish(TRUE)
  <2>1. PICK x \in Stored : x = cur.value
    BY <1>1, <1>3, FinishCounts
  <2>2. /\ UNCHANGED <<type, capacity>> /\ ret' = <<"push", TRUE>>
        /\ \A v \in Stored \ {x} : Counts'[v] = Counts[v]
        /\ Counts'[x] = Counts[x] + 1
    <3>1. /\ UNCHANGED <<type, capacity>> /\ ret' = <<cur.op, TRUE>>
          /\ \A v \in Stored :
               /\ Tally(cells, size, v) \in Nat
               /\ Counts'[v] = Tally(cells, size, v)
               /\ v # cur.value => Counts[v] = Tally(cells, size, v)
      BY <1>1, <1>3, FinishCounts
    <3>2. Counts[x] = Tally(cells, size, x) + -1
      BY <1>1, <1>3, <2>1, FinishCounts
    <3>3. Counts'[x] = Counts[x] + 1
      BY <3>1, <3>2
    <3> QED
      BY <1>1, <2>1, <3>1, <3>3
  <2>3. Counts' = [Counts EXCEPT ![x] = Counts[x] + 1]
    BY <2>2, CountsMore
  <2>4. args' = <<x>>
    BY <1>1, <1>3, <2>1 DEF Finish
  <2>5. capacity \in Nat
    BY SizeAssumption DEF Inv, TypeOK
  <2>6. capacity' >= capacity
    BY <2>2, <2>5
  <2>7. Q!Push(x)
    BY <2>2, <2>3, <2>6 DEF Q!Push, Q!Answer
  <2> QED
    BY <2>4, <2>7 DEF Q!Next
<1>4. CASE /\ cur.index > 0 /\ Rises(cur.index)
           /\ cells' = Swapped(cur.index, Parent(cur.index))
           /\ cur' = [cur EXCEPT !.index = Parent(cur.index)]
           /\ UNCHANGED <<type, size, capacity, made, fault, ret>>
  <2>1. PICK k, m : k = cur.index /\ m = Parent(cur.index)
    OBVIOUS
  <2>2. k \in 0 .. size - 1 /\ m \in 0 .. size - 1 /\ k # m
    BY <1>2, <1>4, <2>1, TreeFacts
  <2>3. cur' # NULL
    <3>1. /\ cur = [op |-> cur.op, index |-> cur.index, value |-> cur.value]
          /\ cur.op \in {"push", "pop"} /\ cur.value \in Stored /\ m \in Nat
      BY <1>1, <1>2, <2>2, CurFacts DEF Inv
    <3>2. cur' = [op |-> cur.op, index |-> m, value |-> cur.value]
      BY <1>4, <2>1, <3>1
    <3> QED
      BY <3>1, <3>2, CallFacts
  <2>4. cells' = Swapped(k, m) /\ cur' = [cur EXCEPT !.index = m] /\ args' = args
    BY <1>4, <2>1, <2>3
  <2> QED
    BY <1>1, <1>4, <2>2, <2>4, SwapStep
<1> QED
  BY <1>3, <1>4 DEF HeapifyUp

\* A swap within heapify_down, likewise, since it stays among the nodes.
LEMMA SinkStep ==
  ASSUME Inv, cur # NULL, cur.op = "pop", NEW m \in 0 .. size - 1, cur.index # m,
         cells' = Swapped(cur.index, m), cur' = [cur EXCEPT !.index = m],
         UNCHANGED <<type, size, capacity, made, fault, ret>>,
         args' = IF cur' # NULL THEN args ELSE IF cur.op = "push" THEN <<cur.value>> ELSE <<>>
  PROVE  UNCHANGED Q!qvars
<1>1. /\ cur = [op |-> cur.op, index |-> cur.index, value |-> cur.value]
      /\ cur.op \in {"push", "pop"} /\ cur.value \in Stored
      /\ cur.index \in Nat /\ cur.index < size /\ size \in Nat
  BY CurFacts DEF Inv
<1>2. cur' = [op |-> cur.op, index |-> m, value |-> cur.value]
  BY <1>1
<1>3. cur' # NULL
  BY <1>1, <1>2, CallFacts
<1>4. PICK k \in 0 .. size - 1 : k = cur.index
  BY <1>1
<1>5. cells' = Swapped(k, m) /\ args' = args /\ k # m
  BY <1>3, <1>4
<1> QED
  BY <1>4, <1>5, SwapStep

\* heapify_down: when it ends the value popped leaves the queue, and nothing in
\* it has to leave before.
LEMMA DownFinish ==
  ASSUME QueueInv, cur # NULL, cur.op = "pop", Finish(cur.value), args' = <<>>
  PROVE  Q!Next
<1>1. Inv
  BY DEF QueueInv
<1>2. PICK x \in Stored : x = cur.value
  BY <1>1, FinishCounts
<1>3. /\ UNCHANGED <<type, capacity>> /\ ret' = <<"pop", x>>
      /\ \A v \in Stored \ {x} : /\ Counts'[v] = Counts[v]
                                 /\ Counts[v] = Tally(cells, size, v)
      /\ Counts'[x] = Counts[x] - 1 /\ Counts[x] > 0
  BY <1>1, <1>2, FinishCounts
<1>4. Counts' = [Counts EXCEPT ![x] = Counts[x] - 1]
  BY <1>3, CountsMore
<1>5. ASSUME NEW w \in Stored, Counts[w] > 0 PROVE Above(x, w)
  <2>1. CASE w = x
    BY <2>1, AboveFacts
  <2>2. CASE w # x
    <3>1. Tally(cells, size, w) > 0 /\ size \in Nat
      BY <1>1, <1>3, <1>5, <2>2, CurFacts DEF Inv
    <3>2. PICK i \in 1 .. size : cells[i] = w
      BY <3>1, TallyNat
    <3>3. i - 1 \in 0 .. size - 1 /\ i \in Nat /\ size =< Len(cells) /\ Len(cells) \in Nat
      BY <1>1, <3>1, <3>2, CurFacts DEF Inv
    <3>4. i - 1 < Len(cells) /\ (i - 1) + 1 = i
      BY <3>1, <3>3
    <3>5. Node(i - 1) = w
      BY <3>2, <3>4 DEF Node
    <3> QED
      BY <1>2, <3>3, <3>5 DEF QueueInv, Popped
  <2> QED
    BY <2>1, <2>2
<1>6. x \in Q!Members /\ Q!First(x)
  BY <1>3, <1>5, FirstIs
<1>7. Q!Pop
  BY <1>3, <1>4, <1>6 DEF Q!Pop, Q!Answer
<1> QED
  BY <1>7 DEF Q!Next

LEMMA DownStep ==
  ASSUME QueueInv, HeapifyDown,
         args' = IF cur' # NULL THEN args ELSE IF cur.op = "push" THEN <<cur.value>> ELSE <<>>
  PROVE  [Q!Next]_Q!qvars
<1>1. Inv /\ cur # NULL /\ cur.op = "pop"
  BY DEF HeapifyDown, QueueInv
<1>2. PICK n \in Nat : n = cur.index /\ n < size /\ size \in Nat
  BY <1>1, CurFacts DEF Inv
<1>3. /\ LeftChild(n) \in Nat /\ RightChild(n) \in Nat
      /\ RightChild(n) = LeftChild(n) + 1 /\ LeftChild(n) > n
  BY <1>2, ChildFacts
<1>4. CASE Finish(cur.value)
  <2>1. args' = <<>>
    BY <1>1, <1>4 DEF Finish
  <2> QED
    BY <1>1, <1>4, <2>1, DownFinish
<1>5. CASE /\ LeftChild(n) < size /\ SinksRight(n)
           /\ cells' = Swapped(n, RightChild(n))
           /\ cur' = [cur EXCEPT !.index = RightChild(n)]
           /\ UNCHANGED <<type, size, capacity, made, fault, ret>>
  <2>1. RightChild(n) < size
    BY <1>1, <1>2, <1>3, <1>5, StaleChild
  <2>2. PICK m \in 0 .. size - 1 : m = RightChild(n) /\ m # n
    BY <1>2, <1>3, <2>1
  <2> QED
    BY <1>1, <1>2, <1>5, <2>2, SinkStep
<1>6. CASE /\ LeftChild(n) < size /\ SinksLeft(n)
           /\ cells' = Swapped(n, LeftChild(n))
           /\ cur' = [cur EXCEPT !.index = LeftChild(n)]
           /\ UNCHANGED <<type, size, capacity, made, fault, ret>>
  <2>1. PICK m \in 0 .. size - 1 : m = LeftChild(n) /\ m # n
    BY <1>2, <1>3, <1>6
  <2> QED
    BY <1>1, <1>2, <1>6, <2>1, SinkStep
<1> QED
  BY <1>2, <1>4, <1>5, <1>6 DEF HeapifyDown

\* A queue that holds nothing, and the first value of one that holds something.
LEMMA CountsNone ==
  ASSUME Inv, cur = NULL, size = 0
  PROVE  \A v \in Stored : Counts[v] = 0
<1>1. CASE made
  <2>1. PICK c, n : c = cells /\ n = 0 /\ n = size
    OBVIOUS
  <2>2. \A v \in Stored : Counts[v] = Tally(c, n, v)
    BY <1>1, <2>1, CountsIdle
  <2> QED
    BY <2>1, <2>2, TallyNone
<1>2. CASE ~made
  BY <1>2 DEF Counts
<1> QED
  BY <1>1, <1>2

LEMMA RootIsFirst ==
  ASSUME Inv, made, cur = NULL, size > 0
  PROVE  /\ Node(0) \in Stored /\ Counts[Node(0)] > 0
         /\ Node(0) \in Q!Members /\ Q!First(Node(0))
<1>1. size \in Nat /\ size =< Len(cells) /\ Len(cells) \in Nat
  BY NodeFacts, SizeAssumption DEF Inv, TypeOK
<1>2. \A i \in 1 .. size : i - 1 \in 0 .. size - 1 /\ Node(i - 1) = cells[i]
  <2> TAKE i \in 1 .. size
  <2>1. i - 1 < Len(cells) /\ (i - 1) + 1 = i /\ i - 1 \in 0 .. size - 1
    BY <1>1
  <2> QED
    BY <2>1 DEF Node
<1>3. PICK x \in Stored : x = Node(0) /\ x = cells[1]
  <2>1. 1 \in 1 .. size /\ 1 - 1 = 0
    BY <1>1
  <2>2. cells[1] \in Stored
    BY <2>1, CountsIdle
  <2> QED
    BY <1>2, <2>1, <2>2
<1>4. \A v \in Stored : Counts[v] > 0 <=> \E i \in 1 .. size : cells[i] = v
  <2>1. PICK c, n : c = cells /\ n = size
    OBVIOUS
  <2>2. \A v \in Stored : Tally(c, n, v) > 0 <=> \E i \in 1 .. n : c[i] = v
    BY <1>1, <2>1, TallyNat
  <2> QED
    BY <2>1, <2>2, CountsIdle
<1>5. ASSUME NEW w \in Stored, Counts[w] > 0 PROVE Above(x, w)
  <2>1. PICK i \in 1 .. size : cells[i] = w
    BY <1>4, <1>5
  <2>2. InOrder(0, i - 1)
    BY <1>2, InvRootFirst DEF RootFirst
  <2> QED
    BY <1>2, <1>3, <2>1, <2>2, InOrderAbove
<1>6. Counts[x] > 0
  BY <1>1, <1>3, <1>4
<1>7. x \in Q!Members /\ Q!First(x)
  BY <1>5, <1>6, FirstIs
<1> QED
  BY <1>3, <1>6, <1>7

\* heap_pop, up to heapify_down: the value of the root stays in the queue until
\* the call ends.
LEMMA PopStep ==
  ASSUME Inv, Pop, args' = IF cur' = NULL THEN <<>> ELSE args, made \/ ~fault'
  PROVE  [Q!Next]_Q!qvars
<1>1. CASE size = 0 /\ Return("pop", NULL)
  <2>1. /\ UNCHANGED heap /\ UNCHANGED cur /\ cur = NULL /\ ret' = <<"pop", NULL>>
        /\ args' = <<>>
    BY <1>1 DEF Return, Answer, Idle
  <2>2. \A v \in Stored : Counts[v] = 0
    BY <1>1, <2>1, CountsNone
  <2>3. Q!Members = {}
    BY <2>2 DEF Q!Members
  <2>4. Q!Pop
    BY <2>1, <2>3, HeapCounts DEF Q!Pop, Q!Answer
  <2> QED
    BY <2>1, <2>4 DEF Q!Next
<1>2. CASE ~made /\ Crash("pop")
  BY <1>2 DEF Crash
<1>3. CASE /\ size = 1 /\ made /\ size' = 0 /\ UNCHANGED <<type, cells, capacity, made>>
           /\ Answer("pop", Node(0))
  <2>1. cur = NULL /\ cur' = NULL /\ ret' = <<"pop", Node(0)>> /\ args' = <<>>
    BY <1>3 DEF Answer, Idle
  <2>2. PICK c, n : c = cells /\ n = size /\ n = 1
    BY <1>3
  <2>3. PICK x \in Stored : x = c[1] /\ x = Node(0)
    <3>1. 1 \in 1 .. size /\ 1 =< Len(cells) /\ Len(cells) \in Nat
      BY <1>3, NodeFacts DEF Inv, TypeOK
    <3>2. cells[1] \in Stored
      BY <1>3, <2>1, <3>1, CountsIdle
    <3>3. Node(0) = cells[1]
      BY <3>1 DEF Node
    <3> QED
      BY <2>2, <3>2, <3>3
  <2>4. \A v \in Stored : Tally(c, 1, v) = OneIf(x, v)
    <3> TAKE v \in Stored
    <3>1. 0 \in Nat /\ 0 + 1 = 1
      OBVIOUS
    <3>2. Tally(c, 0 + 1, v) = Tally(c, 0, v) + OneIf(c[0 + 1], v)
      BY <3>1, TallyNext
    <3>3. Tally(c, 0, v) = 0
      BY TallyNone
    <3>4. Tally(c, 1, v) = 0 + OneIf(x, v)
      BY <2>3, <3>1, <3>2, <3>3
    <3> QED
      BY <3>4 DEF OneIf
  <2>5. \A v \in Stored : Counts[v] = OneIf(x, v)
    BY <1>3, <2>1, <2>2, <2>4, CountsIdle
  <2>6. \A v \in Stored : Counts'[v] = 0
    <3>1. \A v \in Stored : CountOf(c, 0, NULL, v) = 0
      BY TallyNone DEF CountOf
    <3>2. \A v \in Stored : Count(v)' = 0
      BY <1>3, <2>1, <2>2, <3>1, CountIs
    <3> QED
      BY <3>2 DEF Counts
  <2>7. Counts[x] = 1 /\ \A v \in Stored \ {x} : Counts[v] = 0
    BY <2>5 DEF OneIf
  <2>8. Counts' = [Counts EXCEPT ![x] = Counts[x] - 1]
    BY <2>6, <2>7, CountsMore
  <2>9. \A w \in Stored : Counts[w] > 0 => Above(x, w)
    BY <2>7, AboveFacts
  <2>10. x \in Q!Members /\ Q!First(x)
    BY <2>7, <2>9, FirstIs
  <2>11. Q!Pop
    BY <1>3, <2>1, <2>3, <2>8, <2>10 DEF Q!Pop, Q!Answer
  <2> QED
    BY <2>1, <2>11 DEF Q!Next
<1>4. CASE /\ Idle /\ size > 1 /\ made
           /\ size' = size - 1 /\ cells' = TailAtHead
           /\ cur' = [op |-> "pop", index |-> 0, value |-> Node(0)]
           /\ UNCHANGED <<type, capacity, made, fault, ret>>
  <2>1. /\ TypeOK /\ size \in Nat /\ Len(cells) \in Nat /\ size =< Len(cells)
        /\ cells \in Seq(Stored) /\ cur = NULL
    BY <1>4, NodeFacts, SizeAssumption DEF Inv, TypeOK, Idle
  <2>2. /\ Node(0) \in Stored /\ Node(0) = cells[1] /\ Node(size - 1) = cells[size]
    <3>1. size - 1 \in Nat /\ (size - 1) + 1 = size /\ size - 1 < Len(cells)
      BY <1>4, <2>1
    <3>2. 0 < Len(cells) /\ 0 + 1 = 1 /\ 0 \in Nat
      BY <1>4, <2>1
    <3>3. Node(0) \in Stored
      BY <2>1, <3>2, NodeFacts
    <3> QED
      BY <3>1, <3>2, <3>3 DEF Node
  <2>3. /\ cur' # NULL /\ cur'.op = "pop" /\ cur'.value = cells[1]
    BY <1>4, <2>2, CallFacts
  <2>4. PICK c, d, u : c = cells /\ d = cells' /\ u = cur'
    OBVIOUS
  <2>5. PICK n \in Nat : n = size - 1 /\ n + 1 = size /\ n > 0
    BY <1>4, <2>1
  <2>6. d[1] = c[n + 1] /\ \A i \in (1 .. n) \ {1} : d[i] = c[i]
    BY <1>4, <2>1, <2>2, <2>4, <2>5 DEF TailAtHead
  <2>7. ASSUME NEW v \in Stored PROVE CountOf(d, n, u, v) = CountOf(c, n + 1, NULL, v)
    <3>1. 1 \in 1 .. n
      BY <2>5
    <3>2. Tally(d, n, v) + OneIf(c[1], v) = Tally(c, n, v) + OneIf(d[1], v)
      <4>1. SameBut(c, d, n, 1)
        BY <2>6 DEF SameBut
      <4> QED
        BY <3>1, <4>1, TallySet
    <3>3. Tally(c, n + 1, v) = Tally(c, n, v) + OneIf(c[n + 1], v)
      BY TallyNext
    <3>4. Tally(d, n, v) \in Nat /\ Tally(c, n, v) \in Nat
      BY TallyNat
    <3>5. CountOf(d, n, u, v) = Tally(d, n, v) + OneIf(c[1], v)
      BY <2>3, <2>4, <3>4 DEF CountOf, OneIf
    <3>6. CountOf(c, n + 1, NULL, v) = Tally(c, n, v) + OneIf(c[n + 1], v)
      BY <3>3, <3>4 DEF CountOf, OneIf
    <3> QED
      BY <2>6, <3>2, <3>5, <3>6
  <2>8. \A v \in Stored : Count(v)' = Count(v)
    BY <1>4, <2>1, <2>4, <2>5, <2>7, CountIs
  <2>9. Counts' = Counts /\ args' = args
    BY <1>4, <2>3, <2>8, SameCounts
  <2> QED
    BY <1>4, <2>9 DEF Q!qvars
<1> QED
  BY <1>1, <1>2, <1>3, <1>4 DEF Pop

\* heap_peek: the root is first in the queue.
LEMMA PeekStep ==
  ASSUME Inv, Peek, args' = IF cur' = NULL THEN <<>> ELSE args, made \/ ~fault'
  PROVE  Q!Next
<1>1. CASE size = 0 /\ Return("peek", NULL)
  <2>1. /\ UNCHANGED heap /\ UNCHANGED cur /\ cur = NULL /\ ret' = <<"peek", NULL>>
        /\ args' = <<>>
    BY <1>1 DEF Return, Answer, Idle
  <2>2. \A v \in Stored : Counts[v] = 0
    BY <1>1, <2>1, CountsNone
  <2>3. Q!Members = {}
    BY <2>2 DEF Q!Members
  <2>4. Q!Peek
    BY <2>1, <2>3, HeapCounts DEF Q!Peek, Q!Answer
  <2> QED
    BY <2>1, <2>4 DEF Q!Next
<1>2. CASE ~made /\ Crash("peek")
  BY <1>2 DEF Crash
<1>3. CASE size > 0 /\ made /\ Return("peek", Node(0))
  <2>1. /\ UNCHANGED heap /\ UNCHANGED cur /\ cur = NULL /\ ret' = <<"peek", Node(0)>>
        /\ args' = <<>>
    BY <1>3 DEF Return, Answer, Idle
  <2>2. PICK x \in Stored : x = Node(0) /\ x \in Q!Members /\ Q!First(x)
    BY <1>3, <2>1, RootIsFirst
  <2>3. Q!Peek
    BY <2>1, <2>2, HeapCounts DEF Q!Peek, Q!Answer
  <2> QED
    BY <2>1, <2>3 DEF Q!Next
<1> QED
  BY <1>1, <1>2, <1>3 DEF Peek

\* heap_destroy leaves an empty queue.
LEMMA DestroyStep ==
  ASSUME Inv, Destroy, args' = IF cur' = NULL THEN <<>> ELSE args, made \/ ~fault'
  PROVE  Q!Next
<1>1. CASE ~made /\ Crash("destroy")
  BY <1>1 DEF Crash
<1>2. CASE made' = FALSE /\ Answer("destroy", TRUE)
  <2>1. cur' = NULL /\ ret' = <<"destroy", TRUE>> /\ args' = <<>>
    BY <1>2 DEF Answer, Idle
  <2>2. Counts' = Q!Empty
    BY <1>2 DEF Counts, Q!Empty
  <2>3. Q!Destroy
    BY <2>1, <2>2 DEF Q!Destroy, Q!Answer
  <2> QED
    BY <2>1, <2>3 DEF Q!Next
<1> QED
  BY <1>1, <1>2 DEF Destroy

\* The value on its way out stays in front: it was at the root, and heapify_down
\* only moves the nodes about.
LEMMA PoppedInv ==
  ASSUME QueueInv, [Next]_vars
  PROVE  Popped'
<1>1. Inv /\ Popped /\ TypeOK
  BY DEF QueueInv, Inv
<1>2. ASSUME cur' = NULL PROVE Popped'
  BY <1>2 DEF Popped
<1>3. ASSUME NEW v \in Stored, Push(v) PROVE Popped'
  <2>1. size \in Nat
    BY <1>1, SizeAssumption DEF TypeOK
  <2>2. cur' = NULL \/ cur' = [op |-> "push", index |-> size, value |-> v]
    BY <1>3 DEF Push, Crash, Return, Answer, Idle
  <2> QED
    BY <1>2, <2>1, <2>2 DEF Popped
<1>4. ASSUME NEW t \in Type, NEW n \in Capacity, Setup(t, n) PROVE Popped'
  BY <1>2, <1>4 DEF Setup, Answer, Idle
<1>5. ASSUME Peek \/ Destroy PROVE Popped'
  BY <1>2, <1>5 DEF Peek, Destroy, Crash, Return, Answer, Idle
<1>6. ASSUME Pop PROVE Popped'
  <2>1. CASE cur' = NULL
    BY <1>2, <2>1
  <2>2. CASE cur' # NULL
    <3>1. /\ cur = NULL /\ size > 1 /\ made /\ size' = size - 1 /\ cells' = TailAtHead
          /\ cur' = [op |-> "pop", index |-> 0, value |-> Node(0)] /\ type' = type
      BY <1>6, <2>2 DEF Pop, Crash, Return, Answer, Idle
    <3>2. size \in Nat /\ size =< Len(cells) /\ Len(cells) \in Nat
      BY <1>1, <3>1, NodeFacts, SizeAssumption DEF TypeOK
    <3>3. ASSUME NEW i \in 0 .. size - 2
          PROVE  \E j \in 0 .. size - 1 : Node(i)' = Node(j)
      <4>1. i \in Nat /\ i + 1 \in 1 .. Len(cells) /\ i < Len(cells) /\ size - 1 < Len(cells)
            /\ size - 1 \in 0 .. size - 1 /\ i \in 0 .. size - 1
        BY <3>1, <3>2
      <4>2. DOMAIN cells = 1 .. Len(cells) /\ cells \in Seq(Stored)
        BY <1>1, NodeFacts DEF TypeOK
      <4>3. cells'[i + 1] = IF i + 1 = 1 THEN Node(size - 1) ELSE cells[i + 1]
        BY <3>1, <4>1, <4>2 DEF TailAtHead
      <4>4. Len(cells') = Len(cells)
        BY <3>1, <4>2 DEF TailAtHead
      <4>5. Node(i)' = cells'[i + 1] /\ Node(i) = cells[i + 1]
        BY <4>1, <4>4 DEF Node
      <4> QED
        BY <4>1, <4>3, <4>5
    <3>4. \A j \in 0 .. size - 1 : Above(Node(0), Node(j))
      BY <1>1, <3>1, InvRootFirst, InOrderAbove DEF RootFirst
    <3>5. 0 .. size' - 1 = 0 .. size - 2 /\ cur'.value = Node(0)
      BY <3>1, <3>2
    <3>6. \A i \in 0 .. size - 2 : Above(Node(0), Node(i)')
      BY <3>3, <3>4
    <3>7. \A i : Above(cur.value, Node(i))' <=> Above(cur'.value, Node(i)')
      BY <3>1 DEF Above
    <3> QED
      BY <3>5, <3>6, <3>7 DEF Popped
  <2> QED
    BY <2>1, <2>2
<1>7. ASSUME cur # NULL, cur.op = "pop", NEW k \in Nat, k = cur.index,
             NEW m \in 0 .. size - 1, k # m,
             cells' = Swapped(k, m), cur' = [cur EXCEPT !.index = m],
             UNCHANGED <<type, size, capacity, made, fault>>
      PROVE  Popped'
  <2>1. /\ cur'.value = cur.value
        /\ Node(k)' = Node(m) /\ Node(m)' = Node(k)
        /\ \A j \in Nat \ {k, m} : Node(j)' = Node(j)
    BY <1>1, <1>7, SwapTypes
  <2>2. size \in Nat /\ k \in 0 .. size - 1
    BY <1>1, <1>7, CurFacts
  <2>3. \A i \in 0 .. size - 1 : \E j \in 0 .. size - 1 : Node(i)' = Node(j)
    <3> TAKE i \in 0 .. size - 1
    <3>1. i \in Nat
      BY <2>2
    <3> QED
      BY <2>1, <2>2, <3>1
  <2>4. \A j \in 0 .. size - 1 : Above(cur.value, Node(j))
    BY <1>1, <1>7 DEF Popped
  <2>5. \A i \in 0 .. size - 1 : Above(cur.value, Node(i)')
    BY <2>3, <2>4
  <2>6. \A i : Above(cur.value, Node(i))' <=> Above(cur'.value, Node(i)')
    BY <1>7 DEF Above
  <2> QED
    BY <1>7, <2>1, <2>5, <2>6 DEF Popped
<1>8. ASSUME HeapifyDown PROVE Popped'
  <2>1. cur # NULL /\ cur.op = "pop"
    BY <1>8 DEF HeapifyDown
  <2>2. PICK n \in Nat : n = cur.index /\ n < size /\ size \in Nat
    BY <1>1, <2>1, CurFacts
  <2>3. /\ LeftChild(n) \in Nat /\ RightChild(n) \in Nat
        /\ RightChild(n) = LeftChild(n) + 1 /\ LeftChild(n) > n
    BY <2>2, ChildFacts
  <2>4. CASE cur' = NULL
    BY <1>2, <2>4
  <2>5. CASE /\ LeftChild(n) < size /\ SinksRight(n)
             /\ cells' = Swapped(n, RightChild(n))
             /\ cur' = [cur EXCEPT !.index = RightChild(n)]
             /\ UNCHANGED <<type, size, capacity, made, fault, ret>>
    <3>1. RightChild(n) < size
      BY <1>1, <2>1, <2>2, <2>3, <2>5, StaleChild
    <3>2. PICK m \in 0 .. size - 1 : m = RightChild(n) /\ m # n
      BY <2>2, <2>3, <3>1
    <3> QED
      BY <1>7, <2>1, <2>2, <2>5, <3>2
  <2>6. CASE /\ LeftChild(n) < size /\ SinksLeft(n)
             /\ cells' = Swapped(n, LeftChild(n))
             /\ cur' = [cur EXCEPT !.index = LeftChild(n)]
             /\ UNCHANGED <<type, size, capacity, made, fault, ret>>
    <3>1. PICK m \in 0 .. size - 1 : m = LeftChild(n) /\ m # n
      BY <2>2, <2>3, <2>6
    <3> QED
      BY <1>7, <2>1, <2>2, <2>6, <3>1
  <2> QED
    BY <1>8, <2>2, <2>4, <2>5, <2>6 DEF HeapifyDown, Finish
<1>9. ASSUME HeapifyUp PROVE Popped'
  <2>1. cur # NULL /\ cur.op = "push"
    BY <1>9 DEF HeapifyUp
  <2>2. cur' = NULL \/ cur' = [cur EXCEPT !.index = Parent(cur.index)]
    BY <1>9 DEF HeapifyUp, Finish
  <2>3. cur = [op |-> cur.op, index |-> cur.index, value |-> cur.value]
    BY <1>1, <2>1, CurFacts
  <2>4. cur' = NULL \/ cur'.op = "push"
    BY <2>1, <2>2, <2>3
  <2> QED
    BY <1>2, <2>4 DEF Popped
<1>10. ASSUME UNCHANGED vars PROVE Popped'
  <2>1. UNCHANGED <<type, size, cells, cur>>
    BY <1>10 DEF vars, heap
  <2> QED
    BY <1>1, <2>1 DEF Popped, Above, Node
<1> QED
  BY <1>3, <1>4, <1>5, <1>6, <1>8, <1>9, <1>10 DEF Next, Heapify

LEMMA QueueInvCorrect == Spec => []QueueInv
<1>1. Init => QueueInv
  BY InitInv DEF Init, QueueInv, Popped
<1>2. QueueInv /\ [Next]_vars => QueueInv'
  BY NextInv, PoppedInv DEF QueueInv
<1> QED
  BY <1>1, <1>2, PTL DEF Spec

\* An empty heap without an array list is an empty queue without room.
LEMMA QueueInit == Init => Q!Init
<1> SUFFICES ASSUME Init PROVE Q!Init
  OBVIOUS
<1>1. Counts = Q!Empty
  BY DEF Init, Counts, Q!Empty
<1> QED
  BY <1>1 DEF Init, Q!Init

\* Every step of a heap that is there and whose capacity does not wrap, and every
\* call of any heap that does not go wrong, is a step of the queue or none.
LEMMA QueueNext ==
  ASSUME QueueInv, [Next]_vars, SIZE_MAX \notin Capacity,
         (made /\ capacity < WrapAt) \/ ~fault'
  PROVE  [Q!Next]_Q!qvars
<1>1. Inv
  BY DEF QueueInv
<1>2. ASSUME NEW t \in Type, NEW n \in Capacity, args' = <<n>>, Setup(t, n)
      PROVE  Q!Next
  BY <1>1, <1>2, SetupStep
<1>3. ASSUME NEW v \in Stored, Push(v), args' = IF cur' = NULL THEN <<v>> ELSE args
      PROVE  Q!Next
  BY <1>1, <1>3, PushStep
<1>4. ASSUME args' = IF cur' = NULL THEN <<>> ELSE args, Pop PROVE [Q!Next]_Q!qvars
  BY <1>1, <1>4, PopStep
<1>5. ASSUME args' = IF cur' = NULL THEN <<>> ELSE args, Peek PROVE Q!Next
  BY <1>1, <1>5, PeekStep
<1>6. ASSUME args' = IF cur' = NULL THEN <<>> ELSE args, Destroy PROVE Q!Next
  BY <1>1, <1>6, DestroyStep
<1>7. ASSUME Heapify PROVE [Q!Next]_Q!qvars
  BY <1>1, <1>7, UpStep, DownStep DEF Heapify
<1>8. ASSUME UNCHANGED vars PROVE UNCHANGED Q!qvars
  <2>1. UNCHANGED heap /\ UNCHANGED cur /\ UNCHANGED <<ret, args>>
    BY <1>8 DEF vars
  <2> QED
    BY <2>1, HeapCounts DEF Q!qvars
<1> QED
  BY <1>2, <1>3, <1>4, <1>5, <1>6, <1>7, <1>8 DEF Next

\* What heap.h promises: however the nodes move, every call on a heap that has been
\* set up answers as a priority queue that counts its values, and push and pop
\* take effect at once.  For a capacity whose byte count wraps this is said of the
\* calls that do not write past the small block malloc gave; of the greatest
\* size_t, which heap_init rounds up to 0, it is not true.
THEOREM ImplementsQueue == SIZE_MAX \notin Capacity => (Spec => ImplementsQueueSpec)
<1> SUFFICES ASSUME SIZE_MAX \notin Capacity PROVE Spec => ImplementsQueueSpec
  OBVIOUS
<1>1. QueueInv /\ [Next]_vars =>
        [(made /\ capacity < WrapAt) \/ ~fault' => [Q!Next]_Q!qvars]_vars
  BY QueueNext
<1> QED
  BY <1>1, QueueInit, QueueInvCorrect, PTL DEF Spec, ImplementsQueueSpec
=============================================================================
