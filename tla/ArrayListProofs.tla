-------------------------- MODULE ArrayListProofs --------------------------
(***************************************************************************)
(* Proofs about ArrayList, for every width of size_t, every set of values  *)
(* and every capacity.                                                     *)
(***************************************************************************)
EXTENDS ArrayList, SeqLemmas

Cell == Value \cup {NULL, JUNK}
BlockState == {"null", "live", "freed"}

\* The list is as its client may expect: the block has capacity cells, and
\* the first size of them have been written.
Fits ==
  /\ Len(array) = capacity /\ block # "freed"
  /\ size =< Len(array)
  /\ \A i \in 1 .. size : array[i] # JUNK

-----------------------------------------------------------------------------
(* Blocks of cells *)

\* A function on 1 .. n is a sequence of length n.
LEMMA MakeSeq ==
  ASSUME NEW S, NEW n \in Nat, NEW f \in [1 .. n -> S]
  PROVE  f \in Seq(S) /\ Len(f) = n /\ DOMAIN f = 1 .. n
BY LenProperties, IsASeq

\* A request that does not wrap is for as many cells as it says.
LEMMA SlotsFacts ==
  ASSUME NEW n \in Nat
  PROVE  /\ Slots(n) \in Nat /\ Slots(n) < WrapAt
         /\ n < WrapAt => Slots(n) = n
BY WidthAssumption DEF Slots

\* Growing a block keeps its cells, as many as there is room for.
LEMMA GrownFacts ==
  ASSUME TypeOK, NEW n \in Nat
  PROVE  /\ Grown(n) \in Seq(Cell) /\ Len(Grown(n)) = Slots(n)
         /\ \A i \in 1 .. Slots(n) :
              Grown(n)[i] = IF i =< Len(array) THEN array[i] ELSE JUNK
<1>1. Slots(n) \in Nat
  BY SlotsFacts
<1>2. PICK m \in Nat : m = Len(array)
  BY LenProperties DEF TypeOK
<1>3. \A i \in 1 .. m : array[i] \in Cell
  BY <1>2, LenProperties DEF TypeOK, Cell
<1>4. Grown(n) = [i \in 1 .. Slots(n) |-> IF i =< m THEN array[i] ELSE JUNK]
  BY <1>2 DEF Grown
<1>5. Grown(n) \in [1 .. Slots(n) -> Cell]
  BY <1>1, <1>3, <1>4 DEF Cell
<1> QED
  BY <1>1, <1>2, <1>4, <1>5, MakeSeq

\* Whatever comes of a request, the list is left with a capacity and a block.
LEMMA ResizedTypes ==
  ASSUME TypeOK, NEW n \in 0 .. SIZE_MAX, NEW r \in Resized(n)
  PROVE  /\ r.ok \in BOOLEAN /\ r.capacity \in 0 .. SIZE_MAX
         /\ r.array \in Seq(Cell) /\ Len(r.array) < WrapAt
         /\ r.block \in BlockState
<1>1. n \in Nat
  BY WidthAssumption
<1>2. array \in Seq(Cell) /\ Len(array) < WrapAt /\ capacity \in 0 .. SIZE_MAX
      /\ block \in BlockState
  BY DEF TypeOK, Cell, BlockState
<1>3. Grown(n) \in Seq(Cell) /\ Len(Grown(n)) < WrapAt
  BY <1>1, GrownFacts, SlotsFacts
<1>4. <<>> \in Seq(Cell) /\ Len(<<>>) = 0 /\ 0 < WrapAt
  BY WidthAssumption
<1>5. \/ r = Same(TRUE) \/ r = Same(FALSE)
      \/ r = Outcome(TRUE, n, Grown(n), "live")
      \/ r = Outcome(FALSE, capacity, <<>>, "freed")
  BY DEF Resized, AllocArray
<1>6. ASSUME NEW ok \in BOOLEAN, NEW m \in 0 .. SIZE_MAX, NEW cells \in Seq(Cell),
             NEW state \in BlockState, Len(cells) < WrapAt,
             r = Outcome(ok, m, cells, state)
      PROVE  /\ r.ok \in BOOLEAN /\ r.capacity \in 0 .. SIZE_MAX
             /\ r.array \in Seq(Cell) /\ Len(r.array) < WrapAt
             /\ r.block \in BlockState
  <2>1. r.ok = ok /\ r.capacity = m /\ r.array = cells /\ r.block = state
    BY <1>6 DEF Outcome
  <2> QED
    BY <1>6, <2>1
<1>7. "live" \in BlockState /\ "freed" \in BlockState
  BY DEF BlockState
<1> QED
  BY <1>2, <1>3, <1>4, <1>5, <1>6, <1>7 DEF Same

\* A request that is neither 0 nor wraps leaves the block as large as the
\* capacity says, keeps the cells in use, and when granted has n cells.
LEMMA ResizedFits ==
  ASSUME TypeOK, Fits, NEW n \in 1 .. WrapAt - 1, NEW r \in Resized(n)
  PROVE  /\ Len(r.array) = r.capacity /\ r.block # "freed"
         /\ size =< Len(r.array)
         /\ \A i \in 1 .. size : r.array[i] = array[i]
         /\ r.ok => r.capacity = n
<1>1. n \in Nat /\ n # 0 /\ Slots(n) = n
  BY SlotsFacts, WidthAssumption
<1>2. size \in Nat /\ capacity \in Nat /\ array \in Seq(Cell)
  BY WidthAssumption DEF TypeOK, Cell
<1>3. CASE r = Same(TRUE) /\ n = capacity
  BY <1>3 DEF Same, Outcome, Fits
<1>4. CASE r = Same(FALSE)
  BY <1>4 DEF Same, Outcome, Fits
<1>5. CASE /\ r = Outcome(TRUE, n, Grown(n), "live")
           /\ ~(n < capacity /\ n < size)
  <2>1. Len(Grown(n)) = n
        /\ \A i \in 1 .. n : Grown(n)[i] = IF i =< Len(array) THEN array[i] ELSE JUNK
    BY <1>1, GrownFacts
  <2>2. size =< n
    BY <1>1, <1>2, <1>5 DEF Fits
  <2>3. \A i \in 1 .. size : Grown(n)[i] = array[i]
    BY <1>1, <1>2, <2>1, <2>2 DEF Fits
  <2> QED
    BY <1>5, <2>1, <2>2, <2>3 DEF Outcome
<1> QED
  BY <1>1, <1>3, <1>4, <1>5 DEF Resized, AllocArray
-----------------------------------------------------------------------------
(* How calls end *)

\* What every step preserves, faults apart.
Good == TypeOK /\ (misused = {} => Fits)

\* A call may not unmark the client's misuse.
Marked == misused' \in SUBSET Misuse /\ misused \subseteq misused'

\* A step that leaves the list alone leaves it good.
LEMMA IdleGood ==
  ASSUME Good, UNCHANGED list, fault' \in BOOLEAN, Marked
  PROVE  Good'
<1>1. TypeOK'
  BY DEF Good, TypeOK, list, Marked
<1>2. misused' = {} => Fits'
  BY DEF Good, Fits, list, Marked
<1> QED
  BY <1>1, <1>2 DEF Good

\* A call that returns has not gone wrong.
LEMMA AnswerSafe ==
  ASSUME NEW op, NEW r, Answer(op, r), TypeOK
  PROVE  FaultsOnlyWhenFull' /\ fault' \in BOOLEAN
BY DEF Answer, FaultsOnlyWhenFull, TypeOK

\* A call that returns without a change is safe.
LEMMA ReturnSafe ==
  ASSUME Good, NEW op, NEW r, Return(op, r), UNCHANGED misused
  PROVE  Good' /\ FaultsOnlyWhenFull'
<1>1. Marked
  BY DEF Marked, Good, TypeOK
<1> QED
  BY <1>1, AnswerSafe, IdleGood DEF Return, Good

\* A call that goes wrong is as described when the list was full.
LEMMA CrashSafe ==
  ASSUME Good, NEW op, Crash(op), Marked,
         misused' = {} =>
           capacity = 0 \/ (size = capacity /\ op \in {"push_head", "insert_at"})
  PROVE  Good' /\ FaultsOnlyWhenFull'
<1>1. UNCHANGED list /\ fault' = TRUE /\ ret' = <<op, NULL>>
  BY DEF Crash
<1>2. Good'
  BY <1>1, IdleGood
<1>3. ret'[1] = op
  BY <1>1
<1>4. FaultsOnlyWhenFull'
  BY <1>1, <1>3 DEF FaultsOnlyWhenFull, list
<1> QED
  BY <1>2, <1>4

\* An unmarked request is for a number of cells that some block holds.
LEMMA RequestsFacts ==
  ASSUME TypeOK, NEW n \in Nat, Requests(n)
  PROVE  Marked /\ (misused' = {} => misused = {} /\ n \in 1 .. WrapAt - 1)
<1>1. Marked
  BY DEF Requests, Marked, TypeOK, Misuse
<1>2. misused' = {} => misused = {} /\ n # 0 /\ ~(n >= WrapAt)
  BY DEF Requests
<1> QED
  BY <1>1, <1>2, WidthAssumption

\* The list is good after a request, granted or not.
LEMMA BecomeGood ==
  ASSUME Good, NEW n \in 0 .. SIZE_MAX, NEW r \in Resized(n), Become(r),
         UNCHANGED size, fault' \in BOOLEAN, Marked,
         misused' = {} => misused = {} /\ n \in 1 .. WrapAt - 1
  PROVE  Good'
<1>1. TypeOK'
  <2>1. /\ r.capacity \in 0 .. SIZE_MAX /\ r.array \in Seq(Cell)
        /\ Len(r.array) < WrapAt /\ r.block \in BlockState
    BY ResizedTypes DEF Good
  <2> QED
    BY <2>1 DEF Good, TypeOK, Become, Marked, Cell, BlockState
<1>2. ASSUME misused' = {} PROVE Fits'
  <2>1. Fits /\ n \in 1 .. WrapAt - 1 /\ TypeOK
    BY <1>2 DEF Good
  <2>2. /\ Len(r.array) = r.capacity /\ r.block # "freed"
        /\ size =< Len(r.array) /\ \A i \in 1 .. size : r.array[i] = array[i]
    BY <2>1, ResizedFits
  <2> QED
    BY <2>1, <2>2 DEF Fits, Become
<1> QED
  BY <1>1, <1>2 DEF Good

\* Positions and last positions are naturals.
LEMMA PositionFacts ==
  /\ \A pos \in Position : pos \in Nat /\ pos =< SIZE_MAX
  /\ TypeOK => LastPos \in Nat /\ size \in Nat
BY WidthAssumption DEF Position, LastPos, TypeOK
-----------------------------------------------------------------------------
(* Operations that only read *)

\* Reading one cell goes wrong in no good list.
LEMMA ReadCellSafe ==
  ASSUME Good, NEW op, NEW pos \in Nat, ReadCell(op, pos)
  PROVE  Good' /\ FaultsOnlyWhenFull'
<1>1. Marked /\ UNCHANGED misused
  BY DEF ReadCell, Marked, Good, TypeOK
<1>2. ASSUME pos < size, ~Has(pos) PROVE misused # {}
  BY <1>2, WidthAssumption, LenProperties DEF Has, Good, Fits, TypeOK
<1>3. ASSUME NEW r, Return(op, r) PROVE Good' /\ FaultsOnlyWhenFull'
  BY <1>1, <1>3, ReturnSafe
<1>4. CASE pos < size /\ ~Has(pos) /\ Crash(op)
  BY <1>1, <1>2, <1>4, CrashSafe
<1> QED
  BY <1>3, <1>4 DEF ReadCell

\* So does handing every cell in use to a callback.
LEMMA IterSafe ==
  ASSUME Good, Iter
  PROVE  Good' /\ FaultsOnlyWhenFull'
<1>1. Marked /\ UNCHANGED misused
  BY DEF Iter, Marked, Good, TypeOK
<1>2. CASE size > Len(array) /\ Crash("forward_iter")
  <2>1. misused # {}
    BY <1>2, WidthAssumption, LenProperties DEF Good, Fits, TypeOK
  <2> QED
    BY <1>1, <1>2, <2>1, CrashSafe
<1>3. CASE Return("forward_iter", SubSeq(array, 1, size))
  BY <1>1, <1>3, ReturnSafe
<1> QED
  BY <1>2, <1>3 DEF Iter

\* And the linear search.
LEMMA SearchableGood ==
  ASSUME Good, NEW v, ~Searchable(v)
  PROVE  misused # {}
BY WidthAssumption, LenProperties DEF Good, Fits, TypeOK, Searchable

LEMMA SearchSafe ==
  ASSUME Good, NEW v, Search(v)
  PROVE  Good' /\ FaultsOnlyWhenFull'
<1>1. Marked /\ UNCHANGED misused
  BY DEF Search, Marked, Good, TypeOK
<1>2. CASE ~Searchable(v) /\ Crash("index_of")
  BY <1>1, <1>2, SearchableGood, CrashSafe
<1>3. CASE Return("index_of", IndexOf(v))
  BY <1>1, <1>3, ReturnSafe
<1> QED
  BY <1>2, <1>3 DEF Search
-----------------------------------------------------------------------------
(* Operations that change the list *)

\* Deleting a value moves those after it into its cell and the next ones.
LEMMA DelAtPosSafe ==
  ASSUME Good, NEW op, NEW pos \in Nat, DelAtPos(op, pos)
  PROVE  Good' /\ FaultsOnlyWhenFull'
<1>1. Marked /\ UNCHANGED misused
  BY DEF DelAtPos, Marked, Good, TypeOK
<1>2. CASE Return(op, NULL)
  BY <1>1, <1>2, ReturnSafe
<1>3. CASE pos < size /\ ~Has(size - 1) /\ Crash(op)
  <2>1. misused # {}
    BY <1>3, WidthAssumption, LenProperties DEF Has, Good, Fits, TypeOK
  <2> QED
    BY <1>1, <1>3, <2>1, CrashSafe
<1>4. CASE /\ pos < size /\ Has(size - 1)
           /\ size' = size - 1 /\ array' = ShiftedLeft(pos)
           /\ UNCHANGED <<capacity, block>>
           /\ Answer(op, array[pos + 1])
  <2>1. PICK n \in Nat : n = Len(array) /\ array \in Seq(Cell) /\ n < WrapAt
    BY LenProperties DEF Good, TypeOK, Cell
  <2>2. DOMAIN array = 1 .. n /\ \A i \in 1 .. n : array[i] \in Cell
    BY <2>1, LenProperties
  <2>3. size \in Nat /\ size =< n /\ size >= 1 /\ size =< SIZE_MAX
    BY <1>4, <2>1, WidthAssumption DEF Has, Good, TypeOK
  <2>4. array' = [i \in 1 .. n |->
                    IF i \in pos + 1 .. size - 1 THEN array[i + 1] ELSE array[i]]
    BY <1>4, <2>2 DEF ShiftedLeft
  <2>5. \A i \in pos + 1 .. size - 1 : i + 1 \in 1 .. n
    BY <2>3
  <2>6. array' \in [1 .. n -> Cell]
    BY <2>2, <2>4, <2>5
  <2>7. array' \in Seq(Cell) /\ Len(array') = n
    BY <2>1, <2>6, MakeSeq
  <2>8. FaultsOnlyWhenFull' /\ fault' \in BOOLEAN
    BY <1>4, AnswerSafe DEF Good
  <2>9. TypeOK'
    <3>1. size' \in 0 .. SIZE_MAX
      BY <1>4, <2>3, WidthAssumption
    <3> QED
      BY <1>1, <1>4, <2>1, <2>7, <2>8, <3>1 DEF TypeOK, Good, Cell
  <2>10. ASSUME misused' = {} PROVE Fits'
    <3>1. Fits
      BY <1>1, <2>10 DEF Good
    <3>2. ASSUME NEW i \in 1 .. size' PROVE array'[i] # JUNK
      <4>1. i \in 1 .. n /\ i \in 1 .. size /\ i + 1 \in 1 .. size
        BY <1>4, <2>3
      <4> QED
        BY <2>4, <3>1, <4>1 DEF Fits
    <3>3. size' =< n
      BY <1>4, <2>3
    <3> QED
      BY <1>4, <2>1, <2>7, <3>1, <3>2, <3>3 DEF Fits
  <2> QED
    BY <2>8, <2>9, <2>10 DEF Good
<1> QED
  BY <1>1, <1>2, <1>3, <1>4 DEF DelAtPos

\* del_value deletes at the position its search answers with.
LEMMA DelValueSafe ==
  ASSUME Good, NEW v, DelValue(v)
  PROVE  Good' /\ FaultsOnlyWhenFull'
<1>1. CASE ~Searchable(v) /\ Crash("del_value") /\ UNCHANGED misused
  <2>1. Marked
    BY <1>1 DEF Marked, Good, TypeOK
  <2> QED
    BY <1>1, <2>1, SearchableGood, CrashSafe
<1>2. CASE DelAtPos("del_value", IndexOf(v))
  <2>1. Found(v) \in SUBSET Nat
    BY WidthAssumption DEF Found, Good, TypeOK
  <2>2. IndexOf(v) \in Nat
    <3>1. CASE Found(v) = {}
      BY <3>1, WidthAssumption DEF IndexOf
    <3>2. CASE Found(v) # {}
      BY <2>1, <3>2, LeastNatural DEF IndexOf, Min
    <3> QED
      BY <3>1, <3>2
  <2> QED
    BY <1>2, <2>2, DelAtPosSafe
<1> QED
  BY <1>1, <1>2 DEF DelValue

\* What shift_right works on: the block as it was, or one grown to pos + 1.
LEMMA RoomFacts ==
  ASSUME Good, NEW pos \in Nat, pos =< size, size \in 1 .. MaxSize - 1,
         NEW r \in IF NeedsRoom(pos) THEN Resized(Room(pos)) ELSE {Same(TRUE)}
  PROVE  /\ r.ok \in BOOLEAN /\ r.capacity \in 0 .. SIZE_MAX
         /\ r.array \in Seq(Cell) /\ Len(r.array) < WrapAt
         /\ r.block \in BlockState
         /\ misused = {} =>
              /\ Len(r.array) = r.capacity /\ r.block # "freed"
              /\ size =< Len(r.array)
              /\ \A i \in 1 .. size : r.array[i] = array[i]
              /\ r.ok /\ NeedsRoom(pos) => r.capacity = pos + 1
<1>1. Room(pos) \in 0 .. SIZE_MAX /\ Room(pos) \in 1 .. WrapAt - 1
  BY WidthAssumption DEF Room
<1>2. CASE NeedsRoom(pos)
  BY <1>1, <1>2, ResizedTypes, ResizedFits DEF Good, Room
<1>3. CASE ~NeedsRoom(pos)
  <2>1. r.ok = TRUE /\ r.capacity = capacity /\ r.array = array /\ r.block = block
    BY <1>3 DEF Same, Outcome
  <2>2. /\ array \in Seq(Cell) /\ Len(array) < WrapAt /\ capacity \in 0 .. SIZE_MAX
        /\ block \in BlockState
    BY DEF Good, TypeOK, Cell, BlockState
  <2> QED
    BY <1>3, <2>1, <2>2 DEF Good, Fits
<1> QED
  BY <1>2, <1>3

\* Inserting a value moves those from its cell on into the next ones; it goes
\* wrong in a good list only when that takes one cell more than there are.
LEMMA InsertAtPosSafe ==
  ASSUME Good, NEW op, NEW v \in Value, NEW pos \in Nat, InsertAtPos(op, v, pos),
         pos < size => op \in {"push_head", "insert_at"}
  PROVE  Good' /\ FaultsOnlyWhenFull'
<1>1. Marked /\ UNCHANGED misused
  BY DEF InsertAtPos, Marked, Good, TypeOK
<1>2. size \in Nat /\ capacity \in Nat /\ array \in Seq(Cell) /\ Len(array) \in Nat
      /\ Len(array) < WrapAt
  BY WidthAssumption, LenProperties DEF Good, TypeOK, Cell
<1>3. CASE Return(op, FALSE)
  BY <1>1, <1>3, ReturnSafe
<1>4. CASE size = 0 /\ pos = 0 /\ ~Has(0) /\ Crash(op)
  <2>1. Len(array) = 0
    BY <1>2, <1>4 DEF Has
  <2>2. misused' = {} => capacity = 0
    BY <1>1, <2>1 DEF Good, Fits
  <2> QED
    BY <1>1, <1>4, <2>2, CrashSafe
<1>5. CASE /\ size = 0 /\ pos = 0 /\ Has(0)
           /\ array' = [array EXCEPT ![1] = v] /\ size' = 1
           /\ UNCHANGED <<capacity, block>> /\ Answer(op, TRUE)
  <2>1. Len(array) >= 1
    BY <1>2, <1>5 DEF Has
  <2>2. array' \in Seq(Cell) /\ Len(array') = Len(array) /\ array'[1] = v
    BY <1>2, <1>5, <2>1, ExceptSeq DEF Cell
  <2>3. FaultsOnlyWhenFull' /\ fault' \in BOOLEAN
    BY <1>5, AnswerSafe DEF Good
  <2>4. TypeOK'
    BY <1>1, <1>2, <1>5, <2>2, <2>3, WidthAssumption DEF Good, TypeOK, Cell
  <2>5. misused' = {} => Fits'
    BY <1>1, <1>2, <1>5, <2>1, <2>2, CellAssumption DEF Good, Fits
  <2> QED
    BY <2>3, <2>4, <2>5 DEF Good
<1>6. ASSUME pos =< size, size \in 1 .. MaxSize - 1
      PROVE  Room(pos) \in 0 .. SIZE_MAX /\ Room(pos) \in 1 .. WrapAt - 1
  BY <1>6, WidthAssumption DEF Room
<1>7. CASE /\ pos =< size /\ size \in 1 .. MaxSize - 1
           /\ ReallocsFreed(Room(pos)) /\ Crash(op)
  <2>1. misused # {}
    BY <1>7 DEF ReallocsFreed, Good, Fits
  <2> QED
    BY <1>1, <1>7, <2>1, CrashSafe
<1>8. ASSUME pos =< size, size \in 1 .. MaxSize - 1,
             NEW r \in IF NeedsRoom(pos) THEN Resized(Room(pos)) ELSE {Same(TRUE)},
             \/ ~r.ok /\ Become(r) /\ Answer(op, FALSE) /\ UNCHANGED size
             \/ r.ok /\ size + 1 > Len(r.array) /\ Crash(op)
             \/ /\ r.ok /\ size + 1 =< Len(r.array)
                /\ Become([r EXCEPT !.array =
                             [ShiftedRight(@, pos) EXCEPT ![pos + 1] = v]])
                /\ size' = size + 1
                /\ Answer(op, TRUE)
      PROVE  Good' /\ FaultsOnlyWhenFull'
  <2>1. /\ r.ok \in BOOLEAN /\ r.capacity \in 0 .. SIZE_MAX
        /\ r.array \in Seq(Cell) /\ Len(r.array) < WrapAt
        /\ r.block \in BlockState
    BY <1>8, RoomFacts
  <2>2. misused = {} =>
          /\ Len(r.array) = r.capacity /\ r.block # "freed"
          /\ size =< Len(r.array)
          /\ \A i \in 1 .. size : r.array[i] = array[i]
          /\ r.ok /\ NeedsRoom(pos) => r.capacity = pos + 1
    BY <1>8, RoomFacts
  <2>3. PICK n \in Nat : n = Len(r.array)
    BY <2>1, LenProperties
  <2>4. CASE ~r.ok /\ Become(r) /\ Answer(op, FALSE) /\ UNCHANGED size
    <3>1. FaultsOnlyWhenFull' /\ fault' \in BOOLEAN
      BY <2>4, AnswerSafe DEF Good
    <3>2. TypeOK'
      BY <1>1, <2>1, <2>4, <3>1 DEF Good, TypeOK, Become, Cell, BlockState
    <3>3. misused' = {} => Fits'
      BY <1>1, <2>2, <2>4 DEF Good, Fits, Become
    <3> QED
      BY <3>1, <3>2, <3>3 DEF Good
  <2>5. CASE r.ok /\ size + 1 > Len(r.array) /\ Crash(op)
    <3>1. ASSUME misused' = {} PROVE size = capacity /\ op \in {"push_head", "insert_at"}
      <4>1. misused = {} /\ Len(array) = capacity /\ size =< capacity
        BY <1>1, <3>1 DEF Good, Fits
      <4>2. n = r.capacity /\ size = n
        BY <1>2, <2>2, <2>3, <2>5, <4>1
      <4>3. CASE NeedsRoom(pos)
        <5>1. size = pos + 1 /\ pos + 1 >= capacity
          BY <2>2, <2>5, <4>1, <4>2, <4>3 DEF NeedsRoom
        <5>2. size = capacity /\ pos < size
          BY <1>2, <4>1, <5>1
        <5> QED
          BY <5>2
      <4>4. CASE ~NeedsRoom(pos)
        <5>1. r.capacity = capacity /\ pos + 1 < capacity
          BY <1>2, <1>8, <4>4 DEF NeedsRoom, Same, Outcome
        <5>2. size = capacity /\ pos < size
          BY <1>2, <4>2, <5>1
        <5> QED
          BY <5>2
      <4> QED
        BY <4>3, <4>4
    <3> QED
      BY <1>1, <2>5, <3>1, CrashSafe
  <2>6. ASSUME r.ok, size + 1 =< Len(r.array),
               Become([r EXCEPT !.array =
                         [ShiftedRight(@, pos) EXCEPT ![pos + 1] = v]]),
               size' = size + 1, Answer(op, TRUE)
        PROVE  Good' /\ FaultsOnlyWhenFull'
    <3> DEFINE a == r.array
    <3>1. /\ capacity' = r.capacity /\ block' = r.block
          /\ array' = [ShiftedRight(a, pos) EXCEPT ![pos + 1] = v]
      BY <1>8, <2>6 DEF Become, Resized, AllocArray, Same, Outcome
    <3> HIDE DEF a
    <3>2. a \in Seq(Cell) /\ DOMAIN a = 1 .. n /\ \A i \in 1 .. n : a[i] \in Cell
      BY <2>1, <2>3, LenProperties DEF a
    <3>3. size + 1 =< n /\ pos + 1 \in 1 .. n
      BY <1>2, <1>8, <2>3, <2>6
    <3>4. array' = [i \in 1 .. n |->
                      IF i = pos + 1 THEN v
                      ELSE IF i \in pos + 2 .. size + 1 THEN a[i - 1] ELSE a[i]]
      BY <3>1, <3>2 DEF ShiftedRight
    <3>5. \A i \in pos + 2 .. size + 1 : i - 1 \in 1 .. n
      BY <1>2, <3>3
    <3>6. array' \in [1 .. n -> Cell]
      BY <3>2, <3>4, <3>5 DEF Cell
    <3>7. array' \in Seq(Cell) /\ Len(array') = n
      BY <3>6, MakeSeq
    <3>8. FaultsOnlyWhenFull' /\ fault' \in BOOLEAN
      BY <2>6, AnswerSafe DEF Good
    <3>9. TypeOK'
      <4>1. size' \in 0 .. SIZE_MAX
        BY <1>2, <1>8, <2>6, WidthAssumption
      <4> QED
        BY <1>1, <2>1, <2>3, <3>1, <3>7, <3>8, <4>1, SMTT(30) DEF Good, TypeOK, Cell, BlockState
    <3>10. ASSUME misused' = {} PROVE Fits'
      <4>1. /\ n = r.capacity /\ r.block # "freed"
            /\ \A i \in 1 .. size : a[i] # JUNK
        BY <1>1, <2>2, <2>3, <3>10 DEF a, Good, Fits
      <4>2. ASSUME NEW i \in 1 .. size' PROVE array'[i] # JUNK
        <5>1. i \in 1 .. n /\ i \in 1 .. size + 1
          BY <1>2, <2>6, <3>3
        <5>2. CASE i = pos + 1
          BY <3>4, <5>1, <5>2, CellAssumption
        <5>3. CASE i \in pos + 2 .. size + 1
          <6>1. i - 1 \in 1 .. size
            BY <1>2, <5>3
          <6> QED
            BY <3>4, <4>1, <5>1, <5>3, <6>1
        <5>4. CASE i # pos + 1 /\ i \notin pos + 2 .. size + 1
          <6>1. i \in 1 .. size
            BY <1>2, <1>8, <5>1, <5>4
          <6> QED
            BY <3>4, <4>1, <5>1, <5>4, <6>1
        <5> QED
          BY <5>2, <5>3, <5>4
      <4>3. size' =< n
        BY <2>6, <3>3
      <4> QED
        BY <3>1, <3>7, <4>1, <4>2, <4>3 DEF Fits
    <3> QED
      BY <3>8, <3>9, <3>10 DEF Good
  <2> QED
    BY <1>8, <2>4, <2>5, <2>6
<1> QED
  BY <1>3, <1>4, <1>5, <1>7, <1>8 DEF InsertAtPos

\* pos + 1 is exact except for the greatest size_t.
LEMMA SuccFacts ==
  ASSUME NEW pos \in Position
  PROVE  /\ Succ(pos) \in 0 .. SIZE_MAX
         /\ Succ(pos) # 0 => Succ(pos) = pos + 1
<1>1. CASE pos = SIZE_MAX
  BY <1>1, WidthAssumption DEF Succ
<1>2. CASE pos \in 0 .. MaxPos
  <2>1. pos + 1 \in 1 .. SIZE_MAX
    BY <1>2, WidthAssumption
  <2>2. (pos + 1) % (SIZE_MAX + 1) = pos + 1
    BY <2>1, WidthAssumption
  <2> QED
    BY <2>1, <2>2, WidthAssumption DEF Succ
<1> QED
  BY <1>1, <1>2 DEF Position

\* Storing a value past the end of the list fills the cells before it.
LEMMA FilledFacts ==
  ASSUME NEW cells \in Seq(Cell), NEW pos \in Nat, pos < Len(cells),
         NEW v \in Value, size \in Nat
  PROVE  /\ Filled(cells, pos, v) \in Seq(Cell)
         /\ Len(Filled(cells, pos, v)) = Len(cells)
         /\ \A i \in 1 .. Len(cells) :
              \/ Filled(cells, pos, v)[i] # JUNK
              \/ i # pos + 1 /\ i \notin size + 1 .. pos
                 /\ Filled(cells, pos, v)[i] = cells[i]
<1>1. PICK n \in Nat : n = Len(cells)
  BY LenProperties
<1>2. DOMAIN cells = 1 .. n /\ \A i \in 1 .. n : cells[i] \in Cell
  BY <1>1, LenProperties
<1>3. Filled(cells, pos, v) =
        [i \in 1 .. n |-> IF i = pos + 1 THEN v
                          ELSE IF i \in size + 1 .. pos THEN NULL ELSE cells[i]]
  BY <1>2 DEF Filled
<1>4. Filled(cells, pos, v) \in [1 .. n -> Cell]
  BY <1>2, <1>3 DEF Cell
<1>5. Filled(cells, pos, v) \in Seq(Cell) /\ Len(Filled(cells, pos, v)) = n
  BY <1>4, MakeSeq
<1>6. v # JUNK /\ NULL # JUNK
  BY CellAssumption
<1> QED
  BY <1>1, <1>3, <1>5, <1>6

\* Storing a value in a good list goes wrong in no way.
LEMMA SetAtSafe ==
  ASSUME Good, NEW pos \in Position, NEW v \in Value, SetAt(pos, v)
  PROVE  Good' /\ FaultsOnlyWhenFull'
<1> DEFINE grows == pos >= size /\ pos >= capacity
<1>1. pos \in Nat /\ pos =< SIZE_MAX /\ size \in Nat /\ capacity \in Nat
  BY PositionFacts, WidthAssumption DEF Good, TypeOK
<1>2. Succ(pos) \in 0 .. SIZE_MAX /\ Succ(pos) \in Nat
      /\ (Succ(pos) # 0 => Succ(pos) = pos + 1)
  BY SuccFacts, WidthAssumption
<1>3. /\ Marked
      /\ misused' = {} =>
           misused = {} /\ (grows => Succ(pos) \in 1 .. WrapAt - 1 /\ Succ(pos) = pos + 1)
  <2>1. CASE grows
    <3>1. Requests(Succ(pos))
      BY <2>1 DEF SetAt
    <3> QED
      BY <1>2, <3>1, RequestsFacts, WidthAssumption DEF Good
  <2>2. CASE ~grows
    <3>1. UNCHANGED misused
      BY <2>2 DEF SetAt
    <3> QED
      BY <2>2, <3>1 DEF Marked, Good, TypeOK
  <2> QED
    BY <2>1, <2>2
<1>4. CASE grows /\ ReallocsFreed(Succ(pos)) /\ Crash("set_at")
  <2>1. misused # {}
    BY <1>4 DEF ReallocsFreed, Good, Fits
  <2>2. misused' # {}
    BY <1>3, <2>1
  <2> QED
    BY <1>3, <1>4, <2>2, CrashSafe
<1>5. ASSUME NEW r \in IF grows THEN Resized(Succ(pos)) ELSE {Same(TRUE)},
             \/ ~r.ok /\ Become(r) /\ Answer("set_at", FALSE) /\ UNCHANGED size
             \/ r.ok /\ pos >= Len(r.array) /\ Crash("set_at")
             \/ /\ r.ok /\ pos < Len(r.array)
                /\ Become([r EXCEPT !.array = Filled(@, pos, v)])
                /\ size' = IF pos < size THEN size ELSE pos + 1
                /\ Answer("set_at", TRUE)
      PROVE  Good' /\ FaultsOnlyWhenFull'
  <2>1. /\ r.ok \in BOOLEAN /\ r.capacity \in 0 .. SIZE_MAX
        /\ r.array \in Seq(Cell) /\ Len(r.array) < WrapAt
        /\ r.block \in BlockState
    <3>1. CASE grows
      BY <1>2, <1>5, <3>1, ResizedTypes DEF Good
    <3>2. CASE ~grows
      <4>1. r.ok = TRUE /\ r.capacity = capacity /\ r.array = array /\ r.block = block
        BY <1>5, <3>2 DEF Same, Outcome
      <4> QED
        BY <4>1 DEF Good, TypeOK, Cell, BlockState
    <3> QED
      BY <3>1, <3>2
  <2>2. ASSUME misused' = {}
        PROVE  /\ Len(r.array) = r.capacity /\ r.block # "freed"
               /\ size =< Len(r.array)
               /\ \A i \in 1 .. size : r.array[i] = array[i] /\ array[i] # JUNK
               /\ r.ok => pos < Len(r.array)
    <3>0. misused = {} /\ Fits /\ TypeOK
      BY <1>3, <2>2 DEF Good
    <3>1. CASE grows
      <4>1. Succ(pos) \in 1 .. WrapAt - 1 /\ Succ(pos) = pos + 1
        BY <1>3, <2>2, <3>1
      <4>2. /\ Len(r.array) = r.capacity /\ r.block # "freed"
            /\ size =< Len(r.array)
            /\ \A i \in 1 .. size : r.array[i] = array[i]
            /\ r.ok => r.capacity = pos + 1
        BY <1>5, <3>0, <3>1, <4>1, ResizedFits
      <4> QED
        BY <1>1, <3>0, <4>2 DEF Fits
    <3>2. CASE ~grows
      <4>1. r.ok = TRUE /\ r.capacity = capacity /\ r.array = array /\ r.block = block
        BY <1>5, <3>2 DEF Same, Outcome
      <4>2. pos < Len(array)
        BY <1>1, <3>0, <3>2 DEF Fits
      <4> QED
        BY <3>0, <4>1, <4>2 DEF Fits
    <3> QED
      BY <3>1, <3>2
  <2>3. CASE ~r.ok /\ Become(r) /\ Answer("set_at", FALSE) /\ UNCHANGED size
    <3>1. FaultsOnlyWhenFull' /\ fault' \in BOOLEAN
      BY <2>3, AnswerSafe DEF Good
    <3>2. TypeOK'
      BY <1>3, <2>1, <2>3, <3>1 DEF Good, TypeOK, Become, Marked, Cell, BlockState
    <3>3. misused' = {} => Fits'
      BY <2>2, <2>3 DEF Fits, Become
    <3> QED
      BY <3>1, <3>2, <3>3 DEF Good
  <2>4. CASE r.ok /\ pos >= Len(r.array) /\ Crash("set_at")
    <3>1. Len(r.array) \in Nat
      BY <2>1, LenProperties
    <3>2. misused' # {}
      BY <1>1, <2>2, <2>4, <3>1
    <3> QED
      BY <1>3, <2>4, <3>2, CrashSafe
  <2>5. ASSUME r.ok, pos < Len(r.array),
               Become([r EXCEPT !.array = Filled(@, pos, v)]),
               size' = IF pos < size THEN size ELSE pos + 1,
               Answer("set_at", TRUE)
        PROVE  Good' /\ FaultsOnlyWhenFull'
    <3> DEFINE a == r.array
    <3>1. /\ capacity' = r.capacity /\ block' = r.block
          /\ array' = Filled(a, pos, v)
      BY <1>5, <2>5 DEF Become, Resized, AllocArray, Same, Outcome
    <3> HIDE DEF a
    <3>2. a \in Seq(Cell) /\ Len(a) \in Nat /\ pos < Len(a) /\ Len(a) < WrapAt
      BY <2>1, <2>5, LenProperties DEF a
    <3>3. /\ array' \in Seq(Cell) /\ Len(array') = Len(a)
          /\ \A i \in 1 .. Len(a) :
               \/ array'[i] # JUNK
               \/ i # pos + 1 /\ i \notin size + 1 .. pos /\ array'[i] = a[i]
      BY <1>1, <3>1, <3>2, FilledFacts
    <3>4. FaultsOnlyWhenFull' /\ fault' \in BOOLEAN
      BY <2>5, AnswerSafe DEF Good
    <3>5. TypeOK'
      <4>1. size' \in 0 .. SIZE_MAX
        BY <1>1, <2>5, <3>2, WidthAssumption DEF Good, TypeOK
      <4> QED
        BY <1>3, <2>1, <3>1, <3>2, <3>3, <3>4, <4>1
           DEF Good, TypeOK, Marked, Cell, BlockState
    <3>6. ASSUME misused' = {} PROVE Fits'
      <4>1. /\ Len(a) = r.capacity /\ r.block # "freed" /\ size =< Len(a)
            /\ \A i \in 1 .. size : a[i] # JUNK
        BY <2>2, <3>6 DEF a
      <4>2. size' =< Len(a)
        BY <1>1, <2>5, <3>2, <4>1
      <4>3. ASSUME NEW i \in 1 .. size', i # pos + 1, i \notin size + 1 .. pos
            PROVE  i \in 1 .. size
        BY <1>1, <2>5, <4>3
      <4>4. ASSUME NEW i \in 1 .. size' PROVE array'[i] # JUNK
        <5>1. i \in 1 .. Len(a)
          BY <1>1, <2>5, <3>2, <4>2
        <5> QED
          BY <3>3, <4>1, <4>3, <4>4, <5>1
      <4> QED
        BY <3>1, <3>3, <4>1, <4>2, <4>4 DEF Fits
    <3> QED
      BY <3>4, <3>5, <3>6 DEF Good
  <2> QED
    BY <1>5, <2>3, <2>4, <2>5
<1> QED
  BY <1>4, <1>5 DEF SetAt

\* A resize asked for by the client keeps the list good.
LEMMA ResizeSafe ==
  ASSUME Good, NEW n \in 0 .. SIZE_MAX, Resize(n)
  PROVE  Good' /\ FaultsOnlyWhenFull'
<1>1. n \in Nat /\ Requests(n)
  BY WidthAssumption DEF Resize
<1>2. Marked /\ (misused' = {} => misused = {} /\ n \in 1 .. WrapAt - 1)
  BY <1>1, RequestsFacts DEF Good
<1>3. CASE ReallocsFreed(n) /\ Crash("resize")
  <2>1. misused' # {}
    BY <1>2, <1>3 DEF ReallocsFreed, Good, Fits
  <2> QED
    BY <1>2, <1>3, <2>1, CrashSafe
<1>4. ASSUME NEW r \in Resized(n),
             Become(r), Answer("resize", r.ok), UNCHANGED size
      PROVE  Good' /\ FaultsOnlyWhenFull'
  <2>1. FaultsOnlyWhenFull' /\ fault' \in BOOLEAN
    BY <1>4, AnswerSafe DEF Good
  <2> QED
    BY <1>2, <1>4, <2>1, BecomeGood
<1> QED
  BY <1>3, <1>4 DEF Resize

\* A new list is good, whether its block was granted or not.
LEMMA SetupSafe ==
  ASSUME Good, NEW n \in 0 .. SIZE_MAX, Setup(n)
  PROVE  Good' /\ FaultsOnlyWhenFull'
<1>1. n \in Nat /\ 0 \in 0 .. SIZE_MAX
  BY WidthAssumption
<1>2. FaultsOnlyWhenFull' /\ fault' \in BOOLEAN
  BY AnswerSafe DEF Good, Setup
<1>3. CASE /\ array' = [i \in 1 .. Slots(n) |-> NULL] /\ block' = "live"
           /\ Requests(n)
  <2>1. Marked /\ (misused' = {} => misused = {} /\ n \in 1 .. WrapAt - 1)
    BY <1>1, <1>3, RequestsFacts DEF Good
  <2>2. Slots(n) \in Nat /\ Slots(n) < WrapAt /\ (n < WrapAt => Slots(n) = n)
    BY <1>1, SlotsFacts
  <2>3. array' \in [1 .. Slots(n) -> Cell]
    BY <1>3 DEF Cell
  <2>4. array' \in Seq(Cell) /\ Len(array') = Slots(n)
    BY <2>2, <2>3, MakeSeq
  <2>5. TypeOK'
    BY <1>1, <1>2, <1>3, <2>1, <2>2, <2>4 DEF Setup, TypeOK, Marked, Cell
  <2>6. misused' = {} => Fits'
    BY <1>1, <1>3, <2>1, <2>2, <2>4, WidthAssumption DEF Setup, Fits
  <2> QED
    BY <1>2, <2>5, <2>6 DEF Good
<1>4. CASE /\ array' = <<>> /\ block' = "null"
           /\ misused' = misused \cup {"failed_init"}
  <2>1. misused' # {} /\ misused' \in SUBSET Misuse
    BY <1>4 DEF Good, TypeOK, Misuse
  <2>2. array' \in Seq(Cell) /\ Len(array') = 0
    BY <1>4
  <2>3. TypeOK'
    BY <1>1, <1>2, <1>4, <2>1, <2>2, WidthAssumption DEF Setup, TypeOK, Cell
  <2> QED
    BY <1>2, <2>1, <2>3 DEF Good
<1> QED
  BY <1>3, <1>4 DEF Setup

\* A destroyed list is a good one without cells.
LEMMA EmptyGood ==
  ASSUME EmptyList, fault \in BOOLEAN, misused = {}
  PROVE  Good
<1>1. array \in Seq(Cell) /\ Len(array) = 0
  BY DEF EmptyList
<1>2. TypeOK
  BY <1>1, WidthAssumption DEF EmptyList, TypeOK, Cell
<1>3. Fits
  BY <1>1 DEF EmptyList, Fits
<1> QED
  BY <1>2, <1>3 DEF Good

LEMMA DestroySafe ==
  ASSUME Good, Destroy
  PROVE  Good' /\ FaultsOnlyWhenFull'
<1>1. CASE block = "freed" /\ Crash("destroy") /\ UNCHANGED misused
  <2>1. misused' # {} /\ Marked
    BY <1>1 DEF Good, Fits, Marked, TypeOK
  <2> QED
    BY <1>1, <2>1, CrashSafe
<1>2. CASE /\ size' = 0 /\ capacity' = 0 /\ array' = <<>> /\ block' = "null"
           /\ misused' = {} /\ Answer("destroy", TRUE)
  <2>1. FaultsOnlyWhenFull' /\ fault' \in BOOLEAN
    BY <1>2, AnswerSafe DEF Good
  <2>2. array' \in Seq(Cell) /\ Len(array') = 0
    BY <1>2
  <2>3. TypeOK'
    BY <1>2, <2>1, <2>2, WidthAssumption DEF TypeOK, Cell
  <2>4. Fits'
    BY <1>2, <2>2 DEF Fits
  <2> QED
    BY <2>1, <2>3, <2>4 DEF Good
<1> QED
  BY <1>1, <1>2 DEF Destroy
-----------------------------------------------------------------------------
(* The invariant, and what follows from it *)

Safe == Good /\ FaultsOnlyWhenFull

LEMMA InitSafe == Init => Safe
<1> SUFFICES ASSUME Init PROVE Safe
  OBVIOUS
<1>1. Good
  BY EmptyGood DEF Init
<1>2. FaultsOnlyWhenFull
  BY DEF Init, FaultsOnlyWhenFull
<1> QED
  BY <1>1, <1>2 DEF Safe

\* Good is kept by every operation.
LEMMA NextSafe ==
  ASSUME Good, Next
  PROVE  Good' /\ FaultsOnlyWhenFull'
<1>1. ASSUME NEW n \in Capacity, Setup(n) \/ Resize(n)
      PROVE  Good' /\ FaultsOnlyWhenFull'
  <2>1. n \in 0 .. SIZE_MAX
    BY WidthAssumption
  <2> QED
    BY <1>1, <2>1, SetupSafe, ResizeSafe
<1>2. 0 \in Nat /\ size \in Nat /\ LastPos \in Nat /\ Position \subseteq Nat
  BY PositionFacts DEF Good
<1>3. ASSUME NEW v \in Value, PushHead(v)
      PROVE  Good' /\ FaultsOnlyWhenFull'
  BY <1>2, <1>3, InsertAtPosSafe DEF PushHead
<1>4. ASSUME NEW v \in Value, PushTail(v)
      PROVE  Good' /\ FaultsOnlyWhenFull'
  <2>1. ~(size < size)
    BY <1>2
  <2> QED
    BY <1>2, <1>4, <2>1, InsertAtPosSafe DEF PushTail
<1>5. ASSUME NEW v \in Value, Search(v) \/ DelValue(v)
      PROVE  Good' /\ FaultsOnlyWhenFull'
  BY <1>5, SearchSafe, DelValueSafe
<1>6. ASSUME NEW v \in Value, NEW pos \in Position, InsertValue(v, pos)
      PROVE  Good' /\ FaultsOnlyWhenFull'
  BY <1>2, <1>6, InsertAtPosSafe DEF InsertValue
<1>7. ASSUME NEW v \in Value, NEW pos \in Position, SetAt(pos, v)
      PROVE  Good' /\ FaultsOnlyWhenFull'
  BY <1>7, SetAtSafe
<1>8. ASSUME NEW pos \in Position, GetAt(pos) \/ DelAt(pos)
      PROVE  Good' /\ FaultsOnlyWhenFull'
  <2>1. pos \in Nat
    BY <1>2
  <2> QED
    BY <1>8, <2>1, ReadCellSafe, DelAtPosSafe DEF GetAt, DelAt
<1>9. CASE HeadValue \/ TailValue
  BY <1>2, <1>9, ReadCellSafe DEF HeadValue, TailValue
<1>10. CASE PopHead \/ PopTail
  BY <1>2, <1>10, DelAtPosSafe DEF PopHead, PopTail
<1>11. CASE Iter \/ Destroy
  BY <1>11, IterSafe, DestroySafe
<1> QED
  BY <1>1, <1>3, <1>4, <1>5, <1>6, <1>7, <1>8, <1>9, <1>10, <1>11 DEF Next

LEMMA SafeInductive == Safe /\ [Next]_vars => Safe'
<1> SUFFICES ASSUME Safe, [Next]_vars PROVE Safe'
  OBVIOUS
<1>1. CASE Next
  BY <1>1, NextSafe DEF Safe
<1>2. CASE UNCHANGED vars
  BY <1>2 DEF vars, Safe, Good, TypeOK, Fits, FaultsOnlyWhenFull
<1> QED
  BY <1>1, <1>2

LEMMA SafeAlways == Spec => []Safe
<1> QED
  BY InitSafe, SafeInductive, PTL DEF Spec

\* Size and capacity stay within a size_t, and the block within what a byte
\* count can ask for, for every width and every set of capacities.
THEOREM TypeCorrect == Spec => []TypeOK
<1>1. Safe => TypeOK
  BY DEF Safe, Good
<1> QED
  BY <1>1, SafeAlways, PTL

\* A client that asks for what a block can hold keeps one of capacity cells:
\* the roll-back of a failed resize (array_list.c:247) is enough for it.
THEOREM BlockFitsCorrect == Spec => []BlockFits
<1>1. Safe => BlockFits
  BY DEF Safe, Good, Fits, BlockFits
<1> QED
  BY <1>1, SafeAlways, PTL

\* Its values are inside the block, every one of them written: set_at fills
\* all the cells that growing the block left as they were.
THEOREM ValuesFitCorrect == Spec => []ValuesFit
<1>1. Safe => ValuesFit
  BY DEF Safe, Good, Fits, ValuesFit
<1> QED
  BY <1>1, SafeAlways, PTL

\* And no call of it leaves the block but the insertions shift_right
\* (array_list.c:92) makes no room for, and those into a list without cells.
THEOREM SafeUntilFull == Spec => []FaultsOnlyWhenFull
<1>1. Safe => FaultsOnlyWhenFull
  BY DEF Safe
<1> QED
  BY <1>1, SafeAlways, PTL
-----------------------------------------------------------------------------
(* ArrayList implements ListSpec *)

\* Without a block there are no cells, so that a list can be set up only empty.
Vacant == block = "null" => Len(array) = 0

LEMMA ResizedVacant ==
  ASSUME Vacant, NEW n, NEW r \in Resized(n), r.block = "null"
  PROVE  Len(r.array) = 0
<1>1. \/ r = Same(TRUE) \/ r = Same(FALSE)
      \/ r = Outcome(TRUE, n, Grown(n), "live")
      \/ r = Outcome(FALSE, capacity, <<>>, "freed")
  BY DEF Resized, AllocArray
<1>2. ASSUME NEW ok, NEW m, NEW cells, NEW state, r = Outcome(ok, m, cells, state)
      PROVE  state = "null"
  BY <1>2 DEF Outcome
<1>3. r # Outcome(TRUE, n, Grown(n), "live") /\ r # Outcome(FALSE, capacity, <<>>, "freed")
  BY <1>2
<1> QED
  BY <1>1, <1>3 DEF Same, Outcome, Vacant

LEMMA BecomeVacant ==
  ASSUME Vacant, NEW n, NEW r \in Resized(n) \cup {Same(TRUE)}, Become(r)
  PROVE  Vacant'
<1>1. r.block = "null" => Len(r.array) = 0
  <2>1. CASE r \in Resized(n)
    BY <2>1, ResizedVacant
  <2>2. CASE r = Same(TRUE)
    BY <2>2 DEF Same, Outcome, Vacant
  <2> QED
    BY <2>1, <2>2
<1> QED
  BY <1>1 DEF Become, Vacant

\* A block that has a cell is no null pointer.
LEMMA HasBlock ==
  ASSUME Vacant, NEW n, NEW r \in Resized(n) \cup {Same(TRUE)},
         Len(r.array) # 0
  PROVE  r.block # "null"
<1>1. r.block = "null" => Len(r.array) = 0
  <2>1. CASE r \in Resized(n)
    BY <2>1, ResizedVacant
  <2>2. CASE r = Same(TRUE)
    BY <2>2 DEF Same, Outcome, Vacant
  <2> QED
    BY <2>1, <2>2
<1> QED
  BY <1>1

LEMMA InsertVacant ==
  ASSUME Good, Vacant, NEW op, NEW v, NEW pos \in Nat, InsertAtPos(op, v, pos)
  PROVE  Vacant'
<1>1. CASE UNCHANGED list
  BY <1>1 DEF list, Vacant
<1>2. CASE Has(0) /\ UNCHANGED block
  BY <1>2 DEF Has, Vacant
<1>3. ASSUME size \in 1 .. MaxSize - 1,
             NEW r \in IF NeedsRoom(pos) THEN Resized(Room(pos)) ELSE {Same(TRUE)},
             \/ ~r.ok /\ Become(r) /\ Answer(op, FALSE) /\ UNCHANGED size
             \/ r.ok /\ size + 1 > Len(r.array) /\ Crash(op)
             \/ /\ r.ok /\ size + 1 =< Len(r.array)
                /\ Become([r EXCEPT !.array =
                             [ShiftedRight(@, pos) EXCEPT ![pos + 1] = v]])
      PROVE  Vacant'
  <2>1. r \in Resized(Room(pos)) \cup {Same(TRUE)}
    BY <1>3
  <2>2. CASE Become(r)
    BY <2>1, <2>2, BecomeVacant
  <2>3. CASE Crash(op)
    BY <1>1, <2>3 DEF Crash
  <2>4. CASE /\ size + 1 =< Len(r.array)
             /\ Become([r EXCEPT !.array =
                          [ShiftedRight(@, pos) EXCEPT ![pos + 1] = v]])
    <3>1. Len(r.array) # 0
      BY <1>3, <2>4, WidthAssumption
    <3>2. r.block # "null"
      BY <2>1, <2>4, <3>1, HasBlock
    <3>3. block' = r.block
      BY <2>1, <2>4 DEF Become, Resized, AllocArray, Same, Outcome
    <3> QED
      BY <3>2, <3>3 DEF Vacant
  <2> QED
    BY <1>3, <2>2, <2>3, <2>4
<1> QED
  BY <1>1, <1>2, <1>3 DEF InsertAtPos, Return, Crash

LEMMA SetAtVacant ==
  ASSUME Good, Vacant, NEW pos \in Position, NEW v \in Value, SetAt(pos, v)
  PROVE  Vacant'
<1> DEFINE grows == pos >= size /\ pos >= capacity
<1>1. CASE Crash("set_at")
  BY <1>1 DEF Crash, list, Vacant
<1>2. ASSUME NEW r \in IF grows THEN Resized(Succ(pos)) ELSE {Same(TRUE)},
             \/ Become(r)
             \/ /\ pos < Len(r.array)
                /\ Become([r EXCEPT !.array = Filled(@, pos, v)])
      PROVE  Vacant'
  <2>1. r \in Resized(Succ(pos)) \cup {Same(TRUE)}
    BY <1>2
  <2>2. CASE Become(r)
    BY <2>1, <2>2, BecomeVacant
  <2>3. CASE pos < Len(r.array) /\ Become([r EXCEPT !.array = Filled(@, pos, v)])
    <3>1. Len(r.array) # 0
      BY <2>3, PositionFacts
    <3>2. r.block # "null"
      BY <2>1, <3>1, HasBlock
    <3>3. block' = r.block
      BY <2>1, <2>3 DEF Become, Resized, AllocArray, Same, Outcome
    <3> QED
      BY <3>2, <3>3 DEF Vacant
  <2> QED
    BY <1>2, <2>2, <2>3
<1> QED
  BY <1>1, <1>2 DEF SetAt

LEMMA DelAtVacant ==
  ASSUME Good, Vacant, NEW op, NEW pos, DelAtPos(op, pos)
  PROVE  Vacant'
<1>1. CASE Return(op, NULL) \/ Crash(op)
  BY <1>1 DEF Return, Crash, list, Vacant
<1>2. CASE Has(size - 1) /\ block' = block
  BY <1>2 DEF Has, Vacant
<1> QED
  BY <1>1, <1>2 DEF DelAtPos

LEMMA NextVacant ==
  ASSUME Good, Vacant, Next
  PROVE  Vacant'
<1>1. 0 \in Nat /\ size \in Nat /\ LastPos \in Nat /\ Position \subseteq Nat
  BY PositionFacts DEF Good
<1>2. ASSUME NEW n \in Capacity, Setup(n) PROVE Vacant'
  BY <1>2 DEF Setup, Vacant
<1>3. ASSUME NEW n \in Capacity, Resize(n) PROVE Vacant'
  <2>1. CASE Crash("resize")
    BY <2>1 DEF Crash, list, Vacant
  <2>2. ASSUME NEW r \in Resized(n), Become(r) PROVE Vacant'
    BY <2>2, BecomeVacant
  <2> QED
    BY <1>3, <2>1, <2>2 DEF Resize
<1>4. ASSUME NEW v \in Value, PushHead(v) \/ PushTail(v) PROVE Vacant'
  BY <1>1, <1>4, InsertVacant DEF PushHead, PushTail
<1>5. ASSUME NEW v \in Value, NEW pos \in Position, InsertValue(v, pos) PROVE Vacant'
  BY <1>1, <1>5, InsertVacant DEF InsertValue
<1>6. ASSUME NEW v \in Value, NEW pos \in Position, SetAt(pos, v) PROVE Vacant'
  BY <1>6, SetAtVacant
<1>7. ASSUME NEW v \in Value, DelValue(v) PROVE Vacant'
  <2>1. CASE Crash("del_value")
    BY <2>1 DEF Crash, list, Vacant
  <2> QED
    BY <1>7, <2>1, DelAtVacant DEF DelValue
<1>8. ASSUME NEW pos \in Position, DelAt(pos) PROVE Vacant'
  BY <1>8, DelAtVacant DEF DelAt
<1>9. CASE PopHead \/ PopTail
  BY <1>9, DelAtVacant DEF PopHead, PopTail
<1>10. CASE Destroy
  <2>1. CASE Crash("destroy")
    BY <2>1 DEF Crash, list, Vacant
  <2>2. CASE array' = <<>>
    <3>1. Len(array') = 0
      BY <2>2
    <3> QED
      BY <3>1 DEF Vacant
  <2> QED
    BY <1>10, <2>1, <2>2 DEF Destroy
<1>11. ASSUME UNCHANGED list PROVE Vacant'
  BY <1>11 DEF list, Vacant
<1>12. ASSUME NEW v \in Value, Search(v) PROVE Vacant'
  BY <1>11, <1>12 DEF Search, Return, Crash
<1>13. ASSUME NEW pos \in Position, GetAt(pos) PROVE Vacant'
  BY <1>11, <1>13 DEF GetAt, ReadCell, Return, Crash
<1>14. CASE HeadValue \/ TailValue \/ Iter
  BY <1>11, <1>14 DEF HeadValue, TailValue, ReadCell, Iter, Return, Crash
<1> QED
  BY <1>2, <1>3, <1>4, <1>5, <1>6, <1>7, <1>8, <1>9, <1>10, <1>12, <1>13, <1>14 DEF Next

\* The sequence of values the state stands for
TheList == SubSeq(array, 1, size)

LEMMA TheListFacts ==
  ASSUME Good, misused = {}
  PROVE  /\ size \in Nat /\ TheList \in Seq(Cell) /\ Cuts(TheList, array, size)
         /\ Len(TheList) = size /\ (TheList = <<>> <=> size = 0)
         /\ size =< Len(array) /\ array \in Seq(Cell) /\ Len(array) = capacity
<1>1. size \in Nat /\ size =< Len(array) /\ array \in Seq(Cell) /\ Len(array) = capacity
  BY WidthAssumption DEF Good, Fits, TypeOK, Cell
<1>2. size \in 0 .. Len(array)
  BY <1>1, LenProperties
<1>3. PICK t : t = TheList
  OBVIOUS
<1>4. t \in Seq(Cell) /\ Cuts(t, array, size)
  BY <1>1, <1>2, <1>3, SubSeqCuts DEF TheList
<1>5. Len(t) = size /\ (t = <<>> <=> size = 0)
  BY <1>4, EmptySeq DEF Cuts
<1> QED
  BY <1>1, <1>3, <1>4, <1>5

\* The same after a step.
LEMMA TheListFactsNext ==
  ASSUME Good', misused' = {}
  PROVE  /\ size' \in Nat /\ TheList' \in Seq(Cell) /\ Cuts(TheList', array', size')
         /\ Len(TheList') = size' /\ size' =< Len(array')
<1>1. size' \in Nat /\ size' =< Len(array') /\ array' \in Seq(Cell)
  BY WidthAssumption DEF Good, Fits, TypeOK, Cell
<1>2. size' \in 0 .. Len(array')
  BY <1>1, LenProperties
<1>3. PICK t, a, n : t = TheList' /\ a = array' /\ n = size'
  OBVIOUS
<1>4. t = SubSeq(a, 1, n)
  BY <1>3 DEF TheList
<1>5. a \in Seq(Cell) /\ n \in 0 .. Len(a)
  BY <1>1, <1>2, <1>3
<1>6. t \in Seq(Cell) /\ Cuts(t, a, n)
  BY <1>4, <1>5, SubSeqCuts
<1>7. Len(t) = n
  BY <1>6 DEF Cuts
<1> QED
  BY <1>1, <1>3, <1>6, <1>7

\* A call that keeps the cells in use, or all of the list, keeps its values.
LEMMA SameCells ==
  ASSUME Good, Good', misused = {}, misused' = {}, UNCHANGED size,
         \A i \in 1 .. size : array'[i] = array[i]
  PROVE  TheList' = TheList
<1>1. size \in Nat /\ TheList \in Seq(Cell) /\ Cuts(TheList, array, size)
  BY TheListFacts
<1>2. TheList' \in Seq(Cell) /\ Cuts(TheList', array', size')
  BY TheListFactsNext
<1>3. PICK t, u : t = TheList /\ u = TheList'
  OBVIOUS
<1>4. Cuts(u, array, size)
  BY <1>2, <1>3 DEF Cuts
<1>5. t \in Seq(Cell) /\ u \in Seq(Cell) /\ Cuts(t, array, size)
  BY <1>1, <1>2, <1>3
<1>6. t = u
  BY <1>1, <1>4, <1>5, CutsOnce
<1> QED
  BY <1>3, <1>6

LEMMA ReturnLists ==
  ASSUME NEW op, NEW r, Return(op, r)
  PROVE  L!Answer(op, r) /\ TheList' = TheList
BY DEF Return, Answer, L!Answer, list, TheList

\* An insertion fails, or puts its value in at its position.
LEMMA InsertLists ==
  ASSUME Good, Good', misused = {}, misused' = {}, ~fault',
         NEW op, NEW v \in Value, NEW pos \in Nat, InsertAtPos(op, v, pos)
  PROVE  \/ L!Answer(op, FALSE) /\ TheList' = TheList
         \/ /\ L!Answer(op, TRUE) /\ pos =< Len(TheList)
            /\ Inserts(TheList', TheList, pos + 1, v)
<1>1. PICK n, s, t, a, b : n = size /\ s = TheList /\ t = TheList' /\ a = array /\ b = array'
  OBVIOUS
<1>2. n \in Nat /\ Len(s) = n /\ n =< Len(a) /\ \A i \in 1 .. n : s[i] = a[i]
  BY <1>1, TheListFacts DEF Cuts
<1>3. Len(t) = size' /\ \A i \in 1 .. size' : t[i] = b[i]
  BY <1>1, TheListFactsNext DEF Cuts
<1>4. CASE Return(op, FALSE)
  BY <1>4, ReturnLists
<1>5. CASE Crash(op)
  BY <1>5 DEF Crash
<1>6. CASE /\ size = 0 /\ pos = 0 /\ Has(0)
           /\ array' = [array EXCEPT ![1] = v] /\ size' = 1
           /\ Answer(op, TRUE)
  <2>1. b[1] = v
    <3>1. Len(array) >= 1 /\ array \in Seq(Cell)
      BY <1>1, <1>2, <1>6, TheListFacts, LenProperties DEF Has
    <3> QED
      BY <1>1, <1>6, <3>1, ExceptSeq DEF Cell
  <2>2. Len(s) = 0 /\ Len(t) = 1 /\ t[1] = v
    BY <1>1, <1>2, <1>3, <1>6, <2>1
  <2>3. Inserts(t, s, pos + 1, v)
    BY <1>6, <2>2 DEF Inserts
  <2>4. pos =< Len(s)
    BY <1>6, <2>2
  <2> QED
    BY <1>1, <1>6, <2>3, <2>4 DEF Answer, L!Answer
<1>7. ASSUME pos =< size, size \in 1 .. MaxSize - 1,
             NEW r \in IF NeedsRoom(pos) THEN Resized(Room(pos)) ELSE {Same(TRUE)},
             \/ ~r.ok /\ Become(r) /\ Answer(op, FALSE) /\ UNCHANGED size
             \/ r.ok /\ size + 1 > Len(r.array) /\ Crash(op)
             \/ /\ r.ok /\ size + 1 =< Len(r.array)
                /\ Become([r EXCEPT !.array =
                             [ShiftedRight(@, pos) EXCEPT ![pos + 1] = v]])
                /\ size' = size + 1
                /\ Answer(op, TRUE)
      PROVE  \/ L!Answer(op, FALSE) /\ TheList' = TheList
             \/ /\ L!Answer(op, TRUE) /\ pos =< Len(TheList)
                /\ Inserts(TheList', TheList, pos + 1, v)
  <2>1. /\ r.array \in Seq(Cell) /\ size =< Len(r.array)
        /\ \A i \in 1 .. size : r.array[i] = array[i]
    BY <1>7, RoomFacts
  <2>2. CASE ~r.ok /\ Become(r) /\ Answer(op, FALSE) /\ UNCHANGED size
    <3>1. TheList' = TheList
      BY <2>1, <2>2, SameCells DEF Become
    <3> QED
      BY <2>2, <3>1 DEF Answer, L!Answer
  <2>3. CASE Crash(op)
    BY <2>3 DEF Crash
  <2>4. ASSUME size + 1 =< Len(r.array),
               Become([r EXCEPT !.array =
                         [ShiftedRight(@, pos) EXCEPT ![pos + 1] = v]]),
               size' = size + 1, Answer(op, TRUE)
        PROVE  /\ L!Answer(op, TRUE) /\ pos =< Len(TheList)
               /\ Inserts(TheList', TheList, pos + 1, v)
    <3>1. PICK c : c = r.array
      OBVIOUS
    <3>2. PICK m \in Nat : m = Len(c) /\ DOMAIN c = 1 .. m
      BY <2>1, <3>1, LenProperties
    <3>3. b = [ShiftedRight(c, pos) EXCEPT ![pos + 1] = v]
      BY <1>1, <1>7, <2>4, <3>1 DEF Become, Resized, AllocArray, Same, Outcome
    <3>4. n + 1 =< m /\ pos + 1 \in 1 .. m /\ pos =< n
      BY <1>1, <1>2, <1>7, <2>4, <3>1, <3>2
    <3>5. b = [i \in 1 .. m |->
                 IF i = pos + 1 THEN v
                 ELSE IF i \in pos + 2 .. n + 1 THEN c[i - 1] ELSE c[i]]
      BY <1>1, <3>2, <3>3 DEF ShiftedRight
    <3>6. \A i \in 1 .. n : c[i] = s[i]
      BY <1>1, <1>2, <2>1, <3>1
    <3>7. ASSUME NEW i \in 1 .. n + 1
          PROVE  t[i] = IF i < pos + 1 THEN s[i]
                        ELSE IF i = pos + 1 THEN v ELSE s[i - 1]
      <4>1. t[i] = b[i] /\ i \in 1 .. m
        BY <1>1, <1>2, <1>3, <2>4, <3>4
      <4>2. CASE i < pos + 1
        <5>1. i \in 1 .. n /\ i # pos + 1 /\ i \notin pos + 2 .. n + 1
          BY <1>2, <3>4, <4>2
        <5> QED
          BY <3>5, <3>6, <4>1, <4>2, <5>1
      <4>3. CASE i = pos + 1
        BY <3>5, <4>1, <4>3
      <4>4. CASE i > pos + 1
        <5>1. i - 1 \in 1 .. n /\ i \in pos + 2 .. n + 1
          BY <1>2, <4>4
        <5> QED
          BY <3>5, <3>6, <4>1, <4>4, <5>1
      <4> QED
        BY <1>2, <4>2, <4>3, <4>4
    <3>8. Len(t) = n + 1
      BY <1>1, <1>3, <2>4
    <3>9. Inserts(t, s, pos + 1, v)
      BY <1>2, <3>7, <3>8 DEF Inserts
    <3>10. pos =< Len(s)
      BY <1>2, <3>4
    <3> QED
      BY <1>1, <2>4, <3>9, <3>10 DEF Answer, L!Answer
  <2> QED
    BY <1>7, <2>2, <2>3, <2>4
<1> QED
  BY <1>4, <1>5, <1>6, <1>7 DEF InsertAtPos

\* A deletion takes its value out of the list and answers with it.
LEMMA DelLists ==
  ASSUME Good, Good', misused = {}, misused' = {}, ~fault',
         NEW op, NEW pos \in Nat, DelAtPos(op, pos)
  PROVE  \/ pos >= Len(TheList) /\ L!Answer(op, NULL) /\ TheList' = TheList
         \/ /\ pos < Len(TheList) /\ L!Answer(op, TheList[pos + 1])
            /\ Removes(TheList', TheList, pos + 1)
<1>1. PICK n, s, t, a, b : n = size /\ s = TheList /\ t = TheList' /\ a = array /\ b = array'
  OBVIOUS
<1>2. n \in Nat /\ Len(s) = n /\ n =< Len(a) /\ \A i \in 1 .. n : s[i] = a[i]
  BY <1>1, TheListFacts DEF Cuts
<1>3. Len(t) = size' /\ \A i \in 1 .. size' : t[i] = b[i]
  BY <1>1, TheListFactsNext DEF Cuts
<1>4. CASE pos >= size /\ Return(op, NULL)
  <2>1. pos >= Len(s)
    BY <1>1, <1>2, <1>4
  <2> QED
    BY <1>1, <1>4, <2>1, ReturnLists
<1>5. CASE Crash(op)
  BY <1>5 DEF Crash
<1>6. CASE /\ pos < size /\ size' = size - 1 /\ array' = ShiftedLeft(pos)
           /\ Answer(op, array[pos + 1])
  <2>1. PICK m \in Nat : m = Len(a) /\ DOMAIN a = 1 .. m
    BY <1>1, TheListFacts, LenProperties
  <2>2. b = [i \in 1 .. m |-> IF i \in pos + 1 .. n - 1 THEN a[i + 1] ELSE a[i]]
    BY <1>1, <1>6, <2>1 DEF ShiftedLeft
  <2>3. ASSUME NEW i \in 1 .. n - 1
        PROVE  t[i] = IF i < pos + 1 THEN s[i] ELSE s[i + 1]
    <3>1. t[i] = b[i] /\ i \in 1 .. m /\ i \in 1 .. n /\ i + 1 \in 1 .. n
      BY <1>1, <1>2, <1>3, <1>6, <2>1
    <3>2. CASE i < pos + 1
      <4>1. i \notin pos + 1 .. n - 1
        BY <3>2
      <4> QED
        BY <1>2, <2>2, <3>1, <3>2, <4>1
    <3>3. CASE ~(i < pos + 1)
      <4>1. i \in pos + 1 .. n - 1
        BY <1>2, <3>3
      <4> QED
        BY <1>2, <2>2, <3>1, <3>3, <4>1
    <3> QED
      BY <3>2, <3>3
  <2>4. Len(t) = n - 1
    BY <1>1, <1>3, <1>6
  <2>5. Removes(t, s, pos + 1)
    BY <1>2, <2>3, <2>4 DEF Removes
  <2>6. pos < Len(s) /\ s[pos + 1] = a[pos + 1]
    <3>1. pos + 1 \in 1 .. n
      BY <1>1, <1>2, <1>6
    <3> QED
      BY <1>1, <1>2, <1>6, <3>1
  <2> QED
    BY <1>1, <1>6, <2>5, <2>6 DEF Answer, L!Answer
<1> QED
  BY <1>4, <1>5, <1>6 DEF DelAtPos

\* A read answers with the value at its position, or with NULL.
LEMMA ReadLists ==
  ASSUME Good, misused = {}, ~fault', NEW op, NEW pos \in Nat, ReadCell(op, pos)
  PROVE  L!Answer(op, L!Item(pos)) /\ TheList' = TheList
<1>1. PICK n, s : n = size /\ s = TheList
  OBVIOUS
<1>2. n \in Nat /\ Len(s) = n /\ \A i \in 1 .. n : s[i] = array[i]
  BY <1>1, TheListFacts DEF Cuts
<1>3. L!Item(pos) = IF pos \in 0 .. Len(s) - 1 THEN s[pos + 1] ELSE NULL
  BY <1>1 DEF L!Item, TheList
<1>4. L!Item(pos) = IF pos < size THEN array[pos + 1] ELSE NULL
  <2>1. CASE pos < n
    <3>1. pos + 1 \in 1 .. n /\ pos \in 0 .. Len(s) - 1
      BY <1>2, <2>1
    <3> QED
      BY <1>1, <1>2, <1>3, <2>1, <3>1
  <2>2. CASE ~(pos < n)
    BY <1>1, <1>2, <1>3, <2>2
  <2> QED
    BY <2>1, <2>2
<1>5. Return(op, L!Item(pos))
  <2>1. ~(pos >= size) <=> pos < size
    BY <1>1, <1>2
  <2> QED
    BY <1>4, <2>1 DEF ReadCell, Crash
<1> QED
  BY <1>5, ReturnLists

LEMMA SameOperators ==
  /\ \A s, e, k : /\ L!Cons(e, s) = Cons(e, s) /\ L!RemoveAt(s, k) = RemoveAt(s, k)
                  /\ L!Front(s) = Front(s) /\ L!Last(s) = Last(s)
                  /\ L!InsertAt(s, k, e) = InsertAt(s, k, e)
  /\ \A T : L!Min(T) = Min(T) /\ L!Max(T) = Max(T)
BY Zenon DEF L!Cons, Cons, L!RemoveAt, RemoveAt, L!Front, Front, L!Last, Last,
             L!InsertAt, InsertAt, L!Min, Min, L!Max, Max

LEMMA MaxOfTwo ==
  ASSUME NEW m \in Nat, NEW k \in Nat
  PROVE  Max({m, k}) = IF m >= k THEN m ELSE k
<1>1. PICK x : x = IF m >= k THEN m ELSE k
  OBVIOUS
<1>2. x \in {m, k} /\ \A y \in {m, k} : x >= y
  BY <1>1
<1>3. ASSUME NEW z \in {m, k}, \A y \in {m, k} : z >= y PROVE z = x
  BY <1>1, <1>3
<1>4. Max({m, k}) = x
  BY <1>2, <1>3 DEF Max
<1> QED
  BY <1>1, <1>4

\* The linear search finds the first place of the value in the list.
LEMMA FoundFacts ==
  ASSUME Good, misused = {}, NEW v
  PROVE  /\ L!Indexes(v) = {} <=> Found(v) = {}
         /\ Found(v) = {} => IndexOf(v) = SIZE_MAX
         /\ Found(v) # {} =>
              /\ IndexOf(v) \in Nat /\ IndexOf(v) < Len(TheList)
              /\ TheList[IndexOf(v) + 1] = v
              /\ Min(L!Indexes(v)) = IndexOf(v) + 1
<1>1. PICK n, s : n = size /\ s = TheList
  OBVIOUS
<1>2. /\ n \in Nat /\ Len(s) = n /\ n =< Len(array) /\ array \in Seq(Cell)
      /\ \A i \in 1 .. n : s[i] = array[i]
  BY <1>1, TheListFacts DEF Cuts
<1>3. PICK T, U : T = Found(v) /\ U = L!Indexes(v)
  OBVIOUS
<1>4. U = {i \in 1 .. n : s[i] = v}
  BY <1>1, <1>2, <1>3 DEF L!Indexes, TheList
<1>5. \A i \in 0 .. n - 1 : Has(i) /\ i + 1 \in 1 .. n /\ array[i + 1] = s[i + 1]
  BY <1>2, LenProperties DEF Has
<1>6. \A i : i \in T <=> i \in 0 .. n - 1 /\ s[i + 1] = v
  BY <1>1, <1>3, <1>5 DEF Found
<1>7. T \in SUBSET Nat /\ U \in SUBSET Nat
  BY <1>2, <1>4, <1>6
<1>8. \A i \in T : i + 1 \in U
  BY <1>2, <1>4, <1>6
<1>9. \A i \in U : i - 1 \in T /\ i - 1 + 1 = i
  <2> TAKE i \in U
  <2>1. i \in 1 .. n /\ s[i] = v /\ i - 1 \in 0 .. n - 1 /\ i - 1 + 1 = i
    BY <1>2, <1>4
  <2> QED
    BY <1>6, <2>1
<1>10. U = {} <=> T = {}
  BY <1>8, <1>9
<1>11. ASSUME T # {}
       PROVE  /\ IndexOf(v) \in Nat /\ IndexOf(v) < n /\ s[IndexOf(v) + 1] = v
              /\ Min(U) = IndexOf(v) + 1
  <2>1. PICK x, y : x = Min(T) /\ y = Min(U)
    OBVIOUS
  <2>2. x \in T /\ (\A k \in T : x =< k) /\ y \in U /\ \A k \in U : y =< k
    BY <1>7, <1>10, <1>11, <2>1, MinFacts
  <2>3. y =< x + 1 /\ x =< y - 1
    BY <1>8, <1>9, <2>2
  <2>4. y = x + 1
    BY <1>7, <2>2, <2>3
  <2>5. IndexOf(v) = x
    BY <1>3, <1>11, <2>1 DEF IndexOf
  <2>6. x \in 0 .. n - 1 /\ s[x + 1] = v
    BY <1>6, <2>2
  <2> QED
    BY <1>2, <2>1, <2>4, <2>5, <2>6
<1>12. T = {} => IndexOf(v) = SIZE_MAX
  BY <1>3 DEF IndexOf
<1> QED
  BY <1>1, <1>2, <1>3, <1>10, <1>11, <1>12

LEMMA SearchLists ==
  ASSUME Good, misused = {}, misused' = {}, ~fault', NEW v \in Value, Search(v)
  PROVE  L!IndexOf(v)
<1>1. PICK r : r = IndexOf(v)
  OBVIOUS
<1>2. L!Answer("index_of", r) /\ TheList' = TheList
  BY <1>1, ReturnLists DEF Search, Crash
<1>3. r = IF L!Indexes(v) = {} THEN SIZE_MAX ELSE L!Min(L!Indexes(v)) - 1
  <2>1. CASE Found(v) = {}
    BY <1>1, <2>1, FoundFacts
  <2>2. CASE Found(v) # {}
    <3>1. /\ L!Indexes(v) # {} /\ r \in Nat /\ Min(L!Indexes(v)) = r + 1
      BY <1>1, <2>2, FoundFacts
    <3>2. L!Min(L!Indexes(v)) = r + 1
      BY <3>1, SameOperators
    <3> QED
      BY <3>1, <3>2
  <2> QED
    BY <2>1, <2>2
<1> QED
  BY <1>2, <1>3 DEF L!IndexOf, TheList

LEMMA DelValueLists ==
  ASSUME Good, Good', misused = {}, misused' = {}, ~fault', NEW v \in Value, DelValue(v)
  PROVE  L!DelValue(v)
<1>1. PICK k, s, t : k = IndexOf(v) /\ s = TheList /\ t = TheList'
  OBVIOUS
<1>2. DelAtPos("del_value", k)
  BY <1>1 DEF DelValue, Crash
<1>3. s \in Seq(Cell) /\ Len(s) = size /\ size \in Nat /\ t \in Seq(Cell)
  BY <1>1, TheListFacts, TheListFactsNext
<1>4. CASE Found(v) = {}
  <2>1. L!Indexes(v) = {} /\ k = SIZE_MAX /\ k \in Nat /\ k >= Len(s)
    BY <1>1, <1>3, <1>4, FoundFacts, WidthAssumption DEF Good, TypeOK
  <2>2. L!Answer("del_value", NULL) /\ t = s
    BY <1>1, <1>2, <1>3, <2>1, DelLists
  <2> QED
    BY <1>1, <2>1, <2>2 DEF L!DelValue, TheList
<1>5. CASE Found(v) # {}
  <2>1. /\ L!Indexes(v) # {} /\ k \in Nat /\ k < Len(s) /\ s[k + 1] = v
        /\ Min(L!Indexes(v)) = k + 1
    BY <1>1, <1>5, FoundFacts
  <2>2. L!Answer("del_value", v) /\ Removes(t, s, k + 1)
    BY <1>1, <1>2, <1>3, <2>1, DelLists
  <2>3. k + 1 \in 1 .. Len(s)
    BY <1>3, <2>1
  <2>4. t = RemoveAt(s, k + 1)
    BY <1>3, <2>2, <2>3, RemovesIsRemoveAt
  <2>5. t = L!RemoveAt(s, L!Min(L!Indexes(v)))
    BY <2>1, <2>4, SameOperators
  <2> QED
    BY <1>1, <2>1, <2>2, <2>5 DEF L!DelValue, TheList
<1> QED
  BY <1>4, <1>5

\* Growing or shrinking the block leaves the list as it was.
LEMMA ResizeLists ==
  ASSUME Good, Good', misused = {}, misused' = {}, ~fault',
         NEW n \in 0 .. SIZE_MAX, Resize(n)
  PROVE  L!Resize
<1>1. n \in Nat /\ TypeOK /\ Fits /\ Requests(n)
  BY WidthAssumption DEF Good, Resize
<1>2. n \in 1 .. WrapAt - 1
  BY <1>1, RequestsFacts
<1>3. PICK r \in Resized(n) : Become(r) /\ Answer("resize", r.ok) /\ UNCHANGED size
  BY DEF Resize, Crash
<1>4. \A i \in 1 .. size : r.array[i] = array[i]
  BY <1>1, <1>2, ResizedFits
<1>5. TheList' = TheList
  BY <1>3, <1>4, SameCells DEF Become
<1>6. r.ok \in BOOLEAN
  BY <1>1, ResizedTypes
<1>7. PICK ok \in BOOLEAN : ok = r.ok
  BY <1>6
<1>8. L!Answer("resize", ok)
  BY <1>3, <1>7 DEF Answer, L!Answer
<1> QED
  BY <1>5, <1>8 DEF L!Resize, TheList

\* A list is set up empty, where there was an empty one.
LEMMA SetupLists ==
  ASSUME Good, Good', Vacant, misused = {}, misused' = {}, NEW n, Setup(n)
  PROVE  L!Setup
<1>1. size = 0 /\ size' = 0 /\ ret' = <<"init", TRUE>>
  <2>1. size \in Nat /\ Len(array) = 0 /\ size =< Len(array)
    BY TheListFacts DEF Setup, Vacant
  <2>2. misused' # misused \cup {"failed_init"}
    <3>1. "failed_init" \in misused \cup {"failed_init"}
      OBVIOUS
    <3> QED
      BY <3>1
  <2>3. Answer("init", TRUE) /\ size' = 0
    BY <2>2, Zenon DEF Setup
  <2> QED
    BY <2>1, <2>3 DEF Answer
<1>2. TheList = <<>>
  BY <1>1, TheListFacts
<1>3. TheList' = <<>>
  BY <1>1, TheListFactsNext, EmptySeq
<1>4. L!Answer("init", TRUE)
  BY <1>1 DEF L!Answer
<1> QED
  BY <1>2, <1>3, <1>4 DEF L!Setup, TheList

LEMMA DestroyLists ==
  ASSUME Good, Good', misused = {}, misused' = {}, ~fault', Destroy
  PROVE  L!Destroy
<1>1. size' = 0 /\ ret' = <<"destroy", TRUE>>
  BY DEF Destroy, Crash, Answer
<1>2. TheList' = <<>>
  BY <1>1, TheListFactsNext, EmptySeq
<1> QED
  BY <1>1, <1>2 DEF L!Destroy, L!Answer, TheList

LEMMA IterLists ==
  ASSUME ~fault', Iter
  PROVE  L!Read
<1>1. Return("forward_iter", TheList)
  BY DEF Iter, Crash, TheList
<1>2. L!Answer("forward_iter", TheList) /\ TheList' = TheList
  BY <1>1, ReturnLists
<1> QED
  BY <1>2 DEF L!Read, TheList

\* Storing a value extends the list with NULL up to its position.
LEMMA SetAtLists ==
  ASSUME Good, Good', misused = {}, misused' = {}, ~fault',
         NEW pos \in Position, NEW v \in Value, SetAt(pos, v)
  PROVE  L!SetAt(v, pos)
<1> DEFINE grows == pos >= size /\ pos >= capacity
<1>1. PICK n, s, t, b : n = size /\ s = TheList /\ t = TheList' /\ b = array'
  OBVIOUS
<1>2. n \in Nat /\ Len(s) = n /\ \A i \in 1 .. n : s[i] = array[i]
  BY <1>1, TheListFacts DEF Cuts
<1>3. t \in Seq(Cell) /\ Len(t) = size' /\ \A i \in 1 .. size' : t[i] = b[i]
  BY <1>1, TheListFactsNext DEF Cuts
<1>4. pos \in Nat
  BY PositionFacts
<1>5. PICK r \in IF grows THEN Resized(Succ(pos)) ELSE {Same(TRUE)} :
        \/ ~r.ok /\ Become(r) /\ Answer("set_at", FALSE) /\ UNCHANGED size
        \/ /\ r.ok /\ pos < Len(r.array)
           /\ Become([r EXCEPT !.array = Filled(@, pos, v)])
           /\ size' = IF pos < size THEN size ELSE pos + 1
           /\ Answer("set_at", TRUE)
  BY DEF SetAt, Crash
<1>6. /\ r.array \in Seq(Cell) /\ size =< Len(r.array)
      /\ \A i \in 1 .. size : r.array[i] = array[i]
  <2>1. CASE grows
    <3>1. Succ(pos) \in 0 .. SIZE_MAX /\ Succ(pos) \in Nat /\ Requests(Succ(pos))
      BY <2>1, SuccFacts, WidthAssumption DEF SetAt
    <3>2. TypeOK /\ Fits /\ Succ(pos) \in 1 .. WrapAt - 1
      BY <3>1, RequestsFacts DEF Good
    <3> QED
      BY <1>5, <2>1, <3>1, <3>2, ResizedTypes, ResizedFits
  <2>2. CASE ~grows
    <3>1. r.array = array
      BY <1>5, <2>2 DEF Same, Outcome
    <3> QED
      BY <3>1, TheListFacts
  <2> QED
    BY <2>1, <2>2
<1>7. CASE ~r.ok /\ Become(r) /\ Answer("set_at", FALSE) /\ UNCHANGED size
  <2>1. TheList' = TheList
    BY <1>6, <1>7, SameCells DEF Become
  <2> QED
    BY <1>7, <2>1 DEF Answer, L!SetAt, L!Fails, L!Answer, TheList
<1>8. ASSUME pos < Len(r.array), Become([r EXCEPT !.array = Filled(@, pos, v)]),
             size' = IF pos < size THEN size ELSE pos + 1, Answer("set_at", TRUE)
      PROVE  L!SetAt(v, pos)
  <2>1. PICK c : c = r.array
    OBVIOUS
  <2>2. PICK m \in Nat : m = Len(c) /\ DOMAIN c = 1 .. m
    BY <1>6, <2>1, LenProperties
  <2>3. b = Filled(c, pos, v)
    BY <1>1, <1>5, <1>8, <2>1 DEF Become, Resized, AllocArray, Same, Outcome
  <2>4. b = [i \in 1 .. m |-> IF i = pos + 1 THEN v
                              ELSE IF i \in n + 1 .. pos THEN NULL ELSE c[i]]
    BY <1>1, <2>2, <2>3 DEF Filled
  <2>5. pos < m /\ n =< m /\ \A i \in 1 .. n : c[i] = s[i]
    BY <1>1, <1>2, <1>6, <1>8, <2>1, <2>2
  <2>6. size' = Max({n, pos + 1}) /\ size' \in Nat /\ size' =< m
    <3>1. pos + 1 \in Nat /\ Max({n, pos + 1}) = IF n >= pos + 1 THEN n ELSE pos + 1
      BY <1>2, <1>4, MaxOfTwo
    <3>2. size' = IF pos < n THEN n ELSE pos + 1
      BY <1>1, <1>8
    <3> QED
      BY <1>2, <1>4, <2>5, <3>1, <3>2
  <2>7. ASSUME NEW i \in 1 .. size'
        PROVE  t[i] = IF i = pos + 1 THEN v
                      ELSE IF i - 1 \in 0 .. Len(s) - 1 THEN s[i - 1 + 1] ELSE NULL
    <3>1. t[i] = b[i] /\ i \in 1 .. m /\ i - 1 + 1 = i
      <4>1. PICK k \in Nat : k = size' /\ k =< m
        BY <2>6
      <4>2. i \in 1 .. k
        BY <2>7, <4>1
      <4> QED
        BY <1>3, <2>2, <4>1, <4>2
    <3>2. CASE i = pos + 1
      BY <2>4, <3>1, <3>2
    <3>3. CASE i # pos + 1 /\ i =< n
      <4>1. i \in 1 .. n /\ i \notin n + 1 .. pos /\ i - 1 \in 0 .. Len(s) - 1
        BY <1>2, <3>3
      <4> QED
        BY <2>4, <2>5, <3>1, <3>3, <4>1
    <3>4. CASE i # pos + 1 /\ i > n
      <4>1. i \in n + 1 .. pos /\ i - 1 \notin 0 .. Len(s) - 1
        BY <1>1, <1>2, <1>4, <1>8, <3>4
      <4> QED
        BY <2>4, <3>1, <3>4, <4>1
    <3> QED
      BY <1>2, <3>2, <3>3, <3>4
  <2>8. t = [i \in 1 .. Max({Len(s), pos + 1}) |->
               IF i = pos + 1 THEN v
               ELSE IF i - 1 \in 0 .. Len(s) - 1 THEN s[i - 1 + 1] ELSE NULL]
    <3>1. Max({Len(s), pos + 1}) = size'
      BY <1>2, <2>6
    <3>2. t = [i \in 1 .. size' |-> t[i]]
      BY <1>3, <2>6, LenProperties
    <3> QED
      BY <2>7, <3>1, <3>2
  <2>9. t = [i \in 1 .. L!Max({Len(s), pos + 1}) |-> IF i = pos + 1 THEN v ELSE L!Item(i - 1)]
    BY <1>1, <2>8, SameOperators DEF L!Item, TheList
  <2> QED
    BY <1>1, <1>8, <2>9 DEF Answer, L!SetAt, L!Answer, TheList
<1> QED
  BY <1>5, <1>7, <1>8

\* An insertion at the head, at the tail, or at any position.
LEMMA PushHeadLists ==
  ASSUME Good, Good', misused = {}, misused' = {}, ~fault', NEW v \in Value, PushHead(v)
  PROVE  L!PushHead(v)
<1>1. PICK s, t : s = TheList /\ t = TheList'
  OBVIOUS
<1>2. s \in Seq(Cell) /\ t \in Seq(Cell) /\ v \in Cell
  BY <1>1, TheListFacts, TheListFactsNext DEF Cell
<1>3. InsertAtPos("push_head", v, 0) /\ 0 \in Nat /\ 0 + 1 = 1
  BY DEF PushHead
<1>4. \/ L!Answer("push_head", FALSE) /\ t = s
      \/ L!Answer("push_head", TRUE) /\ Inserts(t, s, 0 + 1, v)
  BY <1>1, <1>3, InsertLists
<1>5. CASE L!Answer("push_head", TRUE) /\ Inserts(t, s, 0 + 1, v)
  <2>1. Inserts(t, s, 1, v)
    BY <1>3, <1>5
  <2>2. t = L!Cons(v, s)
    BY <1>2, <2>1, InsertsFirst, SameOperators
  <2> QED
    BY <1>1, <1>5, <2>2 DEF L!PushHead, TheList
<1> QED
  BY <1>1, <1>4, <1>5 DEF L!PushHead, L!Fails, TheList

LEMMA PushTailLists ==
  ASSUME Good, Good', misused = {}, misused' = {}, ~fault', NEW v \in Value, PushTail(v)
  PROVE  L!PushTail(v)
<1>1. PICK s, t, n : s = TheList /\ t = TheList' /\ n = size
  OBVIOUS
<1>2. s \in Seq(Cell) /\ t \in Seq(Cell) /\ v \in Cell /\ n \in Nat /\ Len(s) = n
  BY <1>1, TheListFacts, TheListFactsNext DEF Cell
<1>3. InsertAtPos("push_tail", v, n)
  BY <1>1 DEF PushTail
<1>4. \/ L!Answer("push_tail", FALSE) /\ t = s
      \/ L!Answer("push_tail", TRUE) /\ Inserts(t, s, n + 1, v)
  BY <1>1, <1>2, <1>3, InsertLists
<1>5. CASE L!Answer("push_tail", TRUE) /\ Inserts(t, s, n + 1, v)
  <2>1. Inserts(t, s, Len(s) + 1, v)
    BY <1>2, <1>5
  <2>2. t = Append(s, v)
    BY <1>2, <2>1, InsertsLast
  <2> QED
    BY <1>1, <1>5, <2>2 DEF L!PushTail, TheList
<1> QED
  BY <1>1, <1>4, <1>5 DEF L!PushTail, L!Fails, TheList

LEMMA InsertValueLists ==
  ASSUME Good, Good', misused = {}, misused' = {}, ~fault',
         NEW v \in Value, NEW pos \in Position, InsertValue(v, pos)
  PROVE  L!Insert(v, pos)
<1>1. PICK s, t : s = TheList /\ t = TheList'
  OBVIOUS
<1>2. s \in Seq(Cell) /\ t \in Seq(Cell) /\ v \in Cell /\ pos \in Nat /\ Len(s) \in Nat
  BY <1>1, TheListFacts, TheListFactsNext, PositionFacts DEF Cell
<1>3. InsertAtPos("insert_at", v, pos)
  BY DEF InsertValue
<1>4. \/ L!Answer("insert_at", FALSE) /\ t = s
      \/ L!Answer("insert_at", TRUE) /\ pos =< Len(s) /\ Inserts(t, s, pos + 1, v)
  BY <1>1, <1>2, <1>3, InsertLists
<1>5. CASE L!Answer("insert_at", TRUE) /\ pos =< Len(s) /\ Inserts(t, s, pos + 1, v)
  <2>1. PICK u : u = InsertAt(s, pos + 1, v)
    OBVIOUS
  <2>2. pos + 1 \in 1 .. Len(s) + 1
    BY <1>2, <1>5
  <2>3. u \in Seq(Cell) /\ Inserts(u, s, pos + 1, v)
    BY <1>2, <2>1, <2>2, InsertAtPlaces
  <2>4. t = u
    BY <1>2, <1>5, <2>3, InsertsOnce
  <2>5. t = L!InsertAt(s, pos + 1, v)
    BY <2>1, <2>4, SameOperators
  <2> QED
    BY <1>1, <1>5, <2>5 DEF L!Insert, TheList
<1> QED
  BY <1>1, <1>4, <1>5 DEF L!Insert, L!Fails, TheList

\* A deletion at the head, at the tail, or at any position.
LEMMA PopHeadLists ==
  ASSUME Good, Good', misused = {}, misused' = {}, ~fault', PopHead
  PROVE  L!PopHead
<1>1. PICK s, t : s = TheList /\ t = TheList'
  OBVIOUS
<1>2. s \in Seq(Cell) /\ t \in Seq(Cell) /\ Len(s) \in Nat /\ (s = <<>> <=> Len(s) = 0)
  BY <1>1, TheListFacts, TheListFactsNext
<1>3. DelAtPos("pop_head", 0) /\ 0 \in Nat /\ 0 + 1 = 1
  BY DEF PopHead
<1>4. \/ 0 >= Len(s) /\ L!Answer("pop_head", NULL) /\ t = s
      \/ 0 < Len(s) /\ L!Answer("pop_head", s[0 + 1]) /\ Removes(t, s, 0 + 1)
  BY <1>1, <1>3, DelLists
<1>5. CASE 0 >= Len(s) /\ L!Answer("pop_head", NULL) /\ t = s
  <2>1. s = <<>>
    BY <1>2, <1>5
  <2> QED
    BY <1>1, <1>5, <2>1 DEF L!PopHead, TheList
<1>6. CASE 0 < Len(s) /\ L!Answer("pop_head", s[0 + 1]) /\ Removes(t, s, 0 + 1)
  <2>1. s # <<>> /\ Removes(t, s, 1) /\ L!Answer("pop_head", s[1])
    BY <1>2, <1>3, <1>6
  <2>2. t = Tail(s)
    BY <1>2, <2>1, RemovesFirst
  <2>3. s[1] = Head(s)
    BY <1>2, <2>1, HeadTailProperties
  <2> QED
    BY <1>1, <2>1, <2>2, <2>3 DEF L!PopHead, TheList
<1> QED
  BY <1>4, <1>5, <1>6

LEMMA PopTailLists ==
  ASSUME Good, Good', misused = {}, misused' = {}, ~fault', PopTail
  PROVE  L!PopTail
<1>1. PICK s, t, k : s = TheList /\ t = TheList' /\ k = LastPos
  OBVIOUS
<1>2. /\ s \in Seq(Cell) /\ t \in Seq(Cell) /\ Len(s) \in Nat /\ (s = <<>> <=> Len(s) = 0)
      /\ k = IF Len(s) = 0 THEN 0 ELSE Len(s) - 1
  BY <1>1, TheListFacts, TheListFactsNext DEF LastPos
<1>3. DelAtPos("pop_tail", k) /\ k \in Nat
  BY <1>1, <1>2 DEF PopTail
<1>4. \/ k >= Len(s) /\ L!Answer("pop_tail", NULL) /\ t = s
      \/ k < Len(s) /\ L!Answer("pop_tail", s[k + 1]) /\ Removes(t, s, k + 1)
  BY <1>1, <1>3, DelLists
<1>5. CASE k >= Len(s) /\ L!Answer("pop_tail", NULL) /\ t = s
  <2>1. s = <<>>
    BY <1>2, <1>5
  <2> QED
    BY <1>1, <1>5, <2>1 DEF L!PopTail, TheList
<1>6. CASE k < Len(s) /\ L!Answer("pop_tail", s[k + 1]) /\ Removes(t, s, k + 1)
  <2>1. s # <<>> /\ k + 1 = Len(s)
    BY <1>2, <1>6
  <2>2. Removes(t, s, Len(s)) /\ L!Answer("pop_tail", s[Len(s)])
    BY <1>6, <2>1
  <2>3. t = L!Front(s)
    BY <1>2, <2>1, <2>2, RemovesLast, SameOperators
  <2>4. s[Len(s)] = L!Last(s)
    BY DEF L!Last
  <2> QED
    BY <1>1, <2>1, <2>2, <2>3, <2>4 DEF L!PopTail, TheList
<1> QED
  BY <1>4, <1>5, <1>6

LEMMA DelAtLists ==
  ASSUME Good, Good', misused = {}, misused' = {}, ~fault', NEW pos \in Position, DelAt(pos)
  PROVE  L!DelAt(pos)
<1>1. PICK s, t : s = TheList /\ t = TheList'
  OBVIOUS
<1>2. s \in Seq(Cell) /\ t \in Seq(Cell) /\ pos \in Nat /\ Len(s) \in Nat
  BY <1>1, TheListFacts, TheListFactsNext, PositionFacts
<1>3. DelAtPos("del_at", pos)
  BY DEF DelAt
<1>4. \/ pos >= Len(s) /\ L!Answer("del_at", NULL) /\ t = s
      \/ pos < Len(s) /\ L!Answer("del_at", s[pos + 1]) /\ Removes(t, s, pos + 1)
  BY <1>1, <1>2, <1>3, DelLists
<1>5. CASE pos < Len(s) /\ L!Answer("del_at", s[pos + 1]) /\ Removes(t, s, pos + 1)
  <2>1. pos + 1 \in 1 .. Len(s)
    BY <1>2, <1>5
  <2>2. t = L!RemoveAt(s, pos + 1)
    BY <1>2, <1>5, <2>1, RemovesIsRemoveAt, SameOperators
  <2> QED
    BY <1>1, <1>5, <2>2 DEF L!DelAt, TheList
<1> QED
  BY <1>1, <1>4, <1>5 DEF L!DelAt, TheList

\* A read at any position, at the head or at the tail.
LEMMA GetAtLists ==
  ASSUME Good, misused = {}, ~fault', NEW pos \in Position, GetAt(pos)
  PROVE  L!GetAt(pos)
<1>1. pos \in Nat /\ ReadCell("get_at", pos)
  BY PositionFacts DEF GetAt
<1> QED
  BY <1>1, ReadLists DEF L!GetAt, TheList

LEMMA EndsLists ==
  ASSUME Good, misused = {}, ~fault', HeadValue \/ TailValue
  PROVE  L!Read
<1>1. CASE HeadValue
  <2>1. L!Answer("head", L!Item(0)) /\ TheList' = TheList
    BY <1>1, ReadLists DEF HeadValue
  <2> QED
    BY <2>1 DEF L!Read, TheList
<1>2. CASE TailValue
  <2>1. PICK s, k : s = TheList /\ k = LastPos
    OBVIOUS
  <2>2. Len(s) \in Nat /\ k = IF Len(s) = 0 THEN 0 ELSE Len(s) - 1
    BY <2>1, TheListFacts DEF LastPos
  <2>3. L!Answer("tail", L!Item(k)) /\ TheList' = TheList
    BY <1>2, <2>1, <2>2, ReadLists DEF TailValue
  <2>4. L!Item(k) = L!Item(Len(s) - 1)
    <3>1. \A i : L!Item(i) = IF i \in 0 .. Len(s) - 1 THEN s[i + 1] ELSE NULL
      BY <2>1 DEF L!Item, TheList
    <3>2. CASE Len(s) = 0
      <4>1. k \notin 0 .. Len(s) - 1 /\ Len(s) - 1 \notin 0 .. Len(s) - 1
        BY <2>2, <3>2
      <4> QED
        BY <3>1, <4>1
    <3>3. CASE Len(s) # 0
      BY <2>2, <3>3
    <3> QED
      BY <3>2, <3>3
  <2>5. L!Answer("tail", L!Item(Len(s) - 1))
    BY <2>3, <2>4
  <2> QED
    BY <2>1, <2>3, <2>5 DEF L!Read, TheList
<1> QED
  BY <1>1, <1>2

\* A call that returns, of a client that has asked for nothing a block cannot
\* hold, is one of ListSpec.
LEMMA NextLists ==
  ASSUME Good, Good', Vacant, Next, misused = {}, misused' = {}, ~fault'
  PROVE  L!Next
<1>1. ASSUME NEW n \in Capacity, args' = <<n>>, Setup(n) \/ Resize(n) PROVE L!Next
  <2>1. n \in 0 .. SIZE_MAX
    BY WidthAssumption
  <2>2. L!Setup \/ L!Resize
    BY <1>1, <2>1, SetupLists, ResizeLists
  <2> QED
    BY <1>1, <2>2, Zenon DEF L!Next
<1>2. ASSUME NEW v \in Value, args' = <<v>>,
             PushHead(v) \/ PushTail(v) \/ Search(v) \/ DelValue(v)
      PROVE  L!Next
  <2>1. L!PushHead(v) \/ L!PushTail(v) \/ L!IndexOf(v) \/ L!DelValue(v)
    BY <1>2, PushHeadLists, PushTailLists, SearchLists, DelValueLists
  <2> QED
    BY <1>2, <2>1, Zenon DEF L!Next
<1>3. ASSUME NEW v \in Value, NEW pos \in Position, args' = <<v, pos>>,
             InsertValue(v, pos) \/ SetAt(pos, v)
      PROVE  L!Next
  <2>1. L!Insert(v, pos) \/ L!SetAt(v, pos)
    BY <1>3, InsertValueLists, SetAtLists
  <2> QED
    BY <1>3, <2>1, Zenon DEF L!Next
<1>4. ASSUME NEW pos \in Position, args' = <<pos>>, GetAt(pos) \/ DelAt(pos) PROVE L!Next
  <2>1. L!GetAt(pos) \/ L!DelAt(pos)
    BY <1>4, GetAtLists, DelAtLists
  <2> QED
    BY <1>4, <2>1, Zenon DEF L!Next
<1>5. ASSUME args' = <<>>, HeadValue \/ TailValue \/ Iter PROVE L!Next
  <2>1. L!Read
    BY <1>5, EndsLists, IterLists
  <2> QED
    BY <1>5, <2>1, Zenon DEF L!Next
<1>6. ASSUME args' = <<>>, PopHead \/ PopTail \/ Destroy PROVE L!Next
  <2>1. L!PopHead \/ L!PopTail \/ L!Destroy
    BY <1>6, PopHeadLists, PopTailLists, DestroyLists
  <2> QED
    BY <1>6, <2>1, Zenon DEF L!Next
<1> QED
  BY <1>1, <1>2, <1>3, <1>4, <1>5, <1>6, Zenon DEF Next

\* The refinement needs no more than Good and Vacant of the states.
Standing == Good /\ Vacant

LEMMA StandingAlways == Spec => []Standing
<1>1. Init => Standing
  BY InitSafe, EmptySeq DEF Safe, Standing, Init, EmptyList, Vacant
<1>2. Standing /\ [Next]_vars => Standing'
  <2>1. CASE Next
    BY <2>1, NextSafe, NextVacant DEF Standing
  <2>2. CASE UNCHANGED vars
    BY <2>2 DEF vars, list, Standing, Good, TypeOK, Fits, Vacant
  <2> QED
    BY <2>1, <2>2
<1> QED
  BY <1>1, <1>2, PTL DEF Spec

LEMMA StepLists ==
  Standing /\ Standing' /\ [Next]_vars =>
    [misused \cup misused' = {} /\ ~fault' => L!Next]_vars
<1> SUFFICES ASSUME Standing, Standing', Next, misused \cup misused' = {}, ~fault'
             PROVE  L!Next
  OBVIOUS
<1>1. misused = {} /\ misused' = {}
  OBVIOUS
<1> QED
  BY <1>1, NextLists DEF Standing

\* An array list is a list: a call that returns answers from the sequence of
\* its values and changes it as documented, whatever allocation failed, as long
\* as the client asks for what a block can hold.
THEOREM ImplementsList == Spec => ImplementsListSpec
<1>1. Init => L!Init
  <2> SUFFICES ASSUME Init PROVE L!Init
    OBVIOUS
  <2>1. Good /\ misused = {} /\ size = 0
    BY InitSafe DEF Safe, Init, EmptyList
  <2>2. TheList = <<>>
    BY <2>1, TheListFacts
  <2> QED
    BY <2>2 DEF Init, L!Init, TheList
<1> QED
  BY <1>1, StandingAlways, StepLists, PTL DEF Spec, ImplementsListSpec
=============================================================================
