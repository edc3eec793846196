---------------------------- MODULE ArraySearch ----------------------------
(***************************************************************************)
(* The binary search of src/src/algos/array.h, as                          *)
(* array_list_binary_search_index_of runs it on the cells of an array      *)
(* list: one step per round of its loop.                                   *)
(*                                                                         *)
(* search is NULL, or the search under way: the value and the window       *)
(* lo .. hi - 1 of the C array that is left.  Pointers are compared by     *)
(* their addresses; the NULL that set_at fills with is the lowest one, and *)
(* a JUNK cell holds any.                                                  *)
(***************************************************************************)
EXTENDS ArrayList

CONSTANT Address   \* of each stored pointer, and of NULL

ASSUME AddressAssumption ==
  /\ Address \in [Value \cup {NULL} -> Nat]
  /\ \A v, w \in Value \cup {NULL} : Address[v] = Address[w] => v = w
  /\ \A v \in Value : Address[NULL] < Address[v]

\* A search under way is told from none
ASSUME SearchAssumption == NULL \notin [value : Value, lo : Nat, hi : Nat]

VARIABLE search
svars == <<vars, search>>

SearchInit == Init /\ search = NULL

\* Cell i holds a lower, or a higher, address than v
Lower(i, v) == array[i + 1] # JUNK => Address[array[i + 1]] < Address[v]
Higher(i, v) == array[i + 1] # JUNK => Address[array[i + 1]] > Address[v]

\* The do-while has a first round even when the window is empty
BinarySearch(v) ==
  /\ search = NULL /\ ~fault
  /\ search' = [value |-> v, lo |-> 0, hi |-> size]
  /\ UNCHANGED vars

MidRoundedUp == (search.lo + search.hi + 1) \div 2   \* mutant
Mid == (search.lo + search.hi) \div 2

\* The search ends: with an answer, or by reading past the block
Ends == search' = NULL /\ args' = <<search.value>> /\ UNCHANGED misused
Finds(i) == Return("binary_search_index_of", i) /\ Ends
Overruns == Crash("binary_search_index_of") /\ Ends

\* The loop goes on while the window s has cells
Narrow(s) ==
  \/ s.hi > s.lo /\ search' = s /\ UNCHANGED vars
  \/ s.hi =< s.lo /\ Finds(SIZE_MAX)

LowerHalfClosed == [search EXCEPT !.hi = Mid - 1]   \* mutant
LowerHalf == [search EXCEPT !.hi = Mid]
UpperHalf == [search EXCEPT !.lo = Mid + 1]

Probe ==
  /\ search # NULL
  /\ \/ ~Has(Mid) /\ Overruns
     \/ Has(Mid) /\ array[Mid + 1] \in {search.value, JUNK} /\ Finds(Mid)
     \/ Has(Mid) /\ Lower(Mid, search.value) /\ Narrow(UpperHalf)
     \/ Has(Mid) /\ Higher(Mid, search.value) /\ Narrow(LowerHalf)

SearchNext ==
  \/ search = NULL /\ Next /\ UNCHANGED search
  \/ \E v \in Value : BinarySearch(v)
  \/ Probe

SearchSpec == SearchInit /\ [][SearchNext]_svars
-----------------------------------------------------------------------------
(* Properties *)

Ascending ==
  \A i, j \in 1 .. size : i < j => Address[array[i]] =< Address[array[j]]

\* array_list.h promises of a sorted list the "index or -1 if not found".
\* The search keeps that promise, for values stored more than once and for
\* the NULLs of set_at too, unless the list is empty: then cell 0, which is
\* read all the same, may still hold the value of a deleted item.
SearchFinds ==
  [][ misused = {} /\ search # NULL /\ search' = NULL /\ size > 0 /\ Ascending =>
      /\ ~fault'
      /\ IF Found(search.value) = {} THEN ret'[2] = SIZE_MAX
         ELSE ret'[2] \in Found(search.value) ]_svars

\* It is O(lg n), and so ends: every round leaves at most half of the window,
\* whatever the cells hold.
SearchHalves ==
  [][ search # NULL /\ search' # NULL =>
      2 * (search'.hi - search'.lo) =< search.hi - search.lo ]_svars
=============================================================================
