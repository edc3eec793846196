------------------------- MODULE ArraySearchProofs -------------------------
(***************************************************************************)
(* Proofs about ArraySearch: the list stays as safe while it is searched,  *)
(* and the search keeps what array_list.h promises of it.                  *)
(***************************************************************************)
EXTENDS ArraySearch, ArrayListProofs

\* The window lies inside the list, and is empty only when the list is.
Window ==
  search # NULL =>
    /\ search \in [value : Value, lo : Nat, hi : Nat]
    /\ search.hi =< size
    /\ search.lo < search.hi \/ (size = 0 /\ search.lo = 0 /\ search.hi = 0)

\* Every cell of a sorted list that holds the value is in the window.
Narrowed ==
  search # NULL /\ misused = {} /\ Ascending =>
    Found(search.value) \subseteq search.lo .. search.hi - 1

SearchInv == Safe /\ Window /\ Narrowed
-----------------------------------------------------------------------------
(* The window and its middle *)

LEMMA WindowFacts ==
  ASSUME TypeOK, Window, search # NULL
  PROVE  /\ search.value \in Value /\ search.lo \in Nat /\ search.hi \in Nat
         /\ search.lo =< search.hi /\ search.hi =< size /\ size \in Nat
         /\ Mid \in Nat /\ search.lo =< Mid
         /\ search.lo < search.hi => Mid < search.hi
         /\ size = 0 => Mid = 0 /\ search.lo = 0 /\ search.hi = 0
         /\ size > 0 => search.lo < search.hi
<1>1. search.value \in Value /\ search.lo \in Nat /\ search.hi \in Nat
  BY DEF Window
<1>2. size \in Nat
  BY WidthAssumption DEF TypeOK
<1> QED
  BY <1>1, <1>2 DEF Window, Mid

\* The middle of the window of a list whose client behaves is a cell that has
\* been written, unless the list is empty.
LEMMA MidWritten ==
  ASSUME Good, Window, search # NULL, misused = {}, size > 0
  PROVE  Has(Mid) /\ array[Mid + 1] \in Value \cup {NULL}
<1>1. Mid \in Nat /\ Mid < size /\ size \in Nat
  BY WindowFacts DEF Good
<1>2. PICK n \in Nat : n = Len(array) /\ size =< n
  BY LenProperties DEF Good, Fits, TypeOK
<1>3. Mid + 1 \in 1 .. n /\ Mid + 1 \in 1 .. size
  BY <1>1, <1>2
<1>4. array[Mid + 1] \in Cell /\ array[Mid + 1] # JUNK
  BY <1>2, <1>3, LenProperties DEF Good, Fits, TypeOK, Cell
<1> QED
  BY <1>1, <1>2, <1>4 DEF Has, Cell

\* The cells of a sorted list that hold v are all on one side of a cell that
\* holds another address.
LEMMA OneSide ==
  ASSUME Good, misused = {}, Ascending, NEW v \in Value,
         NEW m \in 0 .. size - 1, NEW i \in Found(v)
  PROVE  /\ Lower(m, v) => i > m
         /\ Higher(m, v) => i < m
<1>1. size \in Nat
  BY WidthAssumption DEF Good, TypeOK
<1>2. PICK n \in Nat : n = Len(array) /\ size =< n
  BY LenProperties DEF Good, Fits, TypeOK
<1>3. i \in 0 .. size - 1 /\ array[i + 1] = v
  BY DEF Found
<1>4. m + 1 \in 1 .. n /\ m + 1 \in 1 .. size /\ i + 1 \in 1 .. size
  BY <1>1, <1>2, <1>3
<1>5. array[m + 1] \in Value \cup {NULL} /\ array[m + 1] # JUNK
  BY <1>2, <1>4, LenProperties DEF Good, Fits, TypeOK
<1>6. Address[array[m + 1]] \in Nat /\ Address[v] \in Nat
  BY <1>5, AddressAssumption
<1>7. i < m => Address[v] =< Address[array[m + 1]]
  BY <1>1, <1>3, <1>4 DEF Ascending
<1>8. m < i => Address[array[m + 1]] =< Address[v]
  BY <1>1, <1>3, <1>4 DEF Ascending
<1>9. m = i => array[m + 1] = v
  BY <1>3
<1> QED
  BY <1>1, <1>3, <1>5, <1>6, <1>7, <1>8, <1>9 DEF Lower, Higher
-----------------------------------------------------------------------------
(* The steps *)

\* A new search has the whole list for its window.
LEMMA StartSafe ==
  ASSUME SearchInv, NEW v \in Value, BinarySearch(v)
  PROVE  SearchInv'
<1>1. search' = [value |-> v, lo |-> 0, hi |-> size] /\ UNCHANGED vars
  BY DEF BinarySearch
<1>2. size \in Nat
  BY WidthAssumption DEF SearchInv, Safe, Good, TypeOK
<1>3. Safe'
  BY <1>1 DEF SearchInv, Safe, Good, TypeOK, Fits, FaultsOnlyWhenFull, vars
<1>4. /\ search' \in [value : Value, lo : Nat, hi : Nat]
      /\ search'.value = v /\ search'.lo = 0 /\ search'.hi = size
  BY <1>1, <1>2
<1>5. Window'
  BY <1>1, <1>2, <1>4 DEF Window, vars
<1>6. Narrowed'
  <2>1. size' = size /\ Found(search.value)' \subseteq 0 .. size - 1
    BY <1>1, <1>4 DEF Found, vars
  <2> QED
    BY <1>4, <2>1 DEF Narrowed
<1> QED
  BY <1>3, <1>5, <1>6 DEF SearchInv

\* The search ends safely, whatever its answer.
LEMMA FindsSafe ==
  ASSUME SearchInv, NEW i, Finds(i)
  PROVE  SearchInv'
<1>1. Return("binary_search_index_of", i) /\ search' = NULL /\ UNCHANGED misused
  BY DEF Finds, Ends
<1>2. Safe'
  BY <1>1, ReturnSafe DEF SearchInv, Safe
<1> QED
  BY <1>1, <1>2 DEF SearchInv, Window, Narrowed

\* It reads past the block of a list without cells only.
LEMMA OverrunsSafe ==
  ASSUME SearchInv, search # NULL, ~Has(Mid), Overruns
  PROVE  SearchInv'
<1>1. /\ Crash("binary_search_index_of") /\ search' = NULL /\ UNCHANGED misused
      /\ Good /\ Window
  BY DEF Overruns, Ends, SearchInv, Safe
<1>2. Marked
  BY <1>1 DEF Marked, Good, TypeOK
<1>3. ASSUME misused' = {} PROVE capacity = 0
  <2>1. misused = {} /\ Fits
    BY <1>1, <1>3 DEF Good
  <2>2. size = 0
    BY <1>1, <2>1, MidWritten, WindowFacts DEF Good
  <2>3. Mid = 0
    BY <1>1, <2>2, WindowFacts DEF Good
  <2> QED
    BY <1>1, <2>1, <2>3, LenProperties DEF Has, Fits, Good, TypeOK
<1>4. Safe'
  BY <1>1, <1>2, <1>3, CrashSafe DEF Safe
<1> QED
  BY <1>1, <1>4 DEF SearchInv, Window, Narrowed

\* A round of the loop that goes on keeps all cells that hold the value.
LEMMA NarrowSafe ==
  ASSUME SearchInv, search # NULL, NEW s,
         \/ Lower(Mid, search.value) /\ s = UpperHalf
         \/ Higher(Mid, search.value) /\ s = LowerHalf,
         Narrow(s)
  PROVE  SearchInv'
<1>1. Good /\ Window /\ TypeOK
  BY DEF SearchInv, Safe, Good
<1>2. /\ search.value \in Value /\ search.lo \in Nat /\ search.hi \in Nat
      /\ search.hi =< size /\ size \in Nat /\ Mid \in Nat /\ search.lo =< Mid
      /\ search.lo =< search.hi
      /\ search.lo < search.hi => Mid < search.hi
      /\ size = 0 => Mid = 0 /\ search.lo = 0 /\ search.hi = 0
      /\ size > 0 => search.lo < search.hi
  BY <1>1, WindowFacts
<1>3. search = [value |-> search.value, lo |-> search.lo, hi |-> search.hi]
  BY <1>1 DEF Window
<1>4. /\ s \in [value : Value, lo : Nat, hi : Nat] /\ s.value = search.value
      /\ \/ Lower(Mid, search.value) /\ s.lo = Mid + 1 /\ s.hi = search.hi
         \/ Higher(Mid, search.value) /\ s.lo = search.lo /\ s.hi = Mid
  BY <1>1, <1>2, <1>3 DEF UpperHalf, LowerHalf, Window
<1>5. CASE s.hi > s.lo /\ search' = s /\ UNCHANGED vars
  <2>1. Safe'
    BY <1>5 DEF SearchInv, Safe, Good, TypeOK, Fits, FaultsOnlyWhenFull, vars
  <2>2. size' = size /\ s.hi =< size
    BY <1>2, <1>4, <1>5 DEF vars
  <2>3. Window'
    BY <1>4, <1>5, <2>2 DEF Window
  <2>4. ASSUME misused' = {}, Ascending', NEW i \in Found(search.value)'
        PROVE  i \in search'.lo .. search'.hi - 1
    <3>1. misused = {} /\ Ascending /\ i \in Found(search.value)
      BY <1>4, <1>5, <2>4 DEF vars, Ascending, Found, Has
    <3>2. i \in search.lo .. search.hi - 1 /\ i \in 0 .. size - 1
      BY <3>1 DEF SearchInv, Narrowed, Found
    <3>3. Mid \in 0 .. size - 1
      BY <1>2, <3>2
    <3>4. /\ Lower(Mid, search.value) => i > Mid
          /\ Higher(Mid, search.value) => i < Mid
      BY <1>1, <1>2, <3>1, <3>3, OneSide
    <3> QED
      BY <1>2, <1>4, <1>5, <3>2, <3>4
  <2>5. Narrowed'
    BY <2>4 DEF Narrowed
  <2> QED
    BY <2>1, <2>3, <2>5 DEF SearchInv
<1>6. CASE Finds(SIZE_MAX)
  BY <1>6, FindsSafe
<1> QED
  BY <1>5, <1>6 DEF Narrow

LEMMA ProbeSafe ==
  ASSUME SearchInv, Probe
  PROVE  SearchInv'
<1>1. search # NULL
  BY DEF Probe
<1>2. CASE ~Has(Mid) /\ Overruns
  BY <1>1, <1>2, OverrunsSafe
<1>3. CASE Finds(Mid)
  BY <1>3, FindsSafe
<1>4. CASE Lower(Mid, search.value) /\ Narrow(UpperHalf)
  BY <1>1, <1>4, NarrowSafe
<1>5. CASE Higher(Mid, search.value) /\ Narrow(LowerHalf)
  BY <1>1, <1>5, NarrowSafe
<1> QED
  BY <1>2, <1>3, <1>4, <1>5 DEF Probe

LEMMA SearchInductive == SearchInv /\ [SearchNext]_svars => SearchInv'
<1> SUFFICES ASSUME SearchInv, [SearchNext]_svars PROVE SearchInv'
  OBVIOUS
<1>1. CASE search = NULL /\ Next /\ UNCHANGED search
  <2>1. Safe'
    BY <1>1, NextSafe DEF SearchInv, Safe
  <2> QED
    BY <1>1, <2>1 DEF SearchInv, Window, Narrowed
<1>2. ASSUME NEW v \in Value, BinarySearch(v) PROVE SearchInv'
  BY <1>2, StartSafe
<1>3. CASE Probe
  BY <1>3, ProbeSafe
<1>4. CASE UNCHANGED svars
  <2>1. Safe'
    BY <1>4 DEF SearchInv, Safe, Good, TypeOK, Fits, FaultsOnlyWhenFull, svars, vars
  <2> QED
    BY <1>4, <2>1
       DEF SearchInv, Window, Narrowed, Ascending, Found, Has, svars, vars
<1> QED
  BY <1>1, <1>2, <1>3, <1>4 DEF SearchNext

LEMMA SearchInvAlways == SearchSpec => []SearchInv
<1>1. SearchInit => SearchInv
  BY InitSafe DEF SearchInit, SearchInv, Window, Narrowed
<1> QED
  BY <1>1, SearchInductive, PTL DEF SearchSpec
-----------------------------------------------------------------------------
(* The theorems *)

\* The invariants of the list hold between the rounds of a search too, and a
\* search goes wrong in a list without cells only.
THEOREM SearchKeepsList ==
  SearchSpec => []TypeOK /\ []BlockFits /\ []ValuesFit /\ []FaultsOnlyWhenFull
<1>1. SearchInv => TypeOK /\ BlockFits /\ ValuesFit /\ FaultsOnlyWhenFull
  BY DEF SearchInv, Safe, Good, Fits, BlockFits, ValuesFit
<1> QED
  BY <1>1, SearchInvAlways, PTL

\* Which steps end a search of a list that has cells, and how: not by reading
\* past the block.
LEMMA SearchEnds ==
  ASSUME SearchInv, Probe, misused = {}, size > 0, Ascending, search' = NULL
  PROVE  /\ fault' = fault /\ ~fault
         /\ \/ Mid \in Found(search.value) /\ ret'[2] = Mid
            \/ Found(search.value) = {} /\ ret'[2] = SIZE_MAX
<1>1. search # NULL /\ Good /\ Window /\ TypeOK
  BY DEF Probe, SearchInv, Safe, Good
<1>2. Has(Mid) /\ array[Mid + 1] \in Value \cup {NULL}
  BY <1>1, MidWritten
<1>3. /\ search.value \in Value /\ search.lo \in Nat /\ search.hi \in Nat
      /\ Mid \in Nat /\ search.lo =< Mid /\ Mid < search.hi
      /\ search.hi =< size /\ size \in Nat
  BY <1>1, WindowFacts
<1>4. array[Mid + 1] # JUNK
  BY <1>2, CellAssumption
<1>5. CASE array[Mid + 1] \in {search.value, JUNK} /\ Finds(Mid)
  <2>1. Mid \in Found(search.value)
    BY <1>2, <1>3, <1>4, <1>5 DEF Found
  <2> QED
    BY <1>5, <2>1 DEF Finds, Return, Answer
<1>6. ASSUME NEW s, Narrow(s),
             \/ Lower(Mid, search.value) /\ s = UpperHalf
             \/ Higher(Mid, search.value) /\ s = LowerHalf
      PROVE  /\ fault' = fault /\ ~fault
             /\ Found(search.value) = {} /\ ret'[2] = SIZE_MAX
  <2>1. search = [value |-> search.value, lo |-> search.lo, hi |-> search.hi]
    BY <1>1 DEF Window
  <2>2. /\ s \in [value : Value, lo : Nat, hi : Nat]
        /\ \/ Lower(Mid, search.value) /\ s.lo = Mid + 1 /\ s.hi = search.hi
           \/ Higher(Mid, search.value) /\ s.lo = search.lo /\ s.hi = Mid
    BY <1>3, <1>6, <2>1 DEF UpperHalf, LowerHalf
  <2>3. s.hi =< s.lo /\ Finds(SIZE_MAX)
    BY <1>6, <2>2, SearchAssumption DEF Narrow
  <2>4. ASSUME NEW i \in Found(search.value) PROVE FALSE
    <3>1. i \in search.lo .. search.hi - 1
      BY <1>1, <2>4 DEF SearchInv, Narrowed
    <3>2. Mid \in 0 .. size - 1
      BY <1>3
    <3>3. /\ Lower(Mid, search.value) => i > Mid
          /\ Higher(Mid, search.value) => i < Mid
      BY <1>1, <1>3, <2>4, <3>2, OneSide
    <3> QED
      BY <1>3, <2>2, <2>3, <3>1, <3>3
  <2> QED
    BY <2>3, <2>4 DEF Finds, Return, Answer
<1> QED
  BY <1>2, <1>5, <1>6 DEF Probe

\* The search of a sorted list that is not empty answers with a cell that
\* holds the value, or -1 when none does (array_list.h), however many values
\* the list holds and however many are alike.
THEOREM SearchFindsCorrect == SearchSpec => SearchFinds
<1>1. SearchInv /\ [SearchNext]_svars =>
        [ misused = {} /\ search # NULL /\ search' = NULL /\ size > 0 /\ Ascending =>
          /\ ~fault'
          /\ IF Found(search.value) = {} THEN ret'[2] = SIZE_MAX
             ELSE ret'[2] \in Found(search.value) ]_svars
  <2> SUFFICES ASSUME SearchInv, SearchNext, misused = {}, search # NULL,
                      search' = NULL, size > 0, Ascending
               PROVE  /\ ~fault'
                      /\ IF Found(search.value) = {} THEN ret'[2] = SIZE_MAX
                         ELSE ret'[2] \in Found(search.value)
    OBVIOUS
  <2>1. Probe
    BY DEF SearchNext, BinarySearch
  <2>2. /\ fault' = fault /\ ~fault
        /\ \/ Mid \in Found(search.value) /\ ret'[2] = Mid
           \/ Found(search.value) = {} /\ ret'[2] = SIZE_MAX
    BY <2>1, SearchEnds
  <2> QED
    BY <2>2
<1> QED
  BY <1>1, SearchInvAlways, PTL DEF SearchSpec, SearchFinds

\* Every round of the loop leaves at most half of the window, whatever the
\* cells hold and whatever the client asked for: it ends.
THEOREM SearchHalvesCorrect == SearchSpec => SearchHalves
<1>1. SearchInv /\ [SearchNext]_svars =>
        [ search # NULL /\ search' # NULL =>
          2 * (search'.hi - search'.lo) =< search.hi - search.lo ]_svars
  <2> SUFFICES ASSUME SearchInv, SearchNext, search # NULL, search' # NULL,
                      svars' # svars
               PROVE  2 * (search'.hi - search'.lo) =< search.hi - search.lo
    OBVIOUS
  <2>1. Probe
    BY DEF SearchNext, BinarySearch
  <2>2. Window /\ TypeOK
    BY DEF SearchInv, Safe, Good
  <2>3. /\ search.lo \in Nat /\ search.hi \in Nat /\ search.lo =< search.hi
        /\ Mid \in Nat
    BY <2>2, WindowFacts
  <2>4. search = [value |-> search.value, lo |-> search.lo, hi |-> search.hi]
    BY <2>2 DEF Window
  <2>5. search' = UpperHalf \/ search' = LowerHalf
    BY <2>1 DEF Probe, Narrow, Finds, Overruns, Ends
  <2>6. \/ search'.lo = Mid + 1 /\ search'.hi = search.hi
        \/ search'.lo = search.lo /\ search'.hi = Mid
    BY <2>4, <2>5 DEF UpperHalf, LowerHalf
  <2> QED
    BY <2>3, <2>6 DEF Mid
<1> QED
  BY <1>1, SearchInvAlways, PTL DEF SearchSpec, SearchHalves
=============================================================================
