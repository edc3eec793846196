-------------------------- MODULE HashTableProofs --------------------------
(***************************************************************************)
(* Proofs about HashTable and TableIteration, for every set of addresses,  *)
(* keys and values, every hash function, all index sizes and every bound   *)
(* on entry_size.                                                          *)
(***************************************************************************)
EXTENDS TableIteration, SeqLemmas

-----------------------------------------------------------------------------
(* The operators of the table *)

\* f[i] is what is picked out of the first i elements of a list.
Picks(f, n, list, those, S) ==
  /\ f \in [0 .. n -> Seq(S)] /\ f[0] = <<>>
  /\ \A i \in 1 .. n :
       f[i] = IF list[i] \in those THEN Append(f[i - 1], list[i]) ELSE f[i - 1]

LEMMA OnlySteps ==
  ASSUME NEW S, NEW list \in Seq(S), NEW those
  PROVE  \E f : Picks(f, Len(list), list, those, S) /\ f[Len(list)] = Only(list, those)
<1>1. PICK n \in Nat : n = Len(list) /\ DOMAIN list = 1 .. n
  BY LenProperties
<1>2. \A i \in 1 .. n : list[i] \in S
  BY <1>1, ElementOfSeq
<1> DEFINE loop(g) == [i \in 0 .. n |->
                         IF i = 0 THEN <<>>
                         ELSE IF list[i] \in those THEN Append(g[i - 1], list[i])
                         ELSE g[i - 1]]
           only == CHOOSE g : g = loop(g)
<1>3. only = loop(only)
  <2> DEFINE step == [i \in 1 .. n |-> [s \in Seq(S) |->
                        IF list[i] \in those THEN Append(s, list[i]) ELSE s]]
  <2>1. <<>> \in Seq(S) /\ \A i \in 1 .. n : \A s \in Seq(S) : step[i][s] \in Seq(S)
    BY <1>2, AppendProperties
  <2>2. PICK A : A = Seq(S)
    OBVIOUS
  <2>3. PICK start : start = <<>>
    OBVIOUS
  <2>4. PICK st : st = step
    OBVIOUS
  <2>5. start \in A /\ \A i \in 1 .. n : \A a \in A : st[i][a] \in A
    BY <2>1, <2>2, <2>3, <2>4, Zenon
  <2>6. PICK h : Computes(h, n, A, start, st)
    BY <2>5, LoopExists
  <2>7. h \in [0 .. n -> Seq(S)] /\ h[0] = <<>>
    BY <2>2, <2>3, <2>6, Zenon DEF Computes
  <2>8. \A i \in 1 .. n : h[i] = IF list[i] \in those THEN Append(h[i - 1], list[i])
                                 ELSE h[i - 1]
    <3> TAKE i \in 1 .. n
    <3>1. h[i - 1] \in Seq(S)
      BY <2>7
    <3>2. step[i][h[i - 1]] = IF list[i] \in those THEN Append(h[i - 1], list[i])
                              ELSE h[i - 1]
      BY <3>1
    <3>3. h[i] = st[i][h[i - 1]]
      BY <2>6, Zenon DEF Computes
    <3> HIDE DEF step
    <3> QED
      BY <2>4, <3>2, <3>3, Zenon
  <2>9. ASSUME NEW i \in 0 .. n PROVE h[i] = loop(h)[i]
    <3>1. CASE i = 0
      BY <2>7, <3>1
    <3>2. CASE i # 0
      <4>1. i \in 1 .. n
        BY <3>2
      <4> QED
        BY <2>8, <3>2, <4>1
    <3> QED
      BY <3>1, <3>2
  <2>10. h = loop(h)
    BY <2>7, <2>9
  <2> HIDE DEF loop
  <2> QED
    BY <2>10
<1>4. Only(list, those) = only[n]
  BY <1>1 DEF Only
<1>5. only[0] = <<>>
  <2> HIDE DEF only
  <2> QED
    BY <1>3
<1>6. \A i \in 1 .. n : only[i] = IF list[i] \in those THEN Append(only[i - 1], list[i])
                                  ELSE only[i - 1]
  <2> HIDE DEF only
  <2> TAKE i \in 1 .. n
  <2>1. i \in 0 .. n /\ i # 0
    OBVIOUS
  <2> QED
    BY <1>3, <2>1
<1>7. only \in [0 .. n -> Seq(S)]
  <2> DEFINE T == {i \in 0 .. n : only[i] \in Seq(S)}
  <2>1. 0 \in T
    <3>1. <<>> \in Seq(S)
      OBVIOUS
    <3>2. 0 \in 0 .. n /\ only[0] \in Seq(S)
      <4> HIDE DEF only
      <4> QED
        BY <1>5, <3>1
    <3> HIDE DEF only
    <3> QED
      BY <3>2
  <2>2. ASSUME NEW i \in 1 .. n, i - 1 \in T PROVE i \in T
    <3> HIDE DEF only
    <3>1. only[i - 1] \in Seq(S) /\ list[i] \in S
      BY <1>2, <2>2
    <3>2. Append(only[i - 1], list[i]) \in Seq(S)
      BY <3>1, AppendProperties
    <3>3. only[i] \in Seq(S)
      BY <1>6, <3>1, <3>2
    <3> QED
      BY <3>3
  <2>3. \A i \in 0 .. n : i \in T
    <3> HIDE DEF T
    <3> QED
      BY <2>1, <2>2, UpTo
  <2>4. \A i \in 0 .. n : only[i] \in Seq(S)
    <3> HIDE DEF only
    <3> QED
      BY <2>3
  <2>5. only = [i \in 0 .. n |-> only[i]]
    <3> HIDE DEF only
    <3> QED
      BY <1>3
  <2> HIDE DEF only
  <2> QED
    BY <2>4, <2>5
<1> HIDE DEF only
<1>8. Picks(only, n, list, those, S)
  BY <1>5, <1>6, <1>7 DEF Picks
<1> QED
  BY <1>1, <1>4, <1>8

\* What del and rehash pick out of a list: nothing else, nothing twice.
LEMMA OnlyFacts ==
  ASSUME NEW S, NEW list \in Seq(S), NEW those
  PROVE  /\ Only(list, those) \in Seq(S)
         /\ ToSet(Only(list, those)) = ToSet(list) \cap those
         /\ IsInjective(list) => IsInjective(Only(list, those))
<1>1. PICK n \in Nat : n = Len(list) /\ DOMAIN list = 1 .. n
  BY LenProperties
<1>2. \A i \in 1 .. n : list[i] \in S
  BY <1>1, ElementOfSeq
<1>3. PICK only : Picks(only, n, list, those, S) /\ only[n] = Only(list, those)
  BY <1>1, OnlySteps
<1>4. only[n] = Only(list, those)
  BY <1>3
<1>5. only[0] = <<>>
  BY <1>3 DEF Picks
<1>6. \A i \in 1 .. n : only[i] = IF list[i] \in those THEN Append(only[i - 1], list[i])
                                  ELSE only[i - 1]
  BY <1>3 DEF Picks
<1> DEFINE good(i) ==
      /\ only[i] \in Seq(S)
      /\ \A a : a \in ToSet(only[i]) <=> a \in those /\ \E j \in 1 .. i : list[j] = a
      /\ IsInjective(list) => IsInjective(only[i])
    T == {i \in 0 .. n : good(i)}
<1>7. 0 \in T
  <2>1. <<>> \in Seq(S) /\ ToSet(<<>>) = {} /\ IsInjective(<<>>) /\ 1 .. 0 = {}
    BY DEF ToSet, IsInjective
  <2>2. good(0)
    BY <1>5, <2>1
  <2> HIDE DEF good
  <2> QED
    BY <2>2
<1>8. ASSUME NEW i \in 1 .. n, i - 1 \in T PROVE i \in T
  <2>1. good(i - 1)
    BY <1>8
  <2>2. list[i] \in S
    BY <1>2
  <2>3. \A j : j \in 1 .. i <=> j \in 1 .. i - 1 \/ j = i
    OBVIOUS
  <2>4. CASE list[i] \in those
    <3>1. only[i] = Append(only[i - 1], list[i])
      BY <1>6, <2>4
    <3>2. /\ only[i] \in Seq(S)
          /\ ToSet(only[i]) = ToSet(only[i - 1]) \cup {list[i]}
          /\ IsInjective(only[i - 1]) /\ list[i] \notin ToSet(only[i - 1])
               => IsInjective(only[i])
      BY <2>1, <2>2, <3>1, AppendFacts
    <3>3. IsInjective(list) => list[i] \notin ToSet(only[i - 1])
      <4>1. SUFFICES ASSUME IsInjective(list), NEW j \in 1 .. i - 1, list[j] = list[i]
                     PROVE  FALSE
        BY <2>1
      <4>2. j \in 1 .. n /\ j # i
        OBVIOUS
      <4> QED
        BY <1>1, <4>1, <4>2 DEF IsInjective
    <3>4. \A a : a \in ToSet(only[i]) <=> a \in those /\ \E j \in 1 .. i : list[j] = a
      BY <2>1, <2>3, <2>4, <3>2, Zenon
    <3>5. good(i)
      BY <2>1, <3>2, <3>3, <3>4
    <3> HIDE DEF good
    <3> QED
      BY <3>5
  <2>5. CASE list[i] \notin those
    <3>1. only[i] = only[i - 1]
      BY <1>6, <2>5
    <3>2. \A a : a \in ToSet(only[i]) <=> a \in those /\ \E j \in 1 .. i : list[j] = a
      BY <2>1, <2>3, <2>5, <3>1, Zenon
    <3>3. good(i)
      BY <2>1, <3>1, <3>2
    <3> HIDE DEF good
    <3> QED
      BY <3>3
  <2> QED
    BY <2>4, <2>5
<1>9. good(n)
  <2> HIDE DEF good, T
  <2>1. n \in 0 .. n
    OBVIOUS
  <2>2. n \in T
    BY <1>7, <1>8, <2>1, UpTo
  <2> QED
    BY <2>2 DEF T
<1>10. ToSet(only[n]) = ToSet(list) \cap those
  BY <1>1, <1>9 DEF ToSet
<1> QED
  BY <1>4, <1>9, <1>10

\* a is in the sequence s, and c at its place or after.
Ordered(s, a, c) == \E j, k \in DOMAIN s : j =< k /\ s[j] = a /\ s[k] = c

LEMMA AppendOrder ==
  ASSUME NEW S, NEW s \in Seq(S), NEW e \in S, NEW t, t = Append(s, e)
  PROVE  /\ \A a, c : Ordered(s, a, c) => Ordered(t, a, c)
         /\ \A a \in ToSet(s) \cup {e} : Ordered(t, a, e)
<1>1. PICK m \in Nat : m = Len(s) /\ DOMAIN s = 1 .. m
  BY LenProperties
<1>2. /\ t \in Seq(S) /\ Len(t) = m + 1 /\ t[m + 1] = e
      /\ \A i \in 1 .. m : t[i] = s[i]
  BY <1>1, AppendProperties
<1>3. DOMAIN t = 1 .. m + 1
  BY <1>2, LenProperties
<1>4. \A a, c : Ordered(s, a, c) => Ordered(t, a, c)
  BY <1>1, <1>2, <1>3 DEF Ordered
<1>5. m + 1 \in DOMAIN t /\ \A i \in 1 .. m : i \in DOMAIN t /\ i =< m + 1
  BY <1>3
<1>6. ASSUME NEW a \in ToSet(s) PROVE Ordered(t, a, e)
  <2>1. PICK i \in 1 .. m : s[i] = a
    BY <1>1 DEF ToSet
  <2> QED
    BY <1>2, <1>5, <2>1 DEF Ordered
<1>7. Ordered(t, e, e)
  BY <1>2, <1>5 DEF Ordered
<1> QED
  BY <1>4, <1>6, <1>7

\* What Only picks out of a list stays in order.
LEMMA OnlyOrder ==
  ASSUME NEW S, NEW list \in Seq(S), NEW those, NEW a \in those, NEW c \in those,
         Ordered(list, a, c)
  PROVE  Ordered(Only(list, those), a, c)
<1>1. PICK n \in Nat : n = Len(list) /\ DOMAIN list = 1 .. n
  BY LenProperties
<1>2. \A i \in 1 .. n : list[i] \in S
  BY <1>1, ElementOfSeq
<1>3. PICK only : Picks(only, n, list, those, S) /\ only[n] = Only(list, those)
  BY <1>1, OnlySteps
<1> DEFINE good(i) == \A j, k \in 1 .. i :
             j =< k /\ list[j] \in those /\ list[k] \in those =>
               Ordered(only[i], list[j], list[k])
           T == {i \in 0 .. n : good(i)}
<1>4. 0 \in T
  OBVIOUS
<1>5. ASSUME NEW i \in 1 .. n, i - 1 \in T PROVE i \in T
  <2>1. good(i - 1) /\ only[i - 1] \in Seq(S) /\ list[i] \in S
    BY <1>2, <1>3, <1>5 DEF Picks
  <2>2. PICK s, e, t : s = only[i - 1] /\ e = list[i] /\ t = only[i]
    OBVIOUS
  <2>3. t = IF e \in those THEN Append(s, e) ELSE s
    BY <1>3, <2>2 DEF Picks
  <2>4. ASSUME NEW j \in 1 .. i, NEW k \in 1 .. i, j =< k,
               list[j] \in those, list[k] \in those
        PROVE  Ordered(only[i], list[j], list[k])
    <3>1. CASE k # i
      <4>1. j \in 1 .. i - 1 /\ k \in 1 .. i - 1
        BY <2>4, <3>1
      <4>2. Ordered(only[i - 1], list[j], list[k])
        BY <2>1, <2>4, <4>1
      <4>3. CASE e \in those
        <5>1. t = Append(s, e) /\ Ordered(s, list[j], list[k])
          BY <2>2, <2>3, <4>2, <4>3
        <5>2. PICK x, y : x = list[j] /\ y = list[k]
          OBVIOUS
        <5>3. s \in Seq(S) /\ e \in S /\ Ordered(s, x, y)
          BY <2>2, <2>1, <5>1, <5>2
        <5>4. Ordered(t, x, y)
          BY <5>1, <5>3, AppendOrder
        <5> QED
          BY <2>2, <5>2, <5>4
      <4>4. CASE e \notin those
        BY <2>2, <2>3, <4>2, <4>4
      <4> QED
        BY <4>3, <4>4
    <3>2. CASE k = i
      <4>1. t = Append(s, e)
        BY <2>2, <2>4, <2>3, <3>2
      <4>2. list[j] \in ToSet(only[i - 1]) \cup {list[i]}
        <5>1. CASE j = i
          BY <5>1
        <5>2. CASE j # i
          <6>1. j \in 1 .. i - 1 /\ j =< j
            BY <2>4, <5>2
          <6>2. Ordered(only[i - 1], list[j], list[j])
            BY <2>1, <2>4, <6>1
          <6> QED
            BY <6>2 DEF Ordered, ToSet
        <5> QED
          BY <5>1, <5>2
      <4>3. PICK x : x = list[j]
        OBVIOUS
      <4>4. s \in Seq(S) /\ e \in S /\ x \in ToSet(s) \cup {e}
        BY <2>2, <2>1, <4>2, <4>3
      <4>5. Ordered(t, x, e)
        BY <4>1, <4>4, AppendOrder
      <4> QED
        BY <2>2, <3>2, <4>3, <4>5
    <3> QED
      BY <3>1, <3>2
  <2> QED
    BY <2>4
<1>6. good(n)
  <2> HIDE DEF good, T
  <2>1. n \in 0 .. n
    OBVIOUS
  <2>2. n \in T
    BY <1>4, <1>5, <2>1, UpTo
  <2> QED
    BY <2>2 DEF T
<1>7. PICK j \in 1 .. n, k \in 1 .. n : j =< k /\ list[j] = a /\ list[k] = c
  BY <1>1 DEF Ordered
<1> QED
  BY <1>3, <1>6, <1>7

\* The entries of the lists of an index of n buckets
All(idx, n) == UNION {ToSet(Entries(idx[b])) : b \in 0 .. n - 1}

\* An index of n buckets whose entries, in heap h, are in the bucket of their
\* key and have keys of their own.  One of less than two buckets has no entries.
Sound(idx, n, h) ==
  /\ idx \in [0 .. n - 1 -> {NULL} \cup Seq(Addr)]
  /\ \A b \in 0 .. n - 1 :
       /\ IsInjective(Entries(idx[b]))
       /\ \A a \in ToSet(Entries(idx[b])) :
            h[a] # NULL /\ n >= 2 /\ Slot(h[a].key, n) = b
       /\ \A a, c \in ToSet(Entries(idx[b])) : h[a].key = h[c].key => a = c

LEMMA SlotFacts ==
  ASSUME NEW k \in Key, NEW n \in IndexSize, n >= 2
  PROVE  Slot(k, n) \in 0 .. n - 1
<1>1. Hash[k][n] \in Nat
  BY HashAssumption
<1>2. n - 1 \in Nat /\ n - 1 > 0
  BY SizeAssumption
<1>3. \A m \in Nat, d \in Nat : d > 0 => m % d \in 0 .. d - 1
  OBVIOUS
<1>4. Slot(k, n) \in 0 .. n - 1 - 1
  BY <1>1, <1>2, <1>3 DEF Slot
<1> QED
  BY <1>2, <1>4

LEMMA EntriesFacts ==
  ASSUME NEW list \in {NULL} \cup Seq(Addr)
  PROVE  Entries(list) \in Seq(Addr) /\ ToSet(Entries(list)) \subseteq Addr
<1>1. Entries(list) \in Seq(Addr)
  BY DEF Entries
<1> QED
  BY <1>1, ElementOfSeq DEF ToSet

\* The members of a sound index: allocated, with keys of their own.
LEMMA AllFacts ==
  ASSUME NEW n \in Nat, NEW idx, NEW h, Sound(idx, n, h)
  PROVE  /\ All(idx, n) \subseteq Addr
         /\ \A a \in All(idx, n) : h[a] # NULL /\ n >= 2
         /\ \A a, c \in All(idx, n) : h[a].key = h[c].key => a = c
         /\ \A b \in 0 .. n - 1, a \in All(idx, n) :
              a \in ToSet(Entries(idx[b])) <=> Slot(h[a].key, n) = b
         /\ \A b \in 0 .. n - 1 : ToSet(Entries(idx[b])) \subseteq All(idx, n)
<1>1. ASSUME NEW b \in 0 .. n - 1
      PROVE  ToSet(Entries(idx[b])) \subseteq Addr
  <2>1. idx[b] \in {NULL} \cup Seq(Addr)
    BY DEF Sound
  <2> QED
    BY <2>1, EntriesFacts
<1>2. \A a : a \in All(idx, n) <=> \E b \in 0 .. n - 1 : a \in ToSet(Entries(idx[b]))
  BY DEF All
<1>3. ASSUME NEW a \in All(idx, n)
      PROVE  h[a] # NULL /\ n >= 2 /\ a \in Addr
             /\ \A b \in 0 .. n - 1 : a \in ToSet(Entries(idx[b])) <=> Slot(h[a].key, n) = b
  <2>1. PICK b \in 0 .. n - 1 : a \in ToSet(Entries(idx[b]))
    BY <1>2
  <2>2. h[a] # NULL /\ n >= 2 /\ Slot(h[a].key, n) = b
    BY <2>1 DEF Sound
  <2>3. \A d \in 0 .. n - 1 : a \in ToSet(Entries(idx[d])) => Slot(h[a].key, n) = d
    BY DEF Sound
  <2> QED
    BY <1>1, <2>1, <2>2, <2>3
<1>4. ASSUME NEW a \in All(idx, n), NEW c \in All(idx, n), h[a].key = h[c].key
      PROVE  a = c
  <2>1. PICK b \in 0 .. n - 1 : a \in ToSet(Entries(idx[b]))
    BY <1>2
  <2>2. c \in ToSet(Entries(idx[b]))
    BY <1>3, <1>4, <2>1
  <2> QED
    BY <1>4, <2>1, <2>2 DEF Sound
<1> QED
  BY <1>2, <1>3, <1>4

\* What iter meets in a sound index: each of its members once.
LEMMA FlatFacts ==
  ASSUME NEW n \in Nat, NEW idx, NEW h, Sound(idx, n, h)
  PROVE  LET flat == FlattenSeq([i \in 1 .. n |-> Entries(idx[i - 1])])
         IN  flat \in Seq(Addr) /\ ToSet(flat) = All(idx, n) /\ IsInjective(flat)
<1> DEFINE f == [i \in 1 .. n |-> Entries(idx[i - 1])]
<1>1. \A i \in 1 .. n : i - 1 \in 0 .. n - 1 /\ idx[i - 1] \in {NULL} \cup Seq(Addr)
  BY DEF Sound
<1>2. f \in [1 .. n -> Seq(Addr)]
  BY <1>1, EntriesFacts
<1>3. \A i \in 1 .. n : f[i] = Entries(idx[i - 1]) /\ IsInjective(f[i])
  BY <1>1 DEF Sound
<1>4. ASSUME NEW i \in 1 .. n, NEW j \in 1 .. n, i # j
      PROVE  ToSet(f[i]) \cap ToSet(f[j]) = {}
  <2>1. ASSUME NEW a \in ToSet(f[i]), a \in ToSet(f[j]) PROVE FALSE
    <3>1. a \in ToSet(Entries(idx[i - 1])) /\ a \in ToSet(Entries(idx[j - 1]))
      BY <1>3, <2>1
    <3>2. Slot(h[a].key, n) = i - 1 /\ Slot(h[a].key, n) = j - 1
      BY <1>1, <3>1 DEF Sound
    <3> QED
      BY <1>4, <3>2
  <2> QED
    BY <2>1
<1>5. PICK g : g = f
  OBVIOUS
<1>6. /\ g \in [1 .. n -> Seq(Addr)] /\ \A i \in 1 .. n : IsInjective(g[i])
      /\ \A i, j \in 1 .. n : i # j => ToSet(g[i]) \cap ToSet(g[j]) = {}
  BY <1>2, <1>3, <1>4, <1>5, Zenon
<1>7. /\ FlattenSeq(g) \in Seq(Addr) /\ IsInjective(FlattenSeq(g))
      /\ ToSet(FlattenSeq(g)) = UNION {ToSet(g[i]) : i \in 1 .. n}
  BY <1>6, FlattenFacts
<1>8. UNION {ToSet(g[i]) : i \in 1 .. n} = All(idx, n)
  <2>1. ASSUME NEW a, NEW i \in 1 .. n, a \in ToSet(g[i])
        PROVE  a \in All(idx, n)
    BY <1>1, <1>3, <1>5, <2>1 DEF All
  <2>2. ASSUME NEW a, NEW b \in 0 .. n - 1, a \in ToSet(Entries(idx[b]))
        PROVE  \E i \in 1 .. n : a \in ToSet(g[i])
    <3>1. b + 1 \in 1 .. n /\ b + 1 - 1 = b
      OBVIOUS
    <3>2. g[b + 1] = Entries(idx[b])
      BY <1>3, <1>5, <3>1
    <3> QED
      BY <2>2, <3>1, <3>2
  <2> QED
    BY <2>1, <2>2 DEF All
<1> QED
  BY <1>5, <1>7, <1>8, Zenon

\* A list that bucket b of an index of n buckets may have in heap g.
Fits(list, b, n, g) ==
  /\ list \in Seq(Addr) /\ IsInjective(list)
  /\ \A a \in ToSet(list) : g[a] # NULL /\ n >= 2 /\ Slot(g[a].key, n) = b
  /\ \A a, c \in ToSet(list) : g[a].key = g[c].key => a = c

\* Heap g leaves the keys of the members alone.
KeysKept(idx, n, h, g) == \A a \in All(idx, n) : g[a] # NULL /\ g[a].key = h[a].key

\* A bucket of a sound index is given the list it should have, in a heap that
\* leaves the keys of the other members alone.
LEMMA BucketUpdate ==
  ASSUME NEW n \in Nat, NEW idx, NEW h, NEW g, Sound(idx, n, h),
         NEW b \in 0 .. n - 1, NEW list, Fits(list, b, n, g), KeysKept(idx, n, h, g),
         NEW new, new = [idx EXCEPT ![b] = list]
  PROVE  /\ Sound(new, n, g)
         /\ \A a : a \in All(new, n)
                     <=> \/ a \in ToSet(list)
                         \/ a \in All(idx, n) /\ a \notin ToSet(Entries(idx[b]))
<1>1. idx \in [0 .. n - 1 -> {NULL} \cup Seq(Addr)] /\ list \in Seq(Addr)
  BY DEF Sound, Fits
<1>2. /\ new \in [0 .. n - 1 -> {NULL} \cup Seq(Addr)]
      /\ new[b] = list
      /\ \A d \in 0 .. n - 1 : d # b => new[d] = idx[d]
  BY <1>1
<1>3. list # NULL /\ Entries(new[b]) = list
  BY <1>2, PointerAssumption DEF Entries
<1>4. ASSUME NEW d \in 0 .. n - 1
      PROVE  /\ IsInjective(Entries(new[d]))
             /\ \A a \in ToSet(Entries(new[d])) :
                  g[a] # NULL /\ n >= 2 /\ Slot(g[a].key, n) = d
             /\ \A a, c \in ToSet(Entries(new[d])) : g[a].key = g[c].key => a = c
  <2>1. CASE d = b
    BY <1>3, <2>1 DEF Fits
  <2>2. CASE d # b
    <3>1. new[d] = idx[d]
      BY <1>2, <2>2
    <3>2. \A a \in ToSet(Entries(idx[d])) : a \in All(idx, n)
      BY DEF All
    <3> QED
      BY <3>1, <3>2 DEF Sound, KeysKept
  <2> QED
    BY <2>1, <2>2
<1>5. Sound(new, n, g)
  BY <1>2, <1>4 DEF Sound
<1>6. ASSUME NEW a
      PROVE  a \in All(new, n)
               <=> \/ a \in ToSet(list)
                   \/ a \in All(idx, n) /\ a \notin ToSet(Entries(idx[b]))
  <2>1. ASSUME a \in All(new, n), a \notin ToSet(list)
        PROVE  a \in All(idx, n) /\ a \notin ToSet(Entries(idx[b]))
    <3>1. PICK d \in 0 .. n - 1 : a \in ToSet(Entries(new[d]))
      BY <2>1 DEF All
    <3>2. d # b /\ a \in ToSet(Entries(idx[d]))
      BY <1>2, <1>3, <2>1, <3>1
    <3>3. a \in All(idx, n) /\ Slot(h[a].key, n) = d
      BY <3>2 DEF All, Sound
    <3>4. a \in ToSet(Entries(idx[b])) => Slot(h[a].key, n) = b
      BY DEF Sound
    <3> QED
      BY <3>2, <3>3, <3>4
  <2>2. ASSUME a \in ToSet(list) PROVE a \in All(new, n)
    BY <1>3, <2>2 DEF All
  <2>3. ASSUME a \in All(idx, n), a \notin ToSet(Entries(idx[b]))
        PROVE  a \in All(new, n)
    <3>1. PICK d \in 0 .. n - 1 : a \in ToSet(Entries(idx[d]))
      BY <2>3 DEF All
    <3>2. new[d] = idx[d]
      BY <1>2, <2>3, <3>1
    <3> QED
      BY <3>1, <3>2 DEF All
  <2> QED
    BY <2>1, <2>2, <2>3
<1> QED
  BY <1>5, <1>6

LEMMA EmptyList ==
  /\ NULL # <<>> /\ <<>> \in Seq(Addr) /\ ToSet(<<>>) = {} /\ IsInjective(<<>>)
  /\ \A list \in Seq(Addr) : ToSet(list) = {} <=> list = <<>>
<1>1. <<>> \in Seq(Addr)
  OBVIOUS
<1>2. ToSet(<<>>) = {} /\ IsInjective(<<>>)
  BY DEF ToSet, IsInjective
<1>3. ASSUME NEW list \in Seq(Addr), list # <<>> PROVE ToSet(list) # {}
  <2>1. Len(list) \in Nat /\ Len(list) # 0 /\ DOMAIN list = 1 .. Len(list)
    BY <1>3, LenProperties, EmptySeq
  <2>2. 1 \in DOMAIN list
    BY <2>1
  <2> QED
    BY <2>2 DEF ToSet
<1>4. PICK e : e = <<>>
  OBVIOUS
<1>5. NULL # e
  BY <1>1, <1>4, PointerAssumption, Zenon
<1> QED
  BY <1>1, <1>2, <1>3, <1>4, <1>5, Zenon

LEMMA HeapUpdate ==
  ASSUME NEW n \in Nat, NEW idx, NEW h, NEW g, Sound(idx, n, h),
         \A a \in All(idx, n) : g[a] # NULL /\ g[a].key = h[a].key
  PROVE  Sound(idx, n, g)
<1>1. ASSUME NEW b \in 0 .. n - 1
      PROVE  /\ \A a \in ToSet(Entries(idx[b])) :
                  g[a] # NULL /\ n >= 2 /\ Slot(g[a].key, n) = b
             /\ \A a, c \in ToSet(Entries(idx[b])) : g[a].key = g[c].key => a = c
  <2>1. \A a \in ToSet(Entries(idx[b])) : a \in All(idx, n)
    BY DEF All
  <2> QED
    BY <2>1 DEF Sound
<1> QED
  BY <1>1 DEF Sound

LEMMA EmptyIndexFacts ==
  ASSUME NEW n \in Nat, NEW h
  PROVE  /\ Sound(EmptyIndex(n), n, h) /\ All(EmptyIndex(n), n) = {}
         /\ \A b \in 0 .. n - 1 : EmptyIndex(n)[b] # <<>>
<1>1. ToSet(<<>>) = {} /\ IsInjective(<<>>)
  BY DEF ToSet, IsInjective
<1>2. EmptyIndex(n) \in [0 .. n - 1 -> {NULL} \cup Seq(Addr)]
  BY DEF EmptyIndex
<1>3. \A b \in 0 .. n - 1 : EmptyIndex(n)[b] = NULL
  BY DEF EmptyIndex
<1>4. \A b \in 0 .. n - 1 : Entries(EmptyIndex(n)[b]) = <<>>
  BY <1>3 DEF Entries
<1>5. Sound(EmptyIndex(n), n, h)
  <2> HIDE DEF EmptyIndex
  <2> QED
    BY <1>1, <1>2, <1>4, Zenon DEF Sound
<1>6. All(EmptyIndex(n), n) = {}
  BY <1>1, <1>4 DEF All
<1>7. NULL # <<>>
  BY EmptyList
<1> QED
  BY <1>3, <1>5, <1>6, <1>7

\* Rehash puts each of the entries it has been through in the bucket of its key.
LEMMA PlacedFacts ==
  ASSUME NEW n \in IndexSize, n >= 2, NEW entries \in Seq(Addr), IsInjective(entries),
         \A a \in ToSet(entries) : heap[a] # NULL /\ heap[a].key \in Key,
         \A a, c \in ToSet(entries) : heap[a].key = heap[c].key => a = c
  PROVE  /\ Sound(Placed(entries, n), n, heap) /\ All(Placed(entries, n), n) = ToSet(entries)
         /\ \A b \in 0 .. n - 1 : Placed(entries, n)[b] # <<>>
<1> DEFINE here(b) == {a \in ToSet(entries) : Slot(heap[a].key, n) = b}
           placed == Placed(entries, n)
<1>1. \A b \in 0 .. n - 1 :
        placed[b] = IF here(b) = {} THEN NULL ELSE Only(entries, here(b))
  BY DEF Placed
<1>2. ASSUME NEW b \in 0 .. n - 1
      PROVE  /\ placed[b] \in {NULL} \cup Seq(Addr)
             /\ placed[b] # <<>>
             /\ IsInjective(Entries(placed[b]))
             /\ ToSet(Entries(placed[b])) = here(b)
  <2> HIDE DEF placed
  <2>1. ToSet(<<>>) = {} /\ IsInjective(<<>>) /\ NULL # <<>>
    BY EmptyList
  <2>2. CASE here(b) = {}
    BY <1>1, <2>1, <2>2 DEF Entries
  <2>3. CASE here(b) # {}
    <3> HIDE DEF here
    <3>1. placed[b] = Only(entries, here(b))
      BY <1>1, <2>3
    <3>2. /\ placed[b] \in Seq(Addr) /\ IsInjective(placed[b])
          /\ ToSet(placed[b]) = ToSet(entries) \cap here(b)
      BY <3>1, OnlyFacts
    <3>3. ToSet(placed[b]) = here(b)
      BY <3>2 DEF here
    <3>4. placed[b] # NULL /\ Entries(placed[b]) = placed[b]
      BY <3>2, PointerAssumption DEF Entries
    <3> QED
      BY <2>1, <2>3, <3>2, <3>3, <3>4, Zenon
  <2> QED
    BY <2>2, <2>3
<1>3. placed \in [0 .. n - 1 -> {NULL} \cup Seq(Addr)]
  <2>1. placed = [b \in 0 .. n - 1 |-> placed[b]]
    BY DEF Placed
  <2> HIDE DEF placed
  <2> QED
    BY <1>2, <2>1
<1> HIDE DEF placed
<1>4. Sound(placed, n, heap)
  BY <1>2, <1>3 DEF Sound
<1>5. All(placed, n) = ToSet(entries)
  <2>1. \A a \in ToSet(entries) : \E b \in 0 .. n - 1 : a \in here(b)
    BY SlotFacts
  <2> QED
    BY <1>2, <2>1 DEF All
<1> QED
  BY <1>2, <1>4, <1>5 DEF placed

-----------------------------------------------------------------------------
(* The inductive invariant *)

Members == IF index = NULL THEN {} ELSE All(index, index_size)

\* The index is sound, no member is also the client's, and there are members
\* only once key_hash is set.
Shelved ==
  /\ index_size \in Nat
  /\ index # NULL => index_size \in IndexSize /\ Sound(index, index_size, heap)
  /\ \A a \in Members : a \notin held /\ hashes

TypesOK ==
  /\ entry_size \in 0 .. MaxEntries /\ hashes \in BOOLEAN
  /\ heap \in [Addr -> Entry \cup {NULL}]
  /\ held \in SUBSET Addr
  /\ fault \in Faults /\ events \in SUBSET Events

\* What the client holds came from init_entry.
ClientsOwn == \A a \in held : heap[a] # NULL /\ heap[a].own

\* Which calls an entry of the table has been through.
Traced ==
  \A a \in Members :
    heap[a].must_destroy => /\ "set_entry" \in events
                            /\ ~heap[a].own => "set" \in events

\* A list without entries is left by del or by a failed push.
Emptied ==
  index # NULL =>
    \A b \in Bucket : index[b] = <<>> => events \cap {"del", "oom"} # {}

Sized ==
  /\ Cardinality(Members) =< entry_size
  /\ events \cap {"rehash", "oom"} = {} => Cardinality(Members) = entry_size

NoneLost ==
  events \cap {"del", "oom", "no_index"} = {} =>
    \A a \in Addr : heap[a] # NULL => a \in Members \/ a \in held

Inv ==
  /\ Shelved /\ TypesOK /\ ClientsOwn /\ Traced /\ Emptied /\ Sized /\ NoneLost
  /\ FaultsExplained

LEMMA StoredFacts ==
  ASSUME Shelved
  PROVE  /\ Stored \in Seq(Addr) /\ ToSet(Stored) = Members /\ IsInjective(Stored)
         /\ IsFiniteSet(Members) /\ Len(Stored) = Cardinality(Members)
<1>1. Stored \in Seq(Addr) /\ ToSet(Stored) = Members /\ IsInjective(Stored)
  <2>1. CASE index = NULL
    <3>1. ToSet(<<>>) = {} /\ IsInjective(<<>>) /\ <<>> \in Seq(Addr)
      BY DEF ToSet, IsInjective
    <3> QED
      BY <2>1, <3>1 DEF Stored, Members
  <2>2. CASE index # NULL
    <3>1. index_size \in Nat /\ Sound(index, index_size, heap)
      BY <2>2 DEF Shelved
    <3>2. PICK h, n, idx : h = heap /\ n = index_size /\ idx = index
      OBVIOUS
    <3>3. LET flat == FlattenSeq([i \in 1 .. n |-> Entries(idx[i - 1])])
          IN  flat \in Seq(Addr) /\ ToSet(flat) = All(idx, n) /\ IsInjective(flat)
      BY <3>1, <3>2, FlatFacts
    <3> QED
      BY <2>2, <3>2, <3>3, Zenon DEF Stored, Members
  <2> QED
    BY <2>1, <2>2
<1>2. PICK s : s = Stored
  OBVIOUS
<1>3. IsFiniteSet(ToSet(s)) /\ Len(s) = Cardinality(ToSet(s))
  BY <1>1, <1>2, InjectiveCount
<1> QED
  BY <1>1, <1>2, <1>3

LEMMA MemberFacts ==
  ASSUME Shelved, TypesOK
  PROVE  /\ Members \subseteq Addr
         /\ \A a \in Members : heap[a] \in Entry /\ heap[a] # NULL /\ Indexable
         /\ \A a, c \in Members : heap[a].key = heap[c].key => a = c
<1>1. CASE index = NULL
  BY <1>1 DEF Members
<1>2. CASE index # NULL
  <2>1. index_size \in Nat /\ Sound(index, index_size, heap) /\ Members = All(index, index_size)
    BY <1>2 DEF Shelved, Members
  <2>2. /\ Members \subseteq Addr
        /\ \A a \in Members : heap[a] # NULL /\ index_size >= 2
        /\ \A a, c \in Members : heap[a].key = heap[c].key => a = c
    BY <2>1, AllFacts
  <2>3. \A a \in Members : heap[a] \in Entry
    BY <2>2 DEF TypesOK
  <2>4. \A a \in Members : hashes
    BY DEF Shelved
  <2> QED
    BY <2>2, <2>3, <2>4 DEF Indexable
<1> QED
  BY <1>1, <1>2

\* The entries find_index and the walk of a bucket lead to are those of the key.
LEMMA BucketFacts ==
  ASSUME Shelved, TypesOK, NEW k \in Key, index # NULL, Indexable
  PROVE  /\ Slot(k, index_size) \in Bucket
         /\ BucketOf(k) \in {NULL} \cup Seq(Addr)
         /\ Entries(BucketOf(k)) \in Seq(Addr) /\ IsInjective(Entries(BucketOf(k)))
         /\ \A a : a \in ToSet(Entries(BucketOf(k)))
                     <=> a \in Members /\ Slot(heap[a].key, index_size) = Slot(k, index_size)
         /\ Found(k) = {a \in Members : heap[a].key = k}
<1> DEFINE b == Slot(k, index_size)
<1>1. /\ index_size \in Nat /\ index_size \in IndexSize /\ index_size >= 2
      /\ Sound(index, index_size, heap)
      /\ Members = All(index, index_size)
  BY DEF Shelved, Members, Indexable
<1>2. b \in 0 .. index_size - 1
  BY <1>1, SlotFacts
<1> HIDE DEF b
<1>3. index[b] \in {NULL} \cup Seq(Addr) /\ IsInjective(Entries(index[b]))
  BY <1>1, <1>2 DEF Sound
<1>4. Entries(index[b]) \in Seq(Addr)
  BY <1>3, EntriesFacts
<1>5. /\ \A a \in Members : a \in ToSet(Entries(index[b])) <=> Slot(heap[a].key, index_size) = b
      /\ ToSet(Entries(index[b])) \subseteq Members
  BY <1>1, <1>2, AllFacts
<1>6. BucketOf(k) = index[b]
  BY DEF BucketOf, b
<1>7. Found(k) = {a \in Members : heap[a].key = k}
  <2>1. Found(k) = {a \in ToSet(Entries(index[b])) : heap[a].key = k}
    BY <1>6 DEF Found, Matching
  <2>2. \A a \in Members : heap[a].key = k => Slot(heap[a].key, index_size) = b
    BY DEF b
  <2> QED
    BY <1>5, <2>1, <2>2
<1> QED
  BY <1>2, <1>3, <1>4, <1>5, <1>6, <1>7 DEF Bucket, b

\* A call that leaves the table and the keys of its entries alone.
LEMMA TableKept ==
  ASSUME Inv, UNCHANGED table, events \subseteq events',
         \A a \in Members : /\ heap'[a] # NULL /\ heap'[a].key = heap[a].key
                            /\ a \notin held'
  PROVE  Shelved' /\ Members' = Members /\ Emptied' /\ Sized'
<1>1. index' = index /\ index_size' = index_size /\ entry_size' = entry_size /\ hashes' = hashes
  BY DEF table
<1>2. Members' = Members
  BY <1>1 DEF Members, All
<1>3. index # NULL => Sound(index, index_size, heap')
  <2>1. SUFFICES ASSUME index # NULL PROVE Sound(index, index_size, heap')
    OBVIOUS
  <2>2. PICK idx, n, h, g : idx = index /\ n = index_size /\ h = heap /\ g = heap'
    OBVIOUS
  <2>3. n \in Nat /\ Sound(idx, n, h)
    BY <2>1, <2>2 DEF Inv, Shelved
  <2>4. \A a \in All(idx, n) : g[a] # NULL /\ g[a].key = h[a].key
    BY <2>1, <2>2 DEF Members
  <2>5. Sound(idx, n, g)
    BY <2>3, <2>4, HeapUpdate
  <2> QED
    BY <2>2, <2>5
<1>4. Shelved'
  <2>1. /\ index_size' \in Nat
        /\ index' # NULL => index_size' \in IndexSize /\ Sound(index', index_size', heap')
    BY <1>1, <1>3 DEF Inv, Shelved
  <2>2. \A a \in Members' : a \notin held' /\ hashes'
    BY <1>1, <1>2 DEF Inv, Shelved
  <2> QED
    BY <2>1, <2>2 DEF Shelved
<1>5. Emptied'
  BY <1>1 DEF Inv, Emptied, Bucket
<1>6. Sized'
  BY <1>1, <1>2 DEF Inv, Sized
<1> QED
  BY <1>2, <1>4, <1>5, <1>6

\* How Inv fares when only events, fault, ret and args change.
LEMMA StateKept ==
  ASSUME Inv, UNCHANGED <<table, heap, held>>, events \subseteq events',
         events' \in SUBSET Events, fault' \in Faults, FaultsExplained'
  PROVE  Inv'
<1>1. heap' = heap /\ held' = held /\ UNCHANGED table
  OBVIOUS
<1>2. \A a \in Members : heap[a] # NULL /\ a \notin held
  BY MemberFacts DEF Inv, Shelved
<1>3. Shelved' /\ Members' = Members /\ Emptied' /\ Sized'
  BY <1>1, <1>2, TableKept
<1>4. TypesOK'
  BY <1>1 DEF Inv, TypesOK, table
<1>5. ClientsOwn' /\ Traced' /\ NoneLost'
  BY <1>1, <1>3 DEF Inv, ClientsOwn, Traced, NoneLost
<1> QED
  BY <1>3, <1>4, <1>5 DEF Inv

LEMMA AnswerFacts ==
  ASSUME fault = "none", fault' = fault
  PROVE  fault' \in Faults /\ FaultsExplained'
BY DEF Faults, FaultsExplained

-----------------------------------------------------------------------------
(* Each operation preserves the invariant *)

LEMMA SetupKeeps ==
  ASSUME Inv, NEW n \in IndexSize, Setup(n)
  PROVE  Inv' /\ Members = {} /\ Members' = {}
<1>1. /\ index = NULL /\ index_size' = n /\ entry_size' = 0
      /\ index' = EmptyIndex(n) \/ index' = NULL
      /\ hashes' \in BOOLEAN /\ heap' = heap /\ held' = held /\ events' = events
      /\ fault = "none" /\ fault' = fault
  BY DEF Setup, Answer
<1>2. n \in Nat
  BY SizeAssumption
<1>3. /\ Sound(EmptyIndex(n), n, heap') /\ All(EmptyIndex(n), n) = {}
      /\ \A b \in 0 .. n - 1 : EmptyIndex(n)[b] # <<>>
  <2>1. PICK g : g = heap'
    OBVIOUS
  <2>2. /\ Sound(EmptyIndex(n), n, g) /\ All(EmptyIndex(n), n) = {}
        /\ \A b \in 0 .. n - 1 : EmptyIndex(n)[b] # <<>>
    BY <1>2, EmptyIndexFacts
  <2> QED
    BY <2>1, <2>2
<1>4. Members = {} /\ Members' = {}
  BY <1>1, <1>3 DEF Members
<1>5. Shelved'
  BY <1>1, <1>2, <1>3, <1>4 DEF Shelved
<1>6. TypesOK'
  BY <1>1, SizeAssumption, AnswerFacts DEF Inv, TypesOK
<1>7. ClientsOwn' /\ Traced' /\ NoneLost'
  BY <1>1, <1>4 DEF Inv, ClientsOwn, Traced, NoneLost
<1>8. Emptied'
  BY <1>1, <1>3 DEF Emptied, Bucket
<1>9. Sized'
  BY <1>1, <1>4, FS_EmptySet DEF Sized
<1> QED
  BY <1>4, <1>1, <1>5, <1>6, <1>7, <1>8, <1>9, AnswerFacts DEF Inv

LEMMA InitEntryKeeps ==
  ASSUME Inv, NEW k \in Key, NEW v \in Value, InitEntry(k, v)
  PROVE  Inv'
<1>1. UNCHANGED table /\ events' = events /\ fault = "none" /\ fault' = fault
  BY DEF InitEntry, Answer
<1>2. fault' \in Faults /\ FaultsExplained' /\ events \subseteq events' /\ events' \in SUBSET Events
  BY <1>1, AnswerFacts DEF Inv, TypesOK
<1>3. CASE UNCHANGED <<heap, held>>
  BY <1>1, <1>2, <1>3, StateKept
<1>4. ASSUME NEW a \in Addr, heap[a] = NULL, held' = held \cup {a},
             heap' = [heap EXCEPT ![a] =
                       [key |-> k, value |-> v, own |-> TRUE, must_destroy |-> TRUE]]
      PROVE  Inv'
  <2>1. PICK e : e = [key |-> k, value |-> v, own |-> TRUE, must_destroy |-> TRUE]
    OBVIOUS
  <2>2. e \in Entry /\ e # NULL /\ e.own
    <3>1. e \in Entry /\ e.own
      BY <2>1 DEF Entry
    <3> QED
      BY <3>1, PointerAssumption, Zenon
  <2>3. heap \in [Addr -> Entry \cup {NULL}]
    BY DEF Inv, TypesOK
  <2>4. heap' = [heap EXCEPT ![a] = e]
    BY <1>4, <2>1
  <2>5. heap' \in [Addr -> Entry \cup {NULL}] /\ heap'[a] = e
        /\ \A c \in Addr : c # a => heap'[c] = heap[c]
    BY <2>2, <2>3, <2>4
  <2>6. Members \subseteq Addr /\ \A c \in Members : heap[c] # NULL /\ c # a /\ c \notin held
    BY <1>4, MemberFacts DEF Inv, Shelved
  <2>7. \A c \in Members : heap'[c] = heap[c] /\ c \notin held'
    BY <1>4, <2>5, <2>6
  <2>8. Shelved' /\ Members' = Members /\ Emptied' /\ Sized'
    BY <1>1, <1>2, <2>6, <2>7, TableKept
  <2>9. TypesOK'
    BY <1>1, <1>2, <1>4, <2>5 DEF Inv, TypesOK, table
  <2>10. ClientsOwn'
    BY <1>4, <2>2, <2>5 DEF Inv, TypesOK, ClientsOwn
  <2>11. Traced'
    BY <1>1, <2>7, <2>8 DEF Inv, Traced
  <2>12. NoneLost'
    BY <1>1, <1>4, <2>5, <2>8 DEF Inv, NoneLost
  <2> QED
    BY <1>2, <2>8, <2>9, <2>10, <2>11, <2>12 DEF Inv
<1> QED
  BY <1>3, <1>4 DEF InitEntry

LEMMA DestroyEntryKeeps ==
  ASSUME Inv, NEW a \in held, DestroyEntry(a)
  PROVE  Inv'
<1>1. /\ UNCHANGED table /\ events' = events /\ fault = "none" /\ fault' = fault
      /\ heap' = [heap EXCEPT ![a] = NULL] /\ held' = held \ {a}
  BY DEF DestroyEntry, Answer
<1>2. fault' \in Faults /\ FaultsExplained' /\ events \subseteq events'
  BY <1>1, AnswerFacts
<1>3. heap \in [Addr -> Entry \cup {NULL}] /\ a \in Addr
  BY DEF Inv, TypesOK
<1>4. heap' \in [Addr -> Entry \cup {NULL}] /\ heap'[a] = NULL
      /\ \A c \in Addr : c # a => heap'[c] = heap[c]
  BY <1>1, <1>3
<1>5. Members \subseteq Addr /\ \A c \in Members : heap[c] # NULL /\ c # a /\ c \notin held
  BY MemberFacts DEF Inv, Shelved
<1>6. \A c \in Members : heap'[c] = heap[c] /\ c \notin held'
  BY <1>1, <1>4, <1>5
<1>7. Shelved' /\ Members' = Members /\ Emptied' /\ Sized'
  BY <1>1, <1>2, <1>5, <1>6, TableKept
<1>8. TypesOK'
  BY <1>1, <1>2, <1>4 DEF Inv, TypesOK, table
<1>9. ClientsOwn'
  BY <1>1, <1>4 DEF Inv, TypesOK, ClientsOwn
<1>10. Traced'
  BY <1>1, <1>6, <1>7 DEF Inv, Traced
<1>11. NoneLost'
  BY <1>1, <1>4, <1>7 DEF Inv, NoneLost
<1> QED
  BY <1>2, <1>7, <1>8, <1>9, <1>10, <1>11 DEF Inv

\* The entry hash_table_set_entry is given: the client's, or the one that
\* hash_table_set has just made for a key it has not found.
Given(op, a, e) ==
  /\ a \in Addr /\ a \notin Members /\ e \in Entry
  /\ \/ op = "set_entry" /\ a \in held /\ e = heap[a]
     \/ /\ op = "set" /\ heap[a] = NULL
        /\ ~e.own /\ ~e.must_destroy /\ Found(e.key) = {}

\* An entry that is put nowhere: the table stays as it is.
LEMMA PutNowhere ==
  ASSUME Inv, NEW op, NEW a, NEW e, Given(op, a, e), UNCHANGED <<table, held>>,
         heap' = [heap EXCEPT ![a] = e], events \subseteq events',
         events' \in SUBSET Events, events' \cap {"oom", "no_index"} # {},
         fault = "none", fault' = fault
  PROVE  Inv' /\ Members' = Members /\ \A c \in Members : heap'[c] = heap[c]
<1>1. heap \in [Addr -> Entry \cup {NULL}] /\ a \in Addr /\ e \in Entry
  BY DEF Inv, TypesOK, Given
<1>2. heap' \in [Addr -> Entry \cup {NULL}] /\ heap'[a] = e
      /\ \A c \in Addr : c # a => heap'[c] = heap[c]
  BY <1>1
<1>3. Members \subseteq Addr /\ \A c \in Members : heap[c] # NULL /\ c # a /\ c \notin held
  BY MemberFacts DEF Inv, Shelved, Given
<1>4. \A c \in Members : heap'[c] = heap[c]
  BY <1>2, <1>3
<1>5. Shelved' /\ Members' = Members /\ Emptied' /\ Sized'
  BY <1>3, <1>4, TableKept
<1>6. fault' \in Faults /\ FaultsExplained'
  BY AnswerFacts
<1>7. TypesOK'
  BY <1>2, <1>6 DEF Inv, TypesOK, table
<1>8. ClientsOwn'
  <2>1. ASSUME NEW c \in held PROVE heap'[c] # NULL /\ heap'[c].own
    <3>1. c \in Addr /\ heap[c] # NULL /\ heap[c].own
      BY DEF Inv, TypesOK, ClientsOwn
    <3>2. CASE c # a
      BY <1>2, <3>1, <3>2
    <3>3. CASE c = a
      BY <1>2, <3>1, <3>3 DEF Given
    <3> QED
      BY <3>2, <3>3
  <2> QED
    BY <2>1 DEF ClientsOwn
<1>9. Traced'
  BY <1>4, <1>5 DEF Inv, Traced
<1>10. NoneLost'
  BY DEF NoneLost
<1> QED
  BY <1>4, <1>5, <1>6, <1>7, <1>8, <1>9, <1>10 DEF Inv

\* A call that ends in a fault other than the two that need an explanation.
LEMMA CrashKeeps ==
  ASSUME Inv, NEW op, NEW why \in Faults \ {"empty_list", "bad_free"}, Crash(op, why),
         events \subseteq events', events' \in SUBSET Events
  PROVE  Inv'
<1>1. fault' \in Faults /\ FaultsExplained'
  BY DEF Crash, FaultsExplained
<1> QED
  BY <1>1, StateKept DEF Crash

\* The call keeps the entries and gives the one at m the value v.
Revalues(m, v) ==
  /\ Members' = Members /\ m \in Members
  /\ heap'[m].value = v /\ heap'[m].key = heap[m].key
  /\ \A c \in Members : c # m => heap'[c] = heap[c]

LEMMA PutMerges ==
  ASSUME Inv, NEW op, NEW a, NEW e, Given(op, a, e), index # NULL, Indexable,
         NEW m \in Matching(Entries(BucketOf(e.key)), e.key),
         heap' = [[heap EXCEPT ![a] = e] EXCEPT ![m].value = e.value, ![m].own = e.own,
                                                ![a] = NULL],
         held' = held \ {a}, UNCHANGED table, events' = events \cup {op},
         fault = "none", fault' = fault
  PROVE  Inv' /\ Revalues(m, e.value)
<1>1. heap \in [Addr -> Entry \cup {NULL}] /\ a \in Addr /\ e \in Entry /\ e.key \in Key
  BY DEF Inv, TypesOK, Given, Entry
<1>2. m \in Found(e.key)
  BY DEF Found
<1>3. m \in Members
  BY <1>1, <1>2, BucketFacts DEF Inv
<1>4. op = "set_entry" /\ a \in held /\ e = heap[a]
  BY <1>2 DEF Given
<1>5. e.own
  BY <1>4 DEF Inv, ClientsOwn
<1>6. Members \subseteq Addr
      /\ \A c \in Members : heap[c] \in Entry /\ heap[c] # NULL /\ c # a /\ c \notin held
  BY MemberFacts DEF Inv, Shelved, Given
<1>7. m \in Addr /\ m # a /\ heap[m] \in Entry
  BY <1>3, <1>6
<1> DEFINE new == [heap[m] EXCEPT !.value = e.value, !.own = e.own]
<1>8. /\ new \in Entry /\ new.key = heap[m].key /\ new.own = e.own
      /\ new.value = e.value
      /\ new.must_destroy = heap[m].must_destroy
  BY <1>1, <1>7 DEF Entry
<1>9. new # NULL
  BY <1>8, PointerAssumption
<1>10. /\ heap' \in [Addr -> Entry \cup {NULL}] /\ heap'[a] = NULL /\ heap'[m] = new
       /\ \A c \in Addr : c # a /\ c # m => heap'[c] = heap[c]
  <2>1. heap' = [c \in Addr |-> IF c = a THEN NULL ELSE IF c = m THEN new ELSE heap[c]]
    BY <1>1, <1>7
  <2> HIDE DEF new
  <2> QED
    BY <1>1, <1>7, <1>8, <2>1
<1> HIDE DEF new
<1>11. \A c \in Members : /\ heap'[c] # NULL /\ heap'[c].key = heap[c].key
                          /\ c \notin held'
  BY <1>6, <1>8, <1>9, <1>10
<1>12. events \subseteq events' /\ "set_entry" \in events'
  BY <1>4
<1>13. Shelved' /\ Members' = Members /\ Emptied' /\ Sized'
  BY <1>11, <1>12, TableKept
<1>14. fault' \in Faults /\ FaultsExplained'
  BY AnswerFacts
<1>15. TypesOK'
  BY <1>4, <1>10, <1>14 DEF Inv, TypesOK, table, Events
<1>16. ClientsOwn'
  BY <1>3, <1>6, <1>10 DEF Inv, TypesOK, ClientsOwn
<1>17. Traced'
  <2>1. ASSUME NEW c \in Members, heap'[c].must_destroy, ~heap'[c].own
        PROVE  "set" \in events'
    <3>1. c # m
      BY <1>5, <1>8, <1>10, <2>1
    <3>2. heap'[c] = heap[c]
      BY <1>6, <1>10, <3>1
    <3> QED
      BY <1>12, <2>1, <3>2 DEF Inv, Traced
  <2> QED
    BY <1>12, <1>13, <2>1 DEF Traced
<1>18. NoneLost'
  <2>1. ASSUME NEW c \in Addr, heap'[c] # NULL, events' \cap {"del", "oom", "no_index"} = {}
        PROVE  c \in Members' \/ c \in held'
    <3>1. c # a
      BY <1>10, <2>1
    <3>2. heap[c] # NULL
      BY <1>6, <1>3, <1>10, <2>1, <3>1
    <3>3. events \cap {"del", "oom", "no_index"} = {}
      BY <1>12, <2>1
    <3> QED
      BY <1>13, <3>1, <3>2, <3>3 DEF Inv, NoneLost
  <2> QED
    BY <2>1 DEF NoneLost
<1>19. /\ heap'[m].value = e.value /\ heap'[m].key = heap[m].key /\ m \in Members
       /\ \A c \in Members : c # m => heap'[c] = heap[c]
  BY <1>1, <1>3, <1>6, <1>7, <1>8, <1>10
<1> QED
  BY <1>19, <1>13, <1>14, <1>15, <1>16, <1>17, <1>18 DEF Inv, Revalues

\* One bucket of the table gets another list.
LEMMA ShelfUpdate ==
  ASSUME Inv, index # NULL, Indexable, NEW b \in Bucket,
         NEW list \in Seq(Addr), IsInjective(list),
         index' = [index EXCEPT ![b] = list], UNCHANGED <<index_size, hashes>>,
         events \subseteq events',
         \A a \in ToSet(list) : /\ heap'[a] # NULL /\ a \notin held'
                                /\ Slot(heap'[a].key, index_size) = b,
         \A a, c \in ToSet(list) : heap'[a].key = heap'[c].key => a = c,
         \A a \in Members : /\ heap'[a] # NULL /\ heap'[a].key = heap[a].key
                            /\ a \notin held',
         list = <<>> => events' \cap {"del", "oom"} # {}
  PROVE  /\ Shelved' /\ Emptied'
         /\ \A a : a \in Members' <=> \/ a \in ToSet(list)
                                      \/ a \in Members /\ a \notin ToSet(Entries(index[b]))
<1>1. PICK n, idx, h, g, new :
        n = index_size /\ idx = index /\ h = heap /\ g = heap'
        /\ new = [index EXCEPT ![b] = list]
  OBVIOUS
<1>2. /\ n \in Nat /\ n \in IndexSize /\ n >= 2 /\ Sound(idx, n, h) /\ b \in 0 .. n - 1
      /\ Members = All(idx, n) /\ hashes
  BY <1>1 DEF Inv, Shelved, Indexable, Bucket, Members
<1>3. /\ Sound(new, n, g)
      /\ \A a : a \in All(new, n)
                  <=> \/ a \in ToSet(list)
                      \/ a \in All(idx, n) /\ a \notin ToSet(Entries(idx[b]))
  <2>1. Fits(list, b, n, g)
    BY <1>1, <1>2 DEF Fits
  <2>2. KeysKept(idx, n, h, g)
    BY <1>1, <1>2 DEF KeysKept
  <2>3. new = [idx EXCEPT ![b] = list]
    BY <1>1
  <2> QED
    BY <1>2, <2>1, <2>2, <2>3, BucketUpdate
<1>4. new = [idx EXCEPT ![b] = list] /\ index' = new /\ index_size' = n
  BY <1>1
<1>5. new # NULL
  <2>1. new \in [0 .. n - 1 -> {NULL} \cup Seq(Addr)]
    BY <1>3, <1>4 DEF Sound
  <2> QED
    BY <1>2, <2>1, PointerAssumption
<1>6. Members' = All(new, n)
  BY <1>4, <1>5 DEF Members
<1>7. \A a : a \in Members' <=> \/ a \in ToSet(list)
                                \/ a \in Members /\ a \notin ToSet(Entries(index[b]))
  BY <1>1, <1>2, <1>3, <1>4, <1>6, Zenon
<1>8. Shelved'
  <2>1. index_size' \in Nat /\ index_size' \in IndexSize /\ Sound(index', index_size', heap')
    BY <1>1, <1>2, <1>3, <1>4
  <2>2. \A a \in Members' : a \notin held' /\ hashes'
    BY <1>2, <1>7
  <2> QED
    BY <2>1, <2>2 DEF Shelved
<1>9. Emptied'
  <2>1. ASSUME NEW d \in 0 .. n - 1, index'[d] = <<>>
        PROVE  events' \cap {"del", "oom"} # {}
    <3>1. idx \in [0 .. n - 1 -> {NULL} \cup Seq(Addr)]
      BY <1>2 DEF Sound
    <3>2. CASE d = b
      <4>1. index'[d] = list
        BY <1>2, <1>4, <3>1, <3>2
      <4> QED
        BY <2>1, <4>1
    <3>3. CASE d # b
      <4>1. index'[d] = index[d]
        BY <1>1, <1>2, <1>4, <3>1, <3>3
      <4>2. events \cap {"del", "oom"} # {}
        BY <1>1, <2>1, <4>1 DEF Inv, Emptied, Bucket
      <4> QED
        BY <4>2
    <3> QED
      BY <3>2, <3>3
  <2> QED
    BY <1>4, <2>1 DEF Emptied, Bucket
<1> QED
  BY <1>7, <1>8, <1>9

LEMMA PutAppends ==
  ASSUME Inv, NEW op, NEW a, NEW e, Given(op, a, e), index # NULL, Indexable,
         Matching(Entries(BucketOf(e.key)), e.key) = {}, entry_size < MaxEntries,
         entry_size' = entry_size + 1, heap' = [heap EXCEPT ![a] = e],
         UNCHANGED <<index_size, hashes>>, held' = held \ {a},
         index' = [index EXCEPT ![Slot(e.key, index_size)] = Append(Entries(@), a)],
         events' = events \cup {op}, fault = "none", fault' = fault
  PROVE  Inv' /\ Members' = Members \cup {a} /\ heap'[a] = e
         /\ \A c \in Members : heap'[c] = heap[c]
<1>1. heap \in [Addr -> Entry \cup {NULL}] /\ a \in Addr /\ e \in Entry /\ e.key \in Key
      /\ a \notin Members /\ e # NULL
  BY PointerAssumption DEF Inv, TypesOK, Given, Entry
<1>2. heap' \in [Addr -> Entry \cup {NULL}] /\ heap'[a] = e
      /\ \A c \in Addr : c # a => heap'[c] = heap[c]
  BY <1>1
<1>3. PICK b : b = Slot(e.key, index_size)
  OBVIOUS
<1>4. PICK old : old = Entries(BucketOf(e.key))
  OBVIOUS
<1>5. /\ b \in Bucket /\ old = Entries(index[b]) /\ old \in Seq(Addr) /\ IsInjective(old)
      /\ \A c : c \in ToSet(old) <=> c \in Members /\ Slot(heap[c].key, index_size) = b
  BY <1>1, <1>3, <1>4, BucketFacts DEF Inv, BucketOf
<1>6. PICK list : list = Append(old, a)
  OBVIOUS
<1>7. list \in Seq(Addr) /\ ToSet(list) = ToSet(old) \cup {a} /\ IsInjective(list)
  BY <1>1, <1>5, <1>6, AppendFacts
<1>8. list # <<>>
  BY <1>7, EmptyList
<1>9. index' = [index EXCEPT ![b] = list]
  BY <1>3, <1>5, <1>6
<1>10. Members \subseteq Addr
       /\ \A c \in Members : /\ heap[c] # NULL /\ c # a /\ c \notin held
                             /\ heap'[c] = heap[c] /\ c \notin held'
  BY <1>1, <1>2, MemberFacts DEF Inv, Shelved
<1>11. a \notin held'
  OBVIOUS
<1>12. \A c \in ToSet(old) : heap[c].key # e.key
  BY <1>4 DEF Matching
<1>13. \A c \in ToSet(list) : /\ heap'[c] # NULL /\ c \notin held'
                              /\ Slot(heap'[c].key, index_size) = b
  BY <1>1, <1>2, <1>3, <1>5, <1>7, <1>10, <1>11
<1>14. \A c, d \in ToSet(list) : heap'[c].key = heap'[d].key => c = d
  <2>1. \A c, d \in Members : heap[c].key = heap[d].key => c = d
    BY MemberFacts DEF Inv
  <2> QED
    BY <1>2, <1>5, <1>7, <1>10, <1>12, <2>1
<1>15. Shelved' /\ Emptied'
       /\ \A c : c \in Members' <=> \/ c \in ToSet(list)
                                    \/ c \in Members /\ c \notin ToSet(Entries(index[b]))
  BY <1>5, <1>7, <1>8, <1>9, <1>10, <1>13, <1>14, ShelfUpdate, ZenonT(30)
<1>16. Members' = Members \cup {a}
  BY <1>5, <1>7, <1>15
<1>17. fault' \in Faults /\ FaultsExplained'
  BY AnswerFacts
<1>18. TypesOK'
  <2>1. entry_size' \in 0 .. MaxEntries /\ hashes' \in BOOLEAN
    BY SizeAssumption DEF Inv, TypesOK
  <2>2. op \in Events
    BY DEF Given, Events
  <2> QED
    BY <1>2, <1>17, <2>1, <2>2 DEF Inv, TypesOK
<1>19. ClientsOwn'
  BY <1>2 DEF Inv, TypesOK, ClientsOwn
<1>20. Traced'
  <2>1. e.must_destroy => op = "set_entry" /\ e.own
    BY DEF Given, Inv, ClientsOwn
  <2> QED
    BY <1>2, <1>10, <1>16, <2>1 DEF Inv, Traced
<1>21. Sized'
  <2>1. IsFiniteSet(Members)
    BY StoredFacts DEF Inv
  <2>2. PICK old_members : old_members = Members
    OBVIOUS
  <2>3. Cardinality(old_members \cup {a}) = Cardinality(old_members) + 1
        /\ Cardinality(old_members) \in Nat
    BY <1>1, <2>1, <2>2, FS_AddElement, FS_CardinalityType
  <2>4. entry_size \in Nat /\ Cardinality(old_members) =< entry_size
        /\ (events \cap {"rehash", "oom"} = {} => Cardinality(old_members) = entry_size)
    BY <2>2 DEF Inv, TypesOK, Sized
  <2>5. Cardinality(Members') = Cardinality(old_members) + 1
    BY <1>16, <2>2, <2>3
  <2>6. events' \cap {"rehash", "oom"} = {} => events \cap {"rehash", "oom"} = {}
    OBVIOUS
  <2> QED
    BY <2>3, <2>4, <2>5, <2>6 DEF Sized
<1>22. NoneLost'
  BY <1>2, <1>16 DEF Inv, NoneLost
<1> QED
  BY <1>2, <1>10, <1>16, <1>15, <1>17, <1>18, <1>19, <1>20, <1>21, <1>22 DEF Inv

\* The push of the entry fails: the bucket has a list, the entry is counted.
LEMMA PutFails ==
  ASSUME Inv, NEW op, NEW a, NEW e, Given(op, a, e), index # NULL, Indexable,
         entry_size < MaxEntries, entry_size' = entry_size + 1,
         heap' = [heap EXCEPT ![a] = e], UNCHANGED <<index_size, hashes, held>>,
         index' = [index EXCEPT ![Slot(e.key, index_size)] = Entries(@)],
         events' = events \cup {op, "oom"}, fault = "none", fault' = fault
  PROVE  Inv' /\ Members' = Members /\ \A c \in Members : heap'[c] = heap[c]
<1>1. heap \in [Addr -> Entry \cup {NULL}] /\ a \in Addr /\ e \in Entry /\ e.key \in Key
      /\ a \notin Members /\ e # NULL
  BY PointerAssumption DEF Inv, TypesOK, Given, Entry
<1>2. heap' \in [Addr -> Entry \cup {NULL}] /\ heap'[a] = e
      /\ \A c \in Addr : c # a => heap'[c] = heap[c]
  BY <1>1
<1>3. PICK b : b = Slot(e.key, index_size)
  OBVIOUS
<1>4. PICK list : list = Entries(BucketOf(e.key))
  OBVIOUS
<1>5. /\ b \in Bucket /\ list = Entries(index[b]) /\ list \in Seq(Addr) /\ IsInjective(list)
      /\ \A c : c \in ToSet(list) <=> c \in Members /\ Slot(heap[c].key, index_size) = b
  BY <1>1, <1>3, <1>4, BucketFacts DEF Inv, BucketOf
<1>6. index' = [index EXCEPT ![b] = list]
  BY <1>3, <1>5
<1>7. Members \subseteq Addr
      /\ \A c \in Members : /\ heap[c] # NULL /\ c # a /\ c \notin held
                            /\ heap'[c] = heap[c] /\ c \notin held'
  BY <1>1, <1>2, MemberFacts DEF Inv, Shelved
<1>8. \A c \in ToSet(list) : /\ heap'[c] # NULL /\ c \notin held'
                             /\ Slot(heap'[c].key, index_size) = b
  BY <1>5, <1>7
<1>9. \A c, d \in ToSet(list) : heap'[c].key = heap'[d].key => c = d
  <2>1. \A c, d \in Members : heap[c].key = heap[d].key => c = d
    BY MemberFacts DEF Inv
  <2> QED
    BY <1>5, <1>7, <2>1
<1>10. Shelved' /\ Emptied'
       /\ \A c : c \in Members' <=> \/ c \in ToSet(list)
                                    \/ c \in Members /\ c \notin ToSet(Entries(index[b]))
  BY <1>5, <1>6, <1>7, <1>8, <1>9, ShelfUpdate, ZenonT(30)
<1>11. Members' = Members
  BY <1>5, <1>10
<1>12. fault' \in Faults /\ FaultsExplained'
  BY AnswerFacts
<1>13. TypesOK'
  <2>1. entry_size' \in 0 .. MaxEntries /\ hashes' \in BOOLEAN
    BY SizeAssumption DEF Inv, TypesOK
  <2>2. op \in Events
    BY DEF Given, Events
  <2> QED
    BY <1>2, <1>12, <2>1, <2>2 DEF Inv, TypesOK, Events
<1>14. ClientsOwn'
  <2>1. ASSUME NEW c \in held PROVE heap'[c] # NULL /\ heap'[c].own
    <3>1. c \in Addr /\ heap[c] # NULL /\ heap[c].own
      BY DEF Inv, TypesOK, ClientsOwn
    <3>2. CASE c # a
      BY <1>2, <3>1, <3>2
    <3>3. CASE c = a
      BY <1>2, <3>1, <3>3 DEF Given
    <3> QED
      BY <3>2, <3>3
  <2> QED
    BY <2>1 DEF ClientsOwn
<1>15. Traced'
  BY <1>7, <1>11 DEF Inv, Traced
<1>16. Sized'
  <2>1. Cardinality(Members) =< entry_size /\ entry_size \in Nat
    BY DEF Inv, Sized, TypesOK
  <2>2. Cardinality(Members) \in Nat
    BY StoredFacts, FS_CardinalityType DEF Inv
  <2>3. Cardinality(Members') = Cardinality(Members)
    BY <1>11
  <2> QED
    BY <2>1, <2>2, <2>3 DEF Sized
<1>17. NoneLost'
  BY DEF NoneLost
<1> QED
  BY <1>7, <1>11, <1>10, <1>12, <1>13, <1>14, <1>15, <1>16, <1>17 DEF Inv

LEMMA PutEntryKeeps ==
  ASSUME Inv, NEW op, NEW a, NEW e, Given(op, a, e), PutEntry(op, a, e)
  PROVE  Inv'
<1> DEFINE b == Slot(e.key, index_size)
           same == Matching(Entries(index[b]), e.key)
<1>1. op \in Events /\ events \in SUBSET Events /\ {"no_index", "oom"} \subseteq Events
  BY DEF Given, Events, Inv, TypesOK
<1>2. BucketOf(e.key) = index[b] /\ e.key \in Key
  BY DEF BucketOf, Given, Entry
<1>3. CASE index = NULL /\ heap' = [heap EXCEPT ![a] = e] /\ UNCHANGED <<table, held>>
           /\ Note({op, "no_index"}) /\ Answer(op, FALSE)
  BY <1>1, <1>3, PutNowhere DEF Note, Answer
<1>4. CASE Note({op}) /\ (Crash(op, "bad_size") \/ Crash(op, "no_list"))
  <2>1. events \subseteq events' /\ events' \in SUBSET Events
    BY <1>1, <1>4 DEF Note
  <2>2. \A why \in {"bad_size", "no_list"} : why \in Faults \ {"empty_list", "bad_free"}
    BY DEF Faults
  <2> QED
    BY <1>4, <2>1, <2>2, CrashKeeps
<1>5. CASE index # NULL /\ Indexable /\ index[b] = <<>> /\ Note({op})
           /\ Crash(op, "empty_list")
  <2>1. events \subseteq events' /\ events' \in SUBSET Events
    BY <1>1, <1>5 DEF Note
  <2>2. b \in Bucket
    BY <1>2, <1>5, BucketFacts DEF Inv
  <2>3. events \cap {"del", "oom"} # {}
    BY <1>5, <2>2 DEF Inv, Emptied
  <2>4. fault' = "empty_list"
    BY <1>5 DEF Crash
  <2>5. fault' \in Faults /\ FaultsExplained'
    BY <2>1, <2>3, <2>4 DEF Faults, FaultsExplained
  <2> QED
    BY <1>5, <2>1, <2>5, StateKept DEF Crash
<1>6. CASE /\ index # NULL /\ Indexable
           /\ \E m \in same :
                heap' = [[heap EXCEPT ![a] = e] EXCEPT ![m].value = e.value,
                                                       ![m].own = e.own, ![a] = NULL]
           /\ held' = held \ {a} /\ UNCHANGED table
           /\ Note({op}) /\ Answer(op, TRUE)
  <2>1. PICK m \in Matching(Entries(BucketOf(e.key)), e.key) :
          heap' = [[heap EXCEPT ![a] = e] EXCEPT ![m].value = e.value,
                                                 ![m].own = e.own, ![a] = NULL]
    BY <1>2, <1>6
  <2> QED
    BY <1>6, <2>1, PutMerges DEF Note, Answer
<1>7. CASE /\ index # NULL /\ Indexable /\ same = {}
           /\ entry_size < MaxEntries /\ entry_size' = entry_size + 1
           /\ heap' = [heap EXCEPT ![a] = e] /\ UNCHANGED <<index_size, hashes>>
           /\ index' = [index EXCEPT ![b] = Append(Entries(@), a)]
           /\ held' = held \ {a} /\ Note({op}) /\ Answer(op, TRUE)
  BY <1>2, <1>7, PutAppends DEF Note, Answer
<1>8. CASE /\ index # NULL /\ Indexable
           /\ entry_size < MaxEntries /\ entry_size' = entry_size + 1
           /\ heap' = [heap EXCEPT ![a] = e] /\ UNCHANGED <<index_size, hashes>>
           /\ index' = [index EXCEPT ![b] = Entries(@)]
           /\ UNCHANGED held /\ Note({op, "oom"}) /\ Answer(op, FALSE)
  BY <1>8, PutFails DEF Note, Answer
<1> QED
  BY <1>3, <1>4, <1>5, <1>6, <1>7, <1>8 DEF PutEntry

LEMMA SetEntryKeeps ==
  ASSUME Inv, NEW a \in held, SetEntry(a)
  PROVE  Inv'
<1>1. PICK e : e = heap[a]
  OBVIOUS
<1>2. a \in Addr /\ e \in Entry
  BY <1>1 DEF Inv, TypesOK, ClientsOwn
<1>3. a \notin Members
  BY DEF Inv, Shelved
<1>4. Given("set_entry", a, e)
  BY <1>1, <1>2, <1>3 DEF Given
<1>5. PutEntry("set_entry", a, e)
  BY <1>1 DEF SetEntry
<1> QED
  BY <1>4, <1>5, PutEntryKeeps

\* The entry hash_table_set finds gets the client's value.
LEMMA SetReplaces ==
  ASSUME Inv, NEW k \in Key, NEW v \in Value, index # NULL => Indexable,
         NEW m \in Found(k), heap' = [heap EXCEPT ![m].value = v, ![m].own = FALSE],
         UNCHANGED <<table, held>>, events' = events \cup {"set"},
         fault = "none", fault' = fault
  PROVE  Inv' /\ Revalues(m, v)
<1>1. m \in Members
  <2>1. index # NULL
    BY DEF Found
  <2> QED
    BY <2>1, BucketFacts DEF Inv
<1>2. Members \subseteq Addr
      /\ \A c \in Members : heap[c] \in Entry /\ heap[c] # NULL /\ c \notin held
  BY MemberFacts DEF Inv, Shelved
<1>3. m \in Addr /\ heap[m] \in Entry /\ heap \in [Addr -> Entry \cup {NULL}]
  BY <1>1, <1>2 DEF Inv, TypesOK
<1>4. PICK new : new = [heap[m] EXCEPT !.value = v, !.own = FALSE]
  OBVIOUS
<1>5. /\ new \in Entry /\ new.key = heap[m].key
      /\ new.must_destroy = heap[m].must_destroy
  BY <1>3, <1>4 DEF Entry
<1>6. new # NULL
  BY <1>5, PointerAssumption
<1>7. heap' \in [Addr -> Entry \cup {NULL}] /\ heap'[m] = new
      /\ \A c \in Addr : c # m => heap'[c] = heap[c]
  <2>1. heap' = [c \in Addr |-> IF c = m THEN new ELSE heap[c]]
    BY <1>3, <1>4
  <2> QED
    BY <1>3, <1>5, <2>1
<1>8. \A c \in Members : /\ heap'[c] # NULL /\ heap'[c].key = heap[c].key
                         /\ c \notin held'
  BY <1>2, <1>5, <1>6, <1>7
<1>9. events \subseteq events' /\ "set" \in events'
  OBVIOUS
<1>10. Shelved' /\ Members' = Members /\ Emptied' /\ Sized'
  BY <1>8, <1>9, TableKept
<1>11. fault' \in Faults /\ FaultsExplained'
  BY AnswerFacts
<1>12. TypesOK'
  BY <1>7, <1>11 DEF Inv, TypesOK, table, Events
<1>13. ClientsOwn'
  BY <1>1, <1>2, <1>7 DEF Inv, TypesOK, ClientsOwn
<1>14. Traced'
  <2>1. ASSUME NEW c \in Members, heap'[c].must_destroy PROVE "set_entry" \in events'
    <3>1. heap[c].must_destroy
      BY <1>2, <1>5, <1>7, <2>1
    <3> QED
      BY <1>9, <3>1 DEF Inv, Traced
  <2> QED
    BY <1>9, <1>10, <2>1 DEF Traced
<1>15. NoneLost'
  <2>1. \A c \in Addr : heap'[c] # NULL => heap[c] # NULL
    BY <1>1, <1>2, <1>7
  <2> QED
    BY <1>10, <2>1 DEF Inv, NoneLost
<1>16. /\ heap'[m].value = v /\ heap'[m].key = heap[m].key /\ m \in Members
       /\ \A c \in Members : c # m => heap'[c] = heap[c]
  BY <1>1, <1>2, <1>3, <1>4, <1>5, <1>7 DEF Entry
<1> QED
  BY <1>16, <1>10, <1>11, <1>12, <1>13, <1>14, <1>15 DEF Inv, Revalues

LEMMA SetKeeps ==
  ASSUME Inv, NEW k \in Key, NEW v \in Value, Set(k, v)
  PROVE  Inv'
<1>1. events \in SUBSET Events /\ "set" \in Events
  BY DEF Inv, TypesOK, Events
<1>2. CASE Note({"set"}) /\ Crash("set", "bad_size")
  <2>1. events \subseteq events' /\ events' \in SUBSET Events
    BY <1>1, <1>2 DEF Note
  <2>2. "bad_size" \in Faults \ {"empty_list", "bad_free"}
    BY DEF Faults
  <2> QED
    BY <1>2, <2>1, <2>2, CrashKeeps
<1>3. CASE /\ index # NULL => Indexable
           /\ \E m \in Found(k) : heap' = [heap EXCEPT ![m].value = v, ![m].own = FALSE]
           /\ UNCHANGED <<table, held>> /\ Note({"set"}) /\ Answer("set", TRUE)
  <2>1. PICK m \in Found(k) : heap' = [heap EXCEPT ![m].value = v, ![m].own = FALSE]
    BY <1>3
  <2> QED
    BY <1>3, <2>1, SetReplaces DEF Note, Answer
<1>4. CASE UNCHANGED <<table, heap, held>> /\ Note({"set"}) /\ Answer("set", FALSE)
  <2>1. events \subseteq events' /\ events' \in SUBSET Events
    BY <1>1, <1>4 DEF Note
  <2>2. fault' \in Faults /\ FaultsExplained'
    BY <1>4, AnswerFacts DEF Answer
  <2> QED
    BY <1>4, <2>1, <2>2, StateKept
<1>5. ASSUME Found(k) = {}, NEW a \in Addr, heap[a] = NULL,
             PutEntry("set", a, [key |-> k, value |-> v, own |-> FALSE, must_destroy |-> FALSE])
      PROVE  Inv'
  <2>1. PICK e : e = [key |-> k, value |-> v, own |-> FALSE, must_destroy |-> FALSE]
    OBVIOUS
  <2>2. e \in Entry /\ e.key = k /\ ~e.own /\ ~e.must_destroy
    BY <2>1 DEF Entry
  <2>3. a \notin Members
    BY <1>5, MemberFacts DEF Inv
  <2>4. Given("set", a, e)
    BY <1>5, <2>2, <2>3 DEF Given
  <2>5. PutEntry("set", a, e)
    BY <1>5, <2>1
  <2> QED
    BY <2>4, <2>5, PutEntryKeeps
<1> QED
  BY <1>2, <1>3, <1>4, <1>5 DEF Set

\* The calls that change nothing.
LEMMA ReadKeeps ==
  ASSUME Inv, UNCHANGED <<table, heap, held, events>>, fault = "none", fault' = fault
  PROVE  Inv'
<1>1. fault' \in Faults /\ FaultsExplained'
  BY AnswerFacts
<1>2. events \subseteq events' /\ events' \in SUBSET Events
  BY DEF Inv, TypesOK
<1> QED
  BY <1>1, <1>2, StateKept

LEMMA GetKeeps ==
  ASSUME Inv, NEW k \in Key, Get(k)
  PROVE  Inv'
<1>1. events' = events /\ events \in SUBSET Events
  BY DEF Get, Inv, TypesOK
<1>2. CASE Crash("get", "bad_size")
  <2>1. "bad_size" \in Faults \ {"empty_list", "bad_free"}
    BY DEF Faults
  <2> QED
    BY <1>1, <1>2, <2>1, CrashKeeps
<1>3. CASE UNCHANGED <<table, heap, held>> /\ fault = "none" /\ fault' = fault
  BY <1>1, <1>3, ReadKeeps
<1> QED
  BY <1>2, <1>3 DEF Get, Answer

LEMMA SizeKeeps ==
  ASSUME Inv, Size \/ Keys \/ Values
  PROVE  Inv'
BY ReadKeeps DEF Size, Keys, Values, Collect, Answer

\* Del takes the entries it has found out of their bucket.
LEMMA DelRemoves ==
  ASSUME Inv, NEW k \in Key, index # NULL, Indexable,
         index' = IF Entries(BucketOf(k)) = <<>> THEN index
                  ELSE [index EXCEPT ![Slot(k, index_size)] =
                          Only(@, ToSet(@) \ Found(k))],
         entry_size' = IF Entries(BucketOf(k)) = <<>> THEN entry_size
                       ELSE Uncounted(Found(k)),
         Note(IF Found(k) # {} THEN {"del"} ELSE {}),
         UNCHANGED <<index_size, hashes, heap, held>>, fault = "none", fault' = fault
  PROVE  Inv' /\ Members' = Members \ Found(k)
<1> DEFINE b == Slot(k, index_size)
<1>0. events \in SUBSET Events /\ "del" \in Events
  BY DEF Inv, TypesOK, Events
<1>1. PICK d, old, gone : d = b /\ old = Entries(BucketOf(k)) /\ gone = Found(k)
  OBVIOUS
<1>2. /\ d \in Bucket /\ index[d] \in {NULL} \cup Seq(Addr)
      /\ old = Entries(index[d]) /\ old \in Seq(Addr) /\ IsInjective(old)
      /\ \A a : a \in ToSet(old) <=> a \in Members /\ Slot(heap[a].key, index_size) = d
      /\ gone = {a \in Members : heap[a].key = k}
  BY <1>1, BucketFacts DEF Inv, BucketOf
<1>3. gone \subseteq ToSet(old)
  BY <1>1, <1>2
<1>4. fault = "none" /\ fault' = fault /\ fault' \in Faults /\ FaultsExplained'
  BY AnswerFacts DEF Answer
<1>5. CASE old = <<>>
  <2>1. gone = {}
    BY <1>3, <1>5, EmptyList
  <2>2. UNCHANGED <<table, heap, held, events>>
    BY <1>1, <1>5, <2>1 DEF table, Note
  <2>3. Members' = Members
    BY <2>2 DEF Members, All, table
  <2> QED
    BY <1>1, <1>4, <2>1, <2>2, <2>3, ReadKeeps
<1>6. CASE old # <<>>
  <2>1. old = index[d]
    BY <1>2, <1>6 DEF Entries
  <2>2. PICK list : list = Only(old, ToSet(old) \ gone)
    OBVIOUS
  <2>3. list \in Seq(Addr) /\ IsInjective(list) /\ ToSet(list) = ToSet(old) \ gone
    <3>1. PICK those : those = ToSet(old) \ gone
      OBVIOUS
    <3>2. /\ list \in Seq(Addr) /\ IsInjective(list)
          /\ ToSet(list) = ToSet(old) \cap those
      BY <1>2, <2>2, <3>1, OnlyFacts
    <3> QED
      BY <3>1, <3>2
  <2>4. index' = [index EXCEPT ![d] = list]
    <3>1. index' = [index EXCEPT ![d] = Only(@, ToSet(@) \ gone)]
      BY <1>1, <1>2, <1>6
    <3> QED
      BY <2>1, <2>2, <3>1
  <2>5. entry_size' = entry_size - Cardinality(gone)
    BY <1>1, <1>2, <1>6 DEF Uncounted
  <2>6. /\ events \subseteq events' /\ events' \in SUBSET Events
        /\ gone # {} => "del" \in events'
    BY <1>0, <1>1 DEF Note
  <2>7. list = <<>> => gone # {}
    BY <1>2, <1>6, <2>3, EmptyList
  <2>8. \A a \in Members : /\ heap'[a] = heap[a] /\ heap'[a] # NULL
                           /\ a \notin held'
    BY MemberFacts DEF Inv, Shelved
  <2>9. \A a \in ToSet(list) : /\ heap'[a] # NULL /\ a \notin held'
                               /\ Slot(heap'[a].key, index_size) = d
    BY <1>2, <2>3, <2>8
  <2>10. \A a, c \in ToSet(list) : heap'[a].key = heap'[c].key => a = c
    <3>1. \A a, c \in Members : heap[a].key = heap[c].key => a = c
      BY MemberFacts DEF Inv
    <3> QED
      BY <1>2, <2>3, <2>8, <3>1
  <2>11. /\ Shelved' /\ Emptied'
         /\ \A a : a \in Members' <=> \/ a \in ToSet(list)
                                      \/ a \in Members /\ a \notin ToSet(Entries(index[d]))
    BY <1>2, <2>3, <2>4, <2>6, <2>7, <2>8, <2>9, <2>10, ShelfUpdate
  <2>12. Members' = Members \ gone
    <3>1. \A a : a \in ToSet(list) <=> a \in ToSet(old) /\ a \notin gone
      BY <2>3
    <3>2. \A a : a \in ToSet(old) => a \in Members
      BY <1>2
    <3>3. \A a : a \in gone => a \in ToSet(old)
      BY <1>3
    <3>4. \A a : a \in Members' <=> a \in Members /\ a \notin gone
      BY <1>2, <2>11, <3>1, <3>2, <3>3, Zenon
    <3> QED
      BY <3>4
  <2>13. /\ Cardinality(Members') = Cardinality(Members) - Cardinality(gone)
         /\ Cardinality(gone) \in Nat /\ Cardinality(gone) =< Cardinality(Members)
         /\ Cardinality(Members) \in Nat
    <3>1. PICK all : all = Members
      OBVIOUS
    <3>2. IsFiniteSet(all) /\ gone \subseteq all
      BY <1>2, <3>1, StoredFacts DEF Inv
    <3>3. /\ IsFiniteSet(gone) /\ Cardinality(gone) =< Cardinality(all)
          /\ Cardinality(gone) \in Nat /\ Cardinality(all) \in Nat
      BY <3>2, FS_Subset, FS_CardinalityType
    <3>4. all \cap gone = gone
      BY <3>2
    <3>5. Cardinality(all \ gone) = Cardinality(all) - Cardinality(gone)
      BY <3>2, <3>4, FS_Difference, ZenonT(30)
    <3> QED
      BY <2>12, <3>1, <3>3, <3>5
  <2>14. entry_size \in 0 .. MaxEntries /\ Cardinality(Members) =< entry_size
         /\ (events \cap {"rehash", "oom"} = {} => Cardinality(Members) = entry_size)
    BY DEF Inv, TypesOK, Sized
  <2>15. TypesOK'
    <3>1. entry_size' \in 0 .. MaxEntries
      BY <2>5, <2>13, <2>14, SizeAssumption
    <3>2. heap' = heap /\ held' = held /\ hashes' = hashes
      OBVIOUS
    <3> QED
      BY <1>4, <2>6, <3>1, <3>2 DEF Inv, TypesOK
  <2>16. Sized'
    <3>1. events' \cap {"rehash", "oom"} = {} => events \cap {"rehash", "oom"} = {}
      BY <2>6
    <3>2. Cardinality(Members') =< entry_size'
      BY <2>5, <2>13, <2>14
    <3>3. events' \cap {"rehash", "oom"} = {} => Cardinality(Members') = entry_size'
      BY <2>5, <2>13, <2>14, <3>1
    <3> QED
      BY <3>2, <3>3 DEF Sized
  <2>17. ClientsOwn'
    BY DEF Inv, ClientsOwn
  <2>18. Traced'
    BY <2>6, <2>8, <2>12 DEF Inv, Traced
  <2>19. NoneLost'
    <3>1. SUFFICES ASSUME events' \cap {"del", "oom", "no_index"} = {},
                          NEW a \in Addr, heap'[a] # NULL
                   PROVE  a \in Members' \/ a \in held'
      BY DEF NoneLost
    <3>2. gone = {} /\ events \cap {"del", "oom", "no_index"} = {}
      BY <2>6, <3>1
    <3> QED
      BY <2>12, <3>1, <3>2 DEF Inv, NoneLost
  <2> QED
    BY <1>1, <1>4, <2>11, <2>12, <2>15, <2>16, <2>17, <2>18, <2>19 DEF Inv
<1> QED
  BY <1>5, <1>6

LEMMA DelKeeps ==
  ASSUME Inv, NEW k \in Key, Del(k)
  PROVE  Inv'
<1> DEFINE b == Slot(k, index_size)
<1>1. events \in SUBSET Events /\ "del" \in Events
  BY DEF Inv, TypesOK, Events
<1>2. CASE UNCHANGED <<table, heap, held, events>> /\ Answer("del", FALSE)
  BY <1>2, ReadKeeps DEF Answer
<1>3. CASE UNCHANGED events /\ Crash("del", "bad_size")
  <2>1. "bad_size" \in Faults \ {"empty_list", "bad_free"}
    BY DEF Faults
  <2> QED
    BY <1>1, <1>3, <2>1, CrashKeeps
<1>4. CASE Note({"del"}) /\ Crash("del", "freed_node")
  <2>1. events \subseteq events' /\ events' \in SUBSET Events
    BY <1>1, <1>4 DEF Note
  <2>2. "freed_node" \in Faults \ {"empty_list", "bad_free"}
    BY DEF Faults
  <2> QED
    BY <1>4, <2>1, <2>2, CrashKeeps
<1>5. ASSUME index # NULL, Indexable,
             index' = IF Entries(index[b]) = <<>> THEN index
                      ELSE [index EXCEPT ![b] = Only(@, ToSet(@) \ Found(k))],
             entry_size' = IF Entries(index[b]) = <<>> THEN entry_size
                           ELSE Uncounted(Found(k)),
             Note(IF Found(k) # {} THEN {"del"} ELSE {}),
             UNCHANGED <<index_size, hashes, heap, held>>, Answer("del", Found(k) # {})
      PROVE  Inv'
  <2>1. BucketOf(k) = index[b]
    BY DEF BucketOf
  <2> QED
    BY <1>5, <2>1, DelRemoves DEF Answer
<1> QED
  BY <1>2, <1>3, <1>4, <1>5 DEF Del

LEMMA DestroyKeeps ==
  ASSUME Inv, Destroy
  PROVE  Inv'
<1>1. events' = events /\ events \in SUBSET Events
  BY DEF Destroy, Inv, TypesOK
<1>2. PICK gone : gone = ToSet(Visited)
  OBVIOUS
<1>3. gone = Members
  <2>1. ToSet(Stored) = Members /\ IsFiniteSet(Members)
    BY StoredFacts DEF Inv
  <2>2. CASE entry_size = 0
    <3>1. PICK all : all = Members
      OBVIOUS
    <3>2. Cardinality(all) =< 0 /\ Cardinality(all) \in Nat
      BY <2>1, <2>2, <3>1, FS_CardinalityType DEF Inv, Sized
    <3>3. Cardinality(all) = 0
      BY <3>2
    <3>4. all = {}
      BY <2>1, <3>1, <3>3, FS_EmptySet
    <3>5. Visited = <<>>
      BY <2>2 DEF Visited
    <3> QED
      BY <1>2, <3>1, <3>4, <3>5, EmptyList
  <2>3. CASE entry_size # 0
    BY <1>2, <2>1, <2>3 DEF Visited
  <2> QED
    BY <2>2, <2>3
<1>4. CASE UNCHANGED <<table, heap, held>> /\ Answer("destroy", FALSE)
  BY <1>1, <1>4, ReadKeeps DEF Answer
<1>5. CASE (\E a \in gone : heap[a].must_destroy /\ ~heap[a].own) /\ Crash("destroy", "bad_free")
  <2>1. {"set", "set_entry"} \subseteq events
    BY <1>3, <1>5 DEF Inv, Traced
  <2>2. fault' = "bad_free"
    BY <1>5 DEF Crash
  <2>3. fault' \in Faults /\ FaultsExplained'
    BY <1>1, <2>1, <2>2 DEF Faults, FaultsExplained
  <2> QED
    BY <1>1, <1>5, <2>3, StateKept DEF Crash
<1>6. CASE /\ index' = NULL /\ entry_size' = 0 /\ heap' = Freed(gone)
           /\ UNCHANGED <<index_size, hashes, held>> /\ Answer("destroy", TRUE)
  <2>1. Members' = {}
    BY <1>6 DEF Members
  <2>2. fault' \in Faults /\ FaultsExplained'
    BY <1>6, AnswerFacts DEF Answer
  <2>3. heap \in [Addr -> Entry \cup {NULL}] /\ held \in SUBSET Addr
    BY DEF Inv, TypesOK
  <2>4. heap' \in [Addr -> Entry \cup {NULL}]
        /\ \A a \in Addr : heap'[a] = IF a \in gone THEN NULL ELSE heap[a]
    BY <1>6, <2>3 DEF Freed
  <2>5. \A a \in held : a \notin gone
    BY <1>3 DEF Inv, Shelved
  <2>6. Shelved' /\ Traced' /\ Emptied'
    BY <1>6, <2>1 DEF Inv, Shelved, Traced, Emptied
  <2>7. TypesOK'
    BY <1>1, <1>6, <2>2, <2>4, SizeAssumption DEF Inv, TypesOK
  <2>8. ClientsOwn'
    BY <1>6, <2>3, <2>4, <2>5 DEF Inv, ClientsOwn
  <2>9. Sized'
    BY <1>6, <2>1, FS_EmptySet DEF Sized
  <2>10. NoneLost'
    BY <1>1, <1>3, <1>6, <2>1, <2>4 DEF Inv, NoneLost
  <2> QED
    BY <2>2, <2>6, <2>7, <2>8, <2>9, <2>10 DEF Inv
<1> QED
  BY <1>2, <1>4, <1>5, <1>6 DEF Destroy

\* What a rehash that leaves a table behind keeps besides the table.
LEMMA RehashRest ==
  ASSUME Inv, Shelved', Emptied', Sized', UNCHANGED <<hashes, heap, held>>,
         \A a \in Members' : a \in Members,
         events \subseteq events', events' \in SUBSET Events,
         "oom" \in events' \/ Members' = Members,
         entry_size' \in 0 .. MaxEntries, fault = "none", fault' = fault
  PROVE  Inv'
<1>1. fault' \in Faults /\ FaultsExplained'
  BY AnswerFacts
<1>2. TypesOK' /\ ClientsOwn'
  BY <1>1 DEF Inv, TypesOK, ClientsOwn
<1>3. Traced'
  BY DEF Inv, Traced
<1>4. NoneLost'
  BY DEF Inv, NoneLost
<1> QED
  BY <1>1, <1>2, <1>3, <1>4 DEF Inv

LEMMA RehashDone ==
  ASSUME Inv, NEW n \in IndexSize, NEW old \in Seq(Addr), old = Stored,
         NEW moves, moves = IF old = <<>> THEN {} ELSE {"rehash"},
         old # <<>> => n >= 2, entry_size + Len(old) =< MaxEntries,
         index_size' = n, UNCHANGED <<hashes, heap, held>>,
         index' = IF old = <<>> THEN EmptyIndex(n) ELSE Placed(old, n),
         entry_size' = entry_size + Len(old),
         events' = events \cup moves, fault = "none", fault' = fault
  PROVE  Inv' /\ Members' = Members /\ heap' = heap
<1>1. /\ ToSet(old) = Members /\ IsInjective(old) /\ IsFiniteSet(Members)
      /\ Len(old) = Cardinality(Members) /\ n \in Nat
  BY StoredFacts, SizeAssumption DEF Inv
<1>2. /\ Members \subseteq Addr
      /\ \A a \in Members : heap[a] \in Entry /\ heap[a] # NULL /\ Indexable
      /\ \A a, c \in Members : heap[a].key = heap[c].key => a = c
  BY MemberFacts DEF Inv
<1>3. PICK idx : idx = IF old = <<>> THEN EmptyIndex(n) ELSE Placed(old, n)
  OBVIOUS
<1>4. /\ Sound(idx, n, heap) /\ All(idx, n) = ToSet(old)
      /\ \A b \in 0 .. n - 1 : idx[b] # <<>>
  <2>1. CASE old = <<>>
    <3>1. PICK h : h = heap
      OBVIOUS
    <3>2. /\ Sound(EmptyIndex(n), n, h) /\ All(EmptyIndex(n), n) = {}
          /\ \A b \in 0 .. n - 1 : EmptyIndex(n)[b] # <<>>
      BY <1>1, EmptyIndexFacts
    <3>3. ToSet(old) = {}
      BY <2>1, EmptyList
    <3>4. idx = EmptyIndex(n)
      BY <1>3, <2>1
    <3> QED
      BY <3>1, <3>2, <3>3, <3>4
  <2>2. CASE old # <<>>
    <3>1. \A a \in ToSet(old) : heap[a] # NULL /\ heap[a].key \in Key
      BY <1>1, <1>2 DEF Entry
    <3>2. \A a, c \in ToSet(old) : heap[a].key = heap[c].key => a = c
      BY <1>1, <1>2
    <3>3. /\ Sound(Placed(old, n), n, heap) /\ All(Placed(old, n), n) = ToSet(old)
          /\ \A b \in 0 .. n - 1 : Placed(old, n)[b] # <<>>
      BY <1>1, <2>2, <3>1, <3>2, PlacedFacts
    <3>4. idx = Placed(old, n)
      BY <1>3, <2>2
    <3> QED
      BY <3>3, <3>4
  <2> QED
    BY <2>1, <2>2
<1>5. index' = idx /\ index_size' = n /\ heap' = heap /\ held' = held /\ hashes' = hashes
  BY <1>3
<1>6. idx # NULL
  BY <1>4, PointerAssumption DEF Sound
<1>7. Members' = Members
  BY <1>1, <1>4, <1>5, <1>6 DEF Members
<1>8. Shelved'
  <2>1. \A a \in Members : a \notin held /\ hashes
    BY DEF Inv, Shelved
  <2> QED
    BY <1>1, <1>4, <1>5, <1>7, <2>1 DEF Shelved
<1>9. Emptied'
  BY <1>4, <1>5 DEF Emptied, Bucket
<1>10. /\ entry_size \in 0 .. MaxEntries /\ Cardinality(Members) \in Nat
       /\ (events \cap {"rehash", "oom"} = {} => Cardinality(Members) = entry_size)
  BY <1>1, FS_CardinalityType DEF Inv, TypesOK, Sized
<1>11. entry_size' \in 0 .. MaxEntries /\ Len(old) \in Nat
  BY <1>1, <1>10, SizeAssumption
<1>12. Sized'
  <2>1. Cardinality(Members') = Len(old)
    BY <1>1, <1>7
  <2>2. Cardinality(Members') =< entry_size'
    BY <1>10, <1>11, <2>1
  <2>3. ASSUME events' \cap {"rehash", "oom"} = {}
        PROVE  Cardinality(Members') = entry_size'
    <3>1. old = <<>> /\ events \cap {"rehash", "oom"} = {}
      BY <2>3
    <3>2. Len(old) = 0
      BY <3>1
    <3> QED
      BY <1>1, <1>10, <2>1, <3>1, <3>2
  <2> QED
    BY <2>2, <2>3 DEF Sized
<1>13. events \subseteq events' /\ events' \in SUBSET Events
  BY DEF Inv, TypesOK, Events
<1>14. \A a \in Members' : a \in Members
  BY <1>7
<1> QED
  BY <1>5, <1>7, <1>8, <1>9, <1>11, <1>12, <1>13, <1>14, RehashRest

\* A rehash in which the i-th entry cannot be set again: those before it are in
\* the new index, the bucket of the i-th has a list.
LEMMA RehashStops ==
  ASSUME Inv, NEW n \in IndexSize, NEW old \in Seq(Addr), old = Stored,
         NEW i \in DOMAIN old, n >= 2, entry_size + Len(old) =< MaxEntries,
         index_size' = n, UNCHANGED <<hashes, heap, held>>,
         index' = [Placed(SubSeq(old, 1, i - 1), n)
                     EXCEPT ![Slot(heap[old[i]].key, n)] = Entries(@)],
         entry_size' = entry_size + i,
         events' = events \cup {"rehash", "oom"}, fault = "none", fault' = fault
  PROVE  Inv'
<1>1. /\ ToSet(old) = Members /\ IsInjective(old) /\ n \in Nat
      /\ DOMAIN old = 1 .. Len(old) /\ Len(old) \in Nat
  BY StoredFacts, SizeAssumption, LenProperties DEF Inv
<1>2. /\ \A a \in Members : heap[a] \in Entry /\ heap[a] # NULL /\ Indexable
      /\ \A a, c \in Members : heap[a].key = heap[c].key => a = c
  BY MemberFacts DEF Inv
<1>3. PICK pre : pre = SubSeq(old, 1, i - 1)
  OBVIOUS
<1>4. /\ pre \in Seq(Addr) /\ Len(pre) = i - 1 /\ IsInjective(pre)
      /\ \A a \in ToSet(pre) : a \in Members
  <2>1. i - 1 \in 0 .. Len(old) /\ 1 \in 1 .. Len(old) + 1
    BY <1>1
  <2>2. pre \in Seq(Addr) /\ Len(pre) = i - 1
        /\ \A j \in 1 .. i - 1 : pre[j] = old[j]
    <3>1. \A j \in 1 .. i - 1 : old[j] \in Addr
      BY <1>1, ElementOfSeq
    <3> QED
      BY <1>1, <1>3, <2>1, <3>1, SubSeqProperties
  <2>3. DOMAIN pre = 1 .. i - 1
    BY <2>2, LenProperties
  <2>4. \A j \in 1 .. i - 1 : j \in DOMAIN old
    BY <1>1
  <2>5. IsInjective(pre)
    BY <1>1, <2>2, <2>3, <2>4 DEF IsInjective
  <2>6. \A a \in ToSet(pre) : a \in ToSet(old)
    BY <2>2, <2>3, <2>4 DEF ToSet
  <2> QED
    BY <1>1, <2>2, <2>5, <2>6
<1>5. PICK done : done = Placed(pre, n)
  OBVIOUS
<1>6. Sound(done, n, heap) /\ All(done, n) = ToSet(pre)
  <2>1. \A a \in ToSet(pre) : heap[a] # NULL /\ heap[a].key \in Key
    BY <1>2, <1>4 DEF Entry
  <2>2. \A a, c \in ToSet(pre) : heap[a].key = heap[c].key => a = c
    BY <1>2, <1>4
  <2> QED
    BY <1>1, <1>4, <1>5, <2>1, <2>2, PlacedFacts
<1>7. PICK k : k = heap[old[i]].key
  OBVIOUS
<1>8. k \in Key
  <2>1. old[i] \in Members
    BY <1>1 DEF ToSet
  <2> QED
    BY <1>2, <1>7, <2>1 DEF Entry
<1>9. PICK b, h : b = Slot(k, n) /\ h = heap
  OBVIOUS
<1>10. PICK list : list = Entries(done[b])
  OBVIOUS
<1>11. PICK idx : idx = [done EXCEPT ![b] = list]
  OBVIOUS
<1>12. b \in 0 .. n - 1
  BY <1>1, <1>8, <1>9, SlotFacts
<1>13. Sound(idx, n, heap) /\ All(idx, n) = ToSet(pre)
  <2>1. done[b] \in {NULL} \cup Seq(Addr)
    BY <1>6, <1>12 DEF Sound
  <2>2. list \in Seq(Addr)
    BY <1>10, <2>1, EntriesFacts
  <2>3. Fits(list, b, n, h)
    BY <1>6, <1>9, <1>10, <1>12, <2>2 DEF Sound, Fits
  <2>4. Sound(done, n, h)
    BY <1>6, <1>9
  <2>5. KeysKept(done, n, h, h)
    BY <1>1, <2>4, AllFacts DEF KeysKept
  <2>6. /\ Sound(idx, n, h)
        /\ \A a : a \in All(idx, n) <=> \/ a \in ToSet(list)
                                        \/ a \in All(done, n) /\ a \notin ToSet(Entries(done[b]))
    BY <1>1, <1>11, <1>12, <2>3, <2>4, <2>5, BucketUpdate
  <2>7. \A a \in ToSet(list) : a \in All(done, n)
    BY <1>10, <1>12 DEF All
  <2>8. \A a : a \in All(idx, n) <=> a \in All(done, n)
    BY <1>10, <2>6, <2>7, Zenon
  <2>9. All(idx, n) = All(done, n)
    BY <2>8
  <2> QED
    BY <1>6, <1>9, <2>6, <2>9
<1>14. index' = idx /\ index_size' = n /\ heap' = heap /\ held' = held /\ hashes' = hashes
  <2>1. index' = [done EXCEPT ![b] = Entries(@)]
    BY <1>3, <1>5, <1>7, <1>9
  <2> QED
    BY <1>10, <1>11, <2>1
<1>15. idx # NULL
  BY <1>13, PointerAssumption DEF Sound
<1>16. Members' = ToSet(pre)
  BY <1>13, <1>14, <1>15 DEF Members
<1>17. Shelved'
  <2>1. \A a \in Members' : a \notin held /\ hashes
    BY <1>4, <1>16 DEF Inv, Shelved
  <2> QED
    BY <1>1, <1>13, <1>14, <2>1 DEF Shelved
<1>18. Emptied'
  BY DEF Emptied
<1>19. entry_size \in 0 .. MaxEntries /\ entry_size' \in 0 .. MaxEntries
       /\ i - 1 =< entry_size'
  BY <1>1, SizeAssumption DEF Inv, TypesOK
<1>20. Sized'
  <2>1. Cardinality(Members') = i - 1
    BY <1>4, <1>16, InjectiveCount
  <2> QED
    BY <1>19, <2>1 DEF Sized
<1>21. events \subseteq events' /\ events' \in SUBSET Events
  BY DEF Inv, TypesOK, Events
<1>22. \A a \in Members' : a \in Members
  BY <1>4, <1>16
<1> QED
  BY <1>17, <1>18, <1>19, <1>20, <1>21, <1>22, RehashRest

LEMMA RehashKeeps ==
  ASSUME Inv, NEW n \in IndexSize, Rehash(n)
  PROVE  Inv'
<1>1. PICK old, moves : old = Stored /\ moves = IF old = <<>> THEN {} ELSE {"rehash"}
  OBVIOUS
<1>2. old \in Seq(Addr)
  BY <1>1, StoredFacts DEF Inv
<1>3. events \in SUBSET Events /\ moves \subseteq Events /\ "oom" \in Events
  BY <1>1 DEF Inv, TypesOK, Events
<1>4. CASE /\ index' = NULL /\ UNCHANGED <<index_size, entry_size, hashes, heap, held>>
           /\ Note(moves \cup {"oom"}) /\ Answer("rehash", FALSE)
  <2>1. Members' = {}
    BY <1>4 DEF Members
  <2>2. Shelved' /\ Emptied'
    BY <1>4, <2>1 DEF Inv, Shelved, Emptied
  <2>3. events \subseteq events' /\ events' \in SUBSET Events /\ "oom" \in events'
    BY <1>3, <1>4 DEF Note
  <2>4. entry_size' \in 0 .. MaxEntries /\ 0 =< entry_size'
    BY <1>4 DEF Inv, TypesOK
  <2>5. Sized'
    BY <2>1, <2>3, <2>4, FS_EmptySet DEF Sized
  <2> QED
    BY <1>4, <2>1, <2>2, <2>3, <2>4, <2>5, RehashRest DEF Answer
<1>5. ASSUME Note(moves), NEW why \in {"no_index", "bad_size", "no_list"},
             Crash("rehash", why)
      PROVE  Inv'
  <2>1. events \subseteq events' /\ events' \in SUBSET Events
    BY <1>3, <1>5 DEF Note
  <2>2. why \in Faults \ {"empty_list", "bad_free"}
    BY DEF Faults
  <2> QED
    BY <1>5, <2>1, <2>2, CrashKeeps
<1>6. CASE /\ old # <<>> => n >= 2
           /\ entry_size + Len(old) =< MaxEntries
           /\ index_size' = n /\ UNCHANGED <<hashes, heap, held>>
           /\ index' = IF old = <<>> THEN EmptyIndex(n) ELSE Placed(old, n)
           /\ entry_size' = entry_size + Len(old)
           /\ Note(moves) /\ Answer("rehash", TRUE)
  BY <1>1, <1>2, <1>6, RehashDone DEF Note, Answer
<1>7. ASSUME old # <<>> => n >= 2, entry_size + Len(old) =< MaxEntries,
             index_size' = n, UNCHANGED <<hashes, heap, held>>, NEW i \in DOMAIN old,
             index' = [Placed(SubSeq(old, 1, i - 1), n)
                         EXCEPT ![Slot(heap[old[i]].key, n)] = Entries(@)],
             entry_size' = entry_size + i,
             Note(moves \cup {"oom"}), Answer("rehash", FALSE)
      PROVE  Inv'
  <2>1. old # <<>>
    BY <1>7
  <2>2. n >= 2 /\ events' = events \cup {"rehash", "oom"}
    BY <1>1, <1>7, <2>1 DEF Note
  <2> QED
    BY <1>1, <1>2, <1>7, <2>2, RehashStops DEF Answer
<1> QED
  BY <1>1, <1>4, <1>5, <1>6, <1>7 DEF Rehash

-----------------------------------------------------------------------------
(* The theorems *)

LEMMA InitInv == Init => Inv
<1> SUFFICES ASSUME Init PROVE Inv
  OBVIOUS
<1>1. Members = {}
  BY DEF Init, Members
<1>2. Shelved /\ ClientsOwn /\ Traced /\ Emptied /\ FaultsExplained
  BY <1>1 DEF Init, Shelved, ClientsOwn, Traced, Emptied, FaultsExplained
<1>3. TypesOK
  <2>1. entry_size \in 0 .. MaxEntries
    BY SizeAssumption DEF Init
  <2>2. hashes \in BOOLEAN
    BY Zenon DEF Init
  <2>3. heap \in [Addr -> Entry \cup {NULL}]
    BY DEF Init
  <2>4. held \in SUBSET Addr /\ fault \in Faults /\ events \in SUBSET Events
    BY DEF Init, Faults
  <2> QED
    BY <2>1, <2>2, <2>3, <2>4 DEF TypesOK
<1>4. Sized
  BY <1>1, FS_EmptySet DEF Init, Sized
<1>5. NoneLost
  BY DEF Init, NoneLost
<1> QED
  BY <1>2, <1>3, <1>4, <1>5 DEF Inv

LEMMA NextInv == Inv /\ [Next]_vars => Inv'
<1> SUFFICES ASSUME Inv, [Next]_vars PROVE Inv'
  OBVIOUS
<1>1. ASSUME NEW n \in IndexSize, Setup(n) \/ Rehash(n) PROVE Inv'
  BY <1>1, SetupKeeps, RehashKeeps
<1>2. ASSUME NEW k \in Key, NEW v \in Value, Set(k, v) \/ InitEntry(k, v) PROVE Inv'
  BY <1>2, SetKeeps, InitEntryKeeps
<1>3. ASSUME NEW a \in held, SetEntry(a) \/ DestroyEntry(a) PROVE Inv'
  BY <1>3, SetEntryKeeps, DestroyEntryKeeps
<1>4. ASSUME NEW k \in Key, Get(k) \/ Del(k) PROVE Inv'
  BY <1>4, GetKeeps, DelKeeps
<1>5. CASE Size \/ Keys \/ Values
  BY <1>5, SizeKeeps
<1>6. CASE Destroy
  BY <1>6, DestroyKeeps
<1>7. CASE UNCHANGED vars
  <2>1. UNCHANGED <<table, heap, held>> /\ events' = events /\ fault' = fault
    BY <1>7 DEF vars, table
  <2>2. fault' \in Faults /\ FaultsExplained' /\ events' \in SUBSET Events
    BY <2>1 DEF Inv, TypesOK, FaultsExplained
  <2> QED
    BY <2>1, <2>2, StateKept
<1> QED
  BY <1>1, <1>2, <1>3, <1>4, <1>5, <1>6, <1>7 DEF Next

LEMMA Invariance == Spec => []Inv
BY InitInv, NextInv, PTL DEF Spec

LEMMA InvTypeOK == Inv => TypeOK
<1> SUFFICES ASSUME Inv PROVE TypeOK
  OBVIOUS
<1>1. index = NULL \/ (DOMAIN index = Bucket
                       /\ \A b \in Bucket : index[b] \in {NULL} \cup Seq(Addr))
  BY DEF Inv, Shelved, Sound, Bucket
<1> QED
  BY <1>1 DEF Inv, Shelved, TypesOK, TypeOK

LEMMA InvWellPlaced == Inv => WellPlaced
<1> SUFFICES ASSUME Inv PROVE WellPlaced
  OBVIOUS
<1>1. PICK stored : stored = Stored
  OBVIOUS
<1>2. stored \in Seq(Addr) /\ ToSet(stored) = Members /\ IsInjective(stored)
  BY <1>1, StoredFacts DEF Inv
<1>3. ASSUME NEW a \in ToSet(stored)
      PROVE  /\ heap[a] # NULL /\ a \notin held /\ Indexable
             /\ a \in ToSet(Entries(BucketOf(heap[a].key)))
  <2>1. a \in Members /\ heap[a] \in Entry /\ heap[a] # NULL /\ Indexable
    BY <1>2, MemberFacts DEF Inv
  <2>2. index # NULL /\ a \notin held
    BY <2>1 DEF Members, Inv, Shelved
  <2>3. PICK k \in Key : k = heap[a].key
    BY <2>1 DEF Entry
  <2>4. a \in ToSet(Entries(BucketOf(k)))
    BY <2>1, <2>2, <2>3, BucketFacts DEF Inv
  <2> QED
    BY <2>1, <2>2, <2>3, <2>4
<1>4. ASSUME NEW i \in DOMAIN stored, NEW j \in DOMAIN stored,
             heap[stored[i]].key = heap[stored[j]].key
      PROVE  i = j
  <2>1. stored[i] \in Members /\ stored[j] \in Members
    BY <1>2 DEF ToSet
  <2>2. stored[i] = stored[j]
    BY <1>4, <2>1, MemberFacts DEF Inv
  <2> QED
    BY <1>2, <2>2 DEF IsInjective
<1> QED
  BY <1>1, <1>3, <1>4 DEF WellPlaced

LEMMA InvCounted == Inv => Counted
BY StoredFacts DEF Inv, Sized, Counted

LEMMA InvNothingLost == Inv => NothingLost
BY StoredFacts DEF Inv, NoneLost, NothingLost, InTable

\* The buckets, the counter and the heap have the types the code gives them;
\* del never brings entry_size below 0 (hash_table.c, line 286).
THEOREM TypeCorrect == Spec => []TypeOK
BY Invariance, InvTypeOK, PTL

\* Whatever calls succeed, fail or stop halfway, each entry iter meets is
\* allocated, the table's alone, in the bucket of its key, and the only one with
\* that key (hash_table_set_entry, hash_table_del and hash_table_rehash).
THEOREM WellPlacedCorrect == Spec => []WellPlaced
BY Invariance, InvWellPlaced, PTL

\* entry_size counts at least the entries stored, and exactly those until a
\* rehash or a failed allocation (hash_table_set_entry, hash_table_del).
THEOREM CountedCorrect == Spec => []Counted
BY Invariance, InvCounted, PTL

\* Only del and failed pushes leave the empty lists that set_entry trips over,
\* and destroy frees a client's value only if set and set_entry are mixed.
THEOREM FaultsExplainedCorrect == Spec => []FaultsExplained
<1>1. Inv => FaultsExplained
  BY DEF Inv
<1> QED
  BY <1>1, Invariance, PTL

\* No entry is leaked but by del, by a set without an index or by a failed
\* allocation (hash_table_set, hash_table_set_entry, hash_table_destroy).
THEOREM NothingLostCorrect == Spec => []NothingLost
BY Invariance, InvNothingLost, PTL

-----------------------------------------------------------------------------
(* HashTable implements MapSpec *)

\* The map of the entries at the addresses of S in heap h
MapAt(h, S) == MapOf({h[a] : a \in S})

OwnKeys(h, S) == \A a, c \in S : h[a].key = h[c].key => a = c

\* m gives each key of those entries the value of its entry, and nothing else.
Describes(m, h, S) ==
  /\ m = [k \in {h[a].key : a \in S} |-> m[k]]
  /\ DOMAIN m = {h[a].key : a \in S}
  /\ \A a \in S : m[h[a].key] = h[a].value

\* n is the map m with value v for key k.
Gains(n, m, k, v) == n = [x \in DOMAIN m \cup {k} |-> IF x = k THEN v ELSE m[x]]

\* n is the map m without key k.
Loses(n, m, k) == n = [x \in DOMAIN m \ {k} |-> m[x]]

LEMMA MapAtFacts ==
  ASSUME NEW h, NEW S, OwnKeys(h, S)
  PROVE  Describes(MapAt(h, S), h, S)
<1> DEFINE E == {h[a] : a \in S}
           val(k) == (CHOOSE e \in E : e.key = k).value
<1>1. MapAt(h, S) = [k \in {e.key : e \in E} |-> val(k)]
  BY DEF MapAt, MapOf
<1>2. {e.key : e \in E} = {h[a].key : a \in S}
  OBVIOUS
<1>3. ASSUME NEW a \in S PROVE val(h[a].key) = h[a].value
  <2>1. PICK e : e = CHOOSE x \in E : x.key = h[a].key
    OBVIOUS
  <2>2. h[a] \in E /\ h[a].key = h[a].key
    OBVIOUS
  <2>3. e \in E /\ e.key = h[a].key
    <3> HIDE DEF E
    <3> QED
      BY <2>1, <2>2, Zenon
  <2>4. PICK c \in S : e = h[c]
    BY <2>3
  <2>5. c = a
    BY <2>3, <2>4 DEF OwnKeys
  <2> QED
    BY <2>1, <2>4, <2>5
<1>4. \A a \in S : h[a].key \in {h[c].key : c \in S}
  OBVIOUS
<1>5. PICK m : m = MapAt(h, S)
  OBVIOUS
<1> HIDE DEF E, val
<1>6. Describes(m, h, S)
  BY <1>1, <1>2, <1>3, <1>4, <1>5 DEF Describes
<1> QED
  BY <1>5, <1>6

\* The map depends on the entries alone.
LEMMA MapSame ==
  ASSUME NEW h, NEW g, NEW S, \A a \in S : g[a] = h[a]
  PROVE  MapAt(g, S) = MapAt(h, S)
<1>1. {g[a] : a \in S} = {h[a] : a \in S}
  OBVIOUS
<1> QED
  BY <1>1, Zenon DEF MapAt

\* One more entry, of a key of its own, gives the key its value.
LEMMA MapWithNew ==
  ASSUME NEW h, NEW g, NEW S, NEW a, NEW k, NEW v, NEW T, T = S \cup {a},
         OwnKeys(h, S), OwnKeys(g, T), \A c \in S : g[c] = h[c],
         g[a].key = k, g[a].value = v, \A c \in S : h[c].key # k
  PROVE  Gains(MapAt(g, T), MapAt(h, S), k, v)
<1>1. PICK m, n : m = MapAt(h, S) /\ n = MapAt(g, T)
  OBVIOUS
<1>2. DOMAIN m = {h[c].key : c \in S} /\ \A c \in S : m[h[c].key] = h[c].value
  <2>1. Describes(m, h, S)
    BY <1>1, MapAtFacts
  <2> QED
    BY <2>1, Zenon DEF Describes
<1>3. OwnKeys(g, T)
  BY <1>1
<1>4. /\ n = [x \in {g[c].key : c \in T} |-> n[x]]
      /\ \A c \in T : n[g[c].key] = g[c].value
  <2>1. Describes(n, g, T)
    BY <1>1, <1>3, MapAtFacts
  <2> QED
    BY <2>1, Zenon DEF Describes
<1>5. {g[c].key : c \in T} = DOMAIN m \cup {k}
  BY <1>1, <1>2
<1>6. ASSUME NEW x \in DOMAIN m \cup {k} PROVE n[x] = IF x = k THEN v ELSE m[x]
  <2>1. CASE x = k
    BY <1>1, <1>4, <2>1
  <2>2. CASE x # k
    <3>1. PICK c \in S : x = h[c].key
      BY <1>2, <2>2
    <3>2. c \in T /\ g[c] = h[c]
      BY <1>1
    <3>3. n[g[c].key] = g[c].value /\ m[h[c].key] = h[c].value
      BY <1>2, <1>4, <3>2
    <3> QED
      BY <2>2, <3>1, <3>2, <3>3
  <2> QED
    BY <2>1, <2>2
<1>7. n = [x \in DOMAIN m \cup {k} |-> n[x]]
  BY <1>4, <1>5, Zenon
<1>8. n = [x \in DOMAIN m \cup {k} |-> IF x = k THEN v ELSE m[x]]
  BY <1>6, <1>7
<1> QED
  BY <1>1, <1>8, Zenon DEF Gains

\* Another value in the entry of a key gives the key that value.
LEMMA MapWithOld ==
  ASSUME NEW h, NEW g, NEW S, NEW m \in S, NEW k, NEW v, OwnKeys(h, S), OwnKeys(g, S),
         \A c \in S : c # m => g[c] = h[c],
         h[m].key = k, g[m].key = k, g[m].value = v
  PROVE  Gains(MapAt(g, S), MapAt(h, S), k, v)
<1>1. PICK old, new : old = MapAt(h, S) /\ new = MapAt(g, S)
  OBVIOUS
<1>2. DOMAIN old = {h[c].key : c \in S} /\ \A c \in S : old[h[c].key] = h[c].value
  <2>1. Describes(old, h, S)
    BY <1>1, MapAtFacts
  <2> QED
    BY <2>1, Zenon DEF Describes
<1>3. /\ new = [x \in {g[c].key : c \in S} |-> new[x]]
      /\ \A c \in S : new[g[c].key] = g[c].value
  <2>1. Describes(new, g, S)
    BY <1>1, MapAtFacts
  <2> QED
    BY <2>1, Zenon DEF Describes
<1>4. \A c \in S : g[c].key = h[c].key
  OBVIOUS
<1>5. {g[c].key : c \in S} = DOMAIN old \cup {k}
  BY <1>2, <1>4
<1>6. ASSUME NEW x \in DOMAIN old \cup {k} PROVE new[x] = IF x = k THEN v ELSE old[x]
  <2>1. CASE x = k
    BY <1>3, <2>1
  <2>2. CASE x # k
    <3>1. PICK c \in S : x = h[c].key
      BY <1>2, <2>2
    <3>2. c # m /\ g[c] = h[c]
      BY <2>2, <3>1
    <3> QED
      BY <1>2, <1>3, <2>2, <3>1, <3>2
  <2> QED
    BY <2>1, <2>2
<1>7. new = [x \in DOMAIN old \cup {k} |-> new[x]]
  BY <1>3, <1>5, Zenon
<1>8. new = [x \in DOMAIN old \cup {k} |-> IF x = k THEN v ELSE old[x]]
  BY <1>6, <1>7
<1> QED
  BY <1>1, <1>8, Zenon DEF Gains

\* Without the entries of a key the key has no value.
LEMMA MapWithout ==
  ASSUME NEW h, NEW S, NEW T, NEW k, OwnKeys(h, S),
         \A a : a \in T <=> a \in S /\ h[a].key # k
  PROVE  Loses(MapAt(h, T), MapAt(h, S), k)
<1>1. PICK m, n : m = MapAt(h, S) /\ n = MapAt(h, T)
  OBVIOUS
<1>2. DOMAIN m = {h[c].key : c \in S} /\ \A c \in S : m[h[c].key] = h[c].value
  <2>1. Describes(m, h, S)
    BY <1>1, MapAtFacts
  <2> QED
    BY <2>1, Zenon DEF Describes
<1>3. OwnKeys(h, T)
  BY DEF OwnKeys
<1>4. /\ n = [x \in {h[c].key : c \in T} |-> n[x]]
      /\ \A c \in T : n[h[c].key] = h[c].value
  <2>1. Describes(n, h, T)
    BY <1>1, <1>3, MapAtFacts
  <2> QED
    BY <2>1, Zenon DEF Describes
<1>5. {h[c].key : c \in T} = DOMAIN m \ {k}
  BY <1>2
<1>6. ASSUME NEW x \in DOMAIN m \ {k} PROVE n[x] = m[x]
  <2>1. PICK c \in S : x = h[c].key
    BY <1>2
  <2>2. c \in T
    BY <2>1
  <2> QED
    BY <1>2, <1>4, <2>1, <2>2
<1>7. n = [x \in DOMAIN m \ {k} |-> n[x]]
  BY <1>4, <1>5, Zenon
<1>8. n = [x \in DOMAIN m \ {k} |-> m[x]]
  BY <1>6, <1>7
<1> QED
  BY <1>1, <1>8, Zenon DEF Loses

LEMMA MapEmpty ==
  ASSUME NEW h
  PROVE  MapAt(h, {}) = <<>>
<1>1. PICK m : m = MapAt(h, {})
  OBVIOUS
<1>2. OwnKeys(h, {})
  BY DEF OwnKeys
<1>3. m = [k \in {h[a].key : a \in {}} |-> m[k]]
  <2>1. Describes(m, h, {})
    BY <1>1, <1>2, MapAtFacts
  <2> QED
    BY <2>1, Zenon DEF Describes
<1>4. {h[a].key : a \in {}} = {}
  OBVIOUS
<1>5. m = [k \in {} |-> m[k]]
  BY <1>3, <1>4, Zenon
<1>6. m = <<>>
  BY <1>5
<1> QED
  BY <1>1, <1>6

\* The map the state stands for
TheMap == MapOf({heap[a] : a \in InTable})

\* What the invariant says of the map
Mapped == InTable = Members /\ OwnKeys(heap, Members)

LEMMA InvMapped == Inv => Mapped
BY StoredFacts, MemberFacts DEF Inv, Mapped, InTable, OwnKeys

LEMMA MapFacts ==
  ASSUME Mapped
  PROVE  TheMap = MapAt(heap, Members)
BY DEF Mapped, TheMap, MapAt

\* A call that leaves the entries of the table and what they hold alone leaves
\* the map alone.
LEMMA MapKept ==
  ASSUME Mapped, Mapped', Members' = Members, \A a \in Members : heap'[a] = heap[a]
  PROVE  TheMap' = TheMap
<1>1. PICK h, g, S : h = heap /\ g = heap' /\ S = Members
  OBVIOUS
<1>2. MapAt(g, S) = MapAt(h, S)
  BY <1>1, MapSame
<1>3. TheMap' = MapAt(g, S)
  BY <1>1 DEF Mapped, TheMap, MapAt
<1> QED
  BY <1>1, <1>2, <1>3, MapFacts

LEMMA NoMap ==
  ASSUME Mapped, Members = {}
  PROVE  TheMap = <<>>
<1>1. PICK h : h = heap
  OBVIOUS
<1>2. MapAt(h, {}) = <<>>
  BY MapEmpty
<1> QED
  BY <1>1, <1>2, MapFacts

LEMMA NoMapNext ==
  ASSUME Mapped', Members' = {}
  PROVE  TheMap' = <<>>
<1>1. PICK h : h = heap'
  OBVIOUS
<1>2. MapAt(h, {}) = <<>>
  BY MapEmpty
<1>3. TheMap' = MapAt(h, {})
  BY <1>1 DEF Mapped, TheMap, MapAt
<1> QED
  BY <1>2, <1>3

LEMMA SetupMaps ==
  ASSUME Inv, Mapped, Mapped', NEW n \in IndexSize, args' = <<n>>, Setup(n)
  PROVE  M!Next
<1>1. Members = {} /\ Members' = {}
  BY SetupKeeps
<1>2. TheMap = <<>> /\ TheMap' = <<>>
  BY <1>1, NoMap, NoMapNext
<1>3. ret' = <<"init", TRUE>> \/ ret' = <<"init", FALSE>>
  BY DEF Setup, Answer
<1>4. M!Setup
  BY <1>2, <1>3 DEF M!Setup, M!Fails, M!Answer, TheMap
<1> QED
  BY <1>4 DEF M!Next

\* What the map says of a key, read off the entries
LEMMA MapLookup ==
  ASSUME Mapped
  PROVE  /\ DOMAIN TheMap = {heap[a].key : a \in Members}
         /\ \A a \in Members : TheMap[heap[a].key] = heap[a].value
<1>1. PICK h, S : h = heap /\ S = Members
  OBVIOUS
<1>2. Describes(MapAt(h, S), h, S)
  BY <1>1, MapAtFacts DEF Mapped
<1>3. Describes(TheMap, heap, Members)
  BY <1>1, <1>2, MapFacts
<1> QED
  BY <1>3, Zenon DEF Describes

\* A new entry
LEMMA MapPutNew ==
  ASSUME Mapped, Mapped', NEW a, NEW e, Members' = Members \cup {a}, heap'[a] = e,
         \A c \in Members : heap'[c] = heap[c],
         \A c \in Members : heap[c].key # e.key
  PROVE  TheMap' = [x \in DOMAIN TheMap \cup {e.key} |->
                      IF x = e.key THEN e.value ELSE TheMap[x]]
<1>1. PICK h, g, S, T, k, v : /\ h = heap /\ g = heap' /\ S = Members /\ T = Members'
                              /\ k = e.key /\ v = e.value
  OBVIOUS
<1>2. /\ T = S \cup {a} /\ OwnKeys(h, S) /\ OwnKeys(g, T) /\ (\A c \in S : g[c] = h[c])
      /\ g[a].key = k /\ g[a].value = v /\ (\A c \in S : h[c].key # k)
  BY <1>1 DEF Mapped
<1>3. Gains(MapAt(g, T), MapAt(h, S), k, v)
  BY <1>2, MapWithNew
<1>4. TheMap' = MapAt(g, T)
  BY <1>1 DEF Mapped, TheMap, MapAt
<1>5. TheMap = MapAt(h, S)
  BY <1>1, MapFacts
<1> QED
  BY <1>1, <1>3, <1>4, <1>5, Zenon DEF Gains

\* Another value in an entry
LEMMA MapPutOld ==
  ASSUME Mapped, Mapped', NEW m \in Members, NEW v, Members' = Members,
         \A c \in Members : c # m => heap'[c] = heap[c],
         heap'[m].key = heap[m].key, heap'[m].value = v
  PROVE  TheMap' = [x \in DOMAIN TheMap \cup {heap[m].key} |->
                      IF x = heap[m].key THEN v ELSE TheMap[x]]
<1>1. PICK h, g, S, k : h = heap /\ g = heap' /\ S = Members /\ k = heap[m].key
  OBVIOUS
<1>2. /\ OwnKeys(h, S) /\ OwnKeys(g, S) /\ (\A c \in S : c # m => g[c] = h[c])
      /\ m \in S /\ h[m].key = k /\ g[m].key = k /\ g[m].value = v
  BY <1>1 DEF Mapped
<1>3. Gains(MapAt(g, S), MapAt(h, S), k, v)
  BY <1>2, MapWithOld
<1>4. TheMap' = MapAt(g, S)
  BY <1>1 DEF Mapped, TheMap, MapAt
<1>5. TheMap = MapAt(h, S)
  BY <1>1, MapFacts
<1> QED
  BY <1>1, <1>3, <1>4, <1>5, Zenon DEF Gains

\* The entries of a key taken out
LEMMA MapTakeOut ==
  ASSUME Mapped, Mapped', NEW k, heap' = heap,
         Members' = Members \ {a \in Members : heap[a].key = k}
  PROVE  TheMap' = [x \in DOMAIN TheMap \ {k} |-> TheMap[x]]
<1>1. PICK h, S, T : h = heap /\ S = Members /\ T = Members'
  OBVIOUS
<1>2. OwnKeys(h, S) /\ \A a : a \in T <=> a \in S /\ h[a].key # k
  BY <1>1 DEF Mapped
<1>3. Loses(MapAt(h, T), MapAt(h, S), k)
  BY <1>2, MapWithout
<1>4. TheMap' = MapAt(h, T)
  BY <1>1 DEF Mapped, TheMap, MapAt
<1>5. TheMap = MapAt(h, S)
  BY <1>1, MapFacts
<1> QED
  BY <1>1, <1>3, <1>4, <1>5, Zenon DEF Loses

LEMMA EntryMaps ==
  ASSUME Inv, Mapped, Mapped', NEW k \in Key, NEW v \in Value, args' = <<k, v>>,
         \/ InitEntry(k, v)
         \/ \E a \in held : DestroyEntry(a)
  PROVE  M!Next
<1>1. Members \subseteq Addr
      /\ \A c \in Members : heap[c] # NULL /\ c \notin held
  BY MemberFacts DEF Inv, Shelved
<1>2. heap \in [Addr -> Entry \cup {NULL}]
  BY DEF Inv, TypesOK
<1>3. Members' = Members
  BY DEF InitEntry, DestroyEntry, table, Members, All
<1>4. CASE InitEntry(k, v)
  <2>1. \A c \in Members : heap'[c] = heap[c]
    BY <1>1, <1>2, <1>4 DEF InitEntry
  <2>2. TheMap' = TheMap
    BY <1>3, <2>1, MapKept
  <2>3. ret' = <<"init_entry", TRUE>> \/ ret' = <<"init_entry", FALSE>>
    BY <1>4 DEF InitEntry, Answer
  <2>4. M!InitEntry
    BY <2>2, <2>3 DEF M!InitEntry, M!Fails, M!Answer, TheMap
  <2> QED
    BY <2>4 DEF M!Next
<1>5. CASE \E a \in held : DestroyEntry(a)
  <2>1. \A c \in Members : heap'[c] = heap[c]
    BY <1>1, <1>2, <1>5 DEF DestroyEntry
  <2>2. TheMap' = TheMap
    BY <1>3, <2>1, MapKept
  <2>3. M!DestroyEntry
    BY <1>5, <2>2 DEF M!DestroyEntry, M!Answer, DestroyEntry, Answer, TheMap
  <2> QED
    BY <2>3 DEF M!Next
<1> QED
  BY <1>4, <1>5

LEMMA PutEntryMaps ==
  ASSUME Inv, Mapped, Mapped', NEW op, NEW a, NEW e, Given(op, a, e),
         PutEntry(op, a, e), fault' = "none"
  PROVE  M!Set(op, e.key, e.value)
<1> DEFINE b == Slot(e.key, index_size)
           same == Matching(Entries(index[b]), e.key)
<1>1. op \in Events /\ events \in SUBSET Events /\ {"no_index", "oom"} \subseteq Events
  BY DEF Given, Events, Inv, TypesOK
<1>2. BucketOf(e.key) = index[b] /\ e.key \in Key
  BY DEF BucketOf, Given, Entry
<1>3. CASE index = NULL /\ heap' = [heap EXCEPT ![a] = e] /\ UNCHANGED <<table, held>>
           /\ Note({op, "no_index"}) /\ Answer(op, FALSE)
  <2>1. Members' = Members /\ \A c \in Members : heap'[c] = heap[c]
    BY <1>1, <1>3, PutNowhere DEF Note, Answer
  <2>2. TheMap' = TheMap
    BY <2>1, MapKept
  <2> QED
    BY <1>3, <2>2 DEF M!Set, M!Fails, M!Answer, Answer, TheMap
<1>4. CASE Crash(op, "bad_size") \/ Crash(op, "no_list") \/ Crash(op, "empty_list")
  BY <1>4 DEF Crash
<1>5. CASE /\ index # NULL /\ Indexable
           /\ \E m \in same :
                heap' = [[heap EXCEPT ![a] = e] EXCEPT ![m].value = e.value,
                                                       ![m].own = e.own, ![a] = NULL]
           /\ held' = held \ {a} /\ UNCHANGED table
           /\ Note({op}) /\ Answer(op, TRUE)
  <2>1. PICK m \in Matching(Entries(BucketOf(e.key)), e.key) :
          heap' = [[heap EXCEPT ![a] = e] EXCEPT ![m].value = e.value,
                                                 ![m].own = e.own, ![a] = NULL]
    BY <1>2, <1>5
  <2>2. Inv' /\ Revalues(m, e.value)
    <3>1. /\ index # NULL /\ Indexable /\ held' = held \ {a} /\ UNCHANGED table
          /\ events' = events \cup {op} /\ fault = "none" /\ fault' = fault
      BY <1>5 DEF Note, Answer
    <3> QED
      BY <2>1, <3>1, PutMerges
  <2>3. heap[m].key = e.key
    BY DEF Matching
  <2>4. PICK v : v = e.value
    OBVIOUS
  <2>5. TheMap' = [x \in DOMAIN TheMap \cup {heap[m].key} |->
                     IF x = heap[m].key THEN v ELSE TheMap[x]]
    BY <2>2, <2>4, MapPutOld DEF Revalues
  <2> QED
    BY <1>5, <2>3, <2>4, <2>5 DEF M!Set, M!With, M!Keys, M!Answer, Answer, TheMap
<1>6. CASE /\ index # NULL /\ Indexable /\ same = {}
           /\ entry_size < MaxEntries /\ entry_size' = entry_size + 1
           /\ heap' = [heap EXCEPT ![a] = e] /\ UNCHANGED <<index_size, hashes>>
           /\ index' = [index EXCEPT ![b] = Append(Entries(@), a)]
           /\ held' = held \ {a} /\ Note({op}) /\ Answer(op, TRUE)
  <2>1. Members' = Members \cup {a} /\ heap'[a] = e
        /\ \A c \in Members : heap'[c] = heap[c]
    BY <1>2, <1>6, PutAppends DEF Note, Answer
  <2>2. Found(e.key) = {}
    BY <1>2, <1>6 DEF Found
  <2>3. \A c \in Members : heap[c].key # e.key
    BY <1>2, <1>6, <2>2, BucketFacts DEF Inv
  <2>4. TheMap' = [x \in DOMAIN TheMap \cup {e.key} |->
                     IF x = e.key THEN e.value ELSE TheMap[x]]
    BY <2>1, <2>3, MapPutNew
  <2> QED
    BY <1>6, <2>4 DEF M!Set, M!With, M!Keys, M!Answer, Answer, TheMap
<1>7. CASE /\ index # NULL /\ Indexable
           /\ entry_size < MaxEntries /\ entry_size' = entry_size + 1
           /\ heap' = [heap EXCEPT ![a] = e] /\ UNCHANGED <<index_size, hashes>>
           /\ index' = [index EXCEPT ![b] = Entries(@)]
           /\ UNCHANGED held /\ Note({op, "oom"}) /\ Answer(op, FALSE)
  <2>1. Members' = Members /\ \A c \in Members : heap'[c] = heap[c]
    BY <1>7, PutFails DEF Note, Answer
  <2>2. TheMap' = TheMap
    BY <2>1, MapKept
  <2> QED
    BY <1>7, <2>2 DEF M!Set, M!Fails, M!Answer, Answer, TheMap
<1> QED
  BY <1>3, <1>4, <1>5, <1>6, <1>7 DEF PutEntry

LEMMA SetEntryMaps ==
  ASSUME Inv, Mapped, Mapped', NEW a \in held, SetEntry(a), fault' = "none",
         args' = <<heap[a].key, heap[a].value>>
  PROVE  M!Next
<1>1. PICK e : e = heap[a]
  OBVIOUS
<1>2. a \in Addr /\ e \in Entry /\ a \notin Members
  BY <1>1 DEF Inv, TypesOK, ClientsOwn, Shelved
<1>3. Given("set_entry", a, e)
  BY <1>1, <1>2 DEF Given
<1>4. PutEntry("set_entry", a, e)
  BY <1>1 DEF SetEntry
<1>5. M!Set("set_entry", e.key, e.value)
  BY <1>3, <1>4, PutEntryMaps
<1>6. e.key \in Key /\ e.value \in Value /\ args' = <<e.key, e.value>>
  BY <1>1, <1>2 DEF Entry
<1>7. \E k \in Key, v \in Value : args' = <<k, v>> /\ M!Set("set_entry", k, v)
  BY <1>5, <1>6, Zenon
<1> QED
  BY <1>7 DEF M!Next

LEMMA SetMaps ==
  ASSUME Inv, Mapped, Mapped', NEW k \in Key, NEW v \in Value, Set(k, v),
         fault' = "none", args' = <<k, v>>
  PROVE  M!Next
<1> SUFFICES M!Set("set", k, v)
  <2>1. ASSUME M!Set("set", k, v) PROVE \E x \in Key, y \in Value : args' = <<x, y>> /\ M!Set("set", x, y)
    BY <2>1, Zenon
  <2> QED
    BY <2>1 DEF M!Next
<1>1. CASE Crash("set", "bad_size")
  BY <1>1 DEF Crash
<1>2. CASE /\ index # NULL => Indexable
           /\ \E m \in Found(k) : heap' = [heap EXCEPT ![m].value = v, ![m].own = FALSE]
           /\ UNCHANGED <<table, held>> /\ Note({"set"}) /\ Answer("set", TRUE)
  <2>1. PICK m \in Found(k) : heap' = [heap EXCEPT ![m].value = v, ![m].own = FALSE]
    BY <1>2
  <2>2. Revalues(m, v)
    BY <1>2, <2>1, SetReplaces DEF Note, Answer
  <2>3. heap[m].key = k
    BY DEF Found, Matching
  <2>4. TheMap' = [x \in DOMAIN TheMap \cup {heap[m].key} |->
                     IF x = heap[m].key THEN v ELSE TheMap[x]]
    BY <2>2, MapPutOld DEF Revalues
  <2> QED
    BY <1>2, <2>3, <2>4 DEF M!Set, M!With, M!Keys, M!Answer, Answer, TheMap
<1>3. CASE UNCHANGED <<table, heap, held>> /\ Note({"set"}) /\ Answer("set", FALSE)
  <2>1. Members' = Members /\ \A c \in Members : heap'[c] = heap[c]
    BY <1>3 DEF Members, All, table
  <2>2. TheMap' = TheMap
    BY <2>1, MapKept
  <2> QED
    BY <1>3, <2>2 DEF M!Set, M!Fails, M!Answer, Answer, TheMap
<1>4. ASSUME Found(k) = {}, NEW a \in Addr, heap[a] = NULL,
             PutEntry("set", a, [key |-> k, value |-> v, own |-> FALSE, must_destroy |-> FALSE])
      PROVE  M!Set("set", k, v)
  <2>1. PICK e : e = [key |-> k, value |-> v, own |-> FALSE, must_destroy |-> FALSE]
    OBVIOUS
  <2>2. e \in Entry /\ e.key = k /\ e.value = v /\ ~e.own /\ ~e.must_destroy
    BY <2>1 DEF Entry
  <2>3. a \notin Members
    BY <1>4, MemberFacts DEF Inv
  <2>4. Given("set", a, e)
    BY <1>4, <2>2, <2>3 DEF Given
  <2>5. PutEntry("set", a, e)
    BY <1>4, <2>1
  <2>6. M!Set("set", e.key, e.value)
    BY <2>4, <2>5, PutEntryMaps
  <2> QED
    BY <2>2, <2>6
<1> QED
  BY <1>1, <1>2, <1>3, <1>4 DEF Set

LEMMA ReadMaps ==
  ASSUME Mapped, Mapped', UNCHANGED <<table, heap>>
  PROVE  TheMap' = TheMap
<1>1. Members' = Members /\ \A c \in Members : heap'[c] = heap[c]
  BY DEF Members, All, table
<1> QED
  BY <1>1, MapKept

\* The entry a key leads to is the one the map knows it by.
LEMMA FoundMaps ==
  ASSUME Inv, Mapped, NEW k \in Key, index # NULL => Indexable
  PROVE  /\ k \in DOMAIN TheMap <=> Found(k) # {}
         /\ \A a \in Found(k) : TheMap[k] = heap[a].value
<1>1. Found(k) = {a \in Members : heap[a].key = k}
  <2>1. CASE index = NULL
    BY <2>1 DEF Found, Members
  <2>2. CASE index # NULL
    BY <2>2, BucketFacts DEF Inv
  <2> QED
    BY <2>1, <2>2
<1>2. /\ DOMAIN TheMap = {heap[a].key : a \in Members}
      /\ \A a \in Members : TheMap[heap[a].key] = heap[a].value
  BY MapLookup
<1> QED
  BY <1>1, <1>2

LEMMA GetMaps ==
  ASSUME Inv, Mapped, Mapped', NEW k \in Key, Get(k), fault' = "none", args' = <<k>>
  PROVE  M!Next
<1> SUFFICES M!Get(k)
  <2>1. ASSUME M!Get(k) PROVE \E x \in Key : args' = <<x>> /\ M!Get(x)
    BY <2>1, Zenon
  <2> QED
    BY <2>1 DEF M!Next
<1>1. CASE Crash("get", "bad_size")
  BY <1>1 DEF Crash
<1>2. CASE /\ index # NULL => Indexable
           /\ UNCHANGED <<table, heap, held>>
           /\ \/ Found(k) = {} /\ Answer("get", NULL)
              \/ \E a \in Found(k) : Answer("get", heap[a].value)
  <2>1. TheMap' = TheMap
    BY <1>2, ReadMaps
  <2>2. /\ k \in DOMAIN TheMap <=> Found(k) # {}
        /\ \A a \in Found(k) : TheMap[k] = heap[a].value
    BY <1>2, FoundMaps
  <2>3. ret' = <<"get", IF k \in DOMAIN TheMap THEN TheMap[k] ELSE NULL>>
    <3>1. CASE Found(k) = {} /\ Answer("get", NULL)
      BY <2>2, <3>1 DEF Answer
    <3>2. CASE \E a \in Found(k) : Answer("get", heap[a].value)
      BY <2>2, <3>2 DEF Answer
    <3> QED
      BY <1>2, <3>1, <3>2
  <2> QED
    BY <2>1, <2>3 DEF M!Get, M!Keys, M!Answer, TheMap
<1> QED
  BY <1>1, <1>2 DEF Get

LEMMA DelMaps ==
  ASSUME Inv, Mapped, Mapped', NEW k \in Key, Del(k), fault' = "none", args' = <<k>>
  PROVE  M!Next
<1> SUFFICES M!Del(k)
  <2>1. ASSUME M!Del(k) PROVE \E x \in Key : args' = <<x>> /\ M!Del(x)
    BY <2>1, Zenon
  <2> QED
    BY <2>1 DEF M!Next
<1> DEFINE b == Slot(k, index_size)
<1>1. CASE index = NULL /\ UNCHANGED <<table, heap, held, events>> /\ Answer("del", FALSE)
  <2>1. TheMap' = TheMap
    BY <1>1, ReadMaps
  <2>2. k \notin DOMAIN TheMap
    BY <1>1, FoundMaps DEF Found
  <2> QED
    BY <1>1, <2>1, <2>2 DEF M!Del, M!Fails, M!Keys, M!Answer, Answer, TheMap
<1>2. CASE Crash("del", "bad_size") \/ Crash("del", "freed_node")
  BY <1>2 DEF Crash
<1>3. ASSUME index # NULL, Indexable,
             index' = IF Entries(index[b]) = <<>> THEN index
                      ELSE [index EXCEPT ![b] = Only(@, ToSet(@) \ Found(k))],
             entry_size' = IF Entries(index[b]) = <<>> THEN entry_size
                           ELSE Uncounted(Found(k)),
             Note(IF Found(k) # {} THEN {"del"} ELSE {}),
             UNCHANGED <<index_size, hashes, heap, held>>, Answer("del", Found(k) # {})
      PROVE  M!Del(k)
  <2>1. BucketOf(k) = index[b]
    BY DEF BucketOf
  <2>2. Members' = Members \ Found(k)
    BY <1>3, <2>1, DelRemoves DEF Answer
  <2>3. Found(k) = {a \in Members : heap[a].key = k}
    BY <1>3, BucketFacts DEF Inv
  <2>4. TheMap' = [x \in DOMAIN TheMap \ {k} |-> TheMap[x]]
    BY <1>3, <2>2, <2>3, MapTakeOut
  <2>5. k \in DOMAIN TheMap <=> Found(k) # {}
    BY <1>3, FoundMaps
  <2>6. CASE Found(k) # {}
    <3>1. ret' = <<"del", TRUE>>
      BY <1>3, <2>6 DEF Answer
    <3> QED
      BY <2>4, <2>5, <2>6, <3>1 DEF M!Del, M!Without, M!Keys, M!Answer, TheMap
  <2>7. CASE Found(k) = {}
    <3>1. ret' = <<"del", FALSE>>
      BY <1>3, <2>7 DEF Answer
    <3>2. TheMap' = TheMap
      BY <1>3, <2>2, <2>7, MapKept
    <3> QED
      BY <2>5, <2>7, <3>1, <3>2 DEF M!Del, M!Fails, M!Keys, M!Answer, TheMap
  <2> QED
    BY <2>6, <2>7
<1> QED
  BY <1>1, <1>2, <1>3 DEF Del

\* The entries in iter's order give every key of the map once.
LEMMA KeyOrder ==
  ASSUME Inv, Mapped, NEW s, s = Stored,
         NEW order, order = [i \in DOMAIN s |-> heap[s[i]].key]
  PROVE  /\ Cardinality(DOMAIN TheMap) = Len(s)
         /\ order \in SetToSeqs(DOMAIN TheMap)
         /\ \A i \in DOMAIN s : TheMap[order[i]] = heap[s[i]].value
<1>1. s \in Seq(Addr) /\ ToSet(s) = Members /\ IsInjective(s)
  BY StoredFacts DEF Inv
<1>2. \A a, c \in Members : heap[a].key = heap[c].key => a = c
  BY MemberFacts DEF Inv
<1>3. /\ DOMAIN TheMap = {heap[a].key : a \in Members}
      /\ \A a \in Members : TheMap[heap[a].key] = heap[a].value
  BY MapLookup
<1>4. Len(s) \in Nat /\ DOMAIN s = 1 .. Len(s) /\ \A i \in DOMAIN s : s[i] \in Members
  BY <1>1, LenProperties DEF ToSet
<1>5. PICK K : K = DOMAIN TheMap
  OBVIOUS
<1>6. \A i \in DOMAIN s : order[i] \in K
  BY <1>3, <1>4, <1>5
<1>7. order \in Seq(K) /\ Len(order) = Len(s) /\ DOMAIN order = DOMAIN s
  BY <1>4, <1>6
<1>8. ToSet(order) = K
  <2>1. ASSUME NEW k \in K PROVE \E i \in DOMAIN order : k = order[i]
    <3>1. PICK a \in Members : k = heap[a].key
      BY <1>3, <1>5
    <3>2. PICK i \in DOMAIN s : a = s[i]
      BY <1>1 DEF ToSet
    <3> QED
      BY <1>7, <3>1, <3>2
  <2> QED
    BY <1>6, <1>7, <2>1 DEF ToSet
<1>9. \A i, j \in DOMAIN order : order[i] = order[j] => i = j
  BY <1>1, <1>2, <1>4, <1>7 DEF IsInjective
<1>10. Cardinality(K) = Len(s)
  BY <1>7, <1>8, <1>9, InjectiveCount DEF IsInjective
<1>11. order \in SetToSeqs(K)
  <2>1. order \in [1 .. Cardinality(K) -> K]
    BY <1>4, <1>6, <1>7, <1>10
  <2>2. \A i, j \in 1 .. Cardinality(K) : i # j => order[i] # order[j]
    BY <1>4, <1>7, <1>9, <1>10
  <2> QED
    BY <2>1, <2>2, Zenon DEF SetToSeqs
<1> QED
  BY <1>3, <1>4, <1>5, <1>10, <1>11

\* MapSpec's instances of the library operators are the library's.
LEMMA SameOperators ==
  ASSUME NEW S
  PROVE  M!Cardinality(S) = Cardinality(S) /\ M!SetToSeqs(S) = SetToSeqs(S)
<1>1. M!Cardinality(S) = Cardinality(S)
  BY Zenon DEF M!Cardinality, Cardinality
<1>2. M!SetToSeqs(S) = SetToSeqs(S)
  BY <1>1, Zenon DEF M!SetToSeqs, SetToSeqs
<1> QED
  BY <1>1, <1>2

LEMMA SizeMaps ==
  ASSUME Inv, Mapped, Mapped', Size, ~Exempt, args' = <<>>
  PROVE  M!Next
<1>1. PICK s, order : s = Stored /\ order = [i \in DOMAIN s |-> heap[s[i]].key]
  OBVIOUS
<1>2. Cardinality(DOMAIN TheMap) = Len(s) /\ Len(s) = Cardinality(Members)
  BY <1>1, KeyOrder, StoredFacts DEF Inv
<1>3. ret' = <<"size", entry_size>>
  BY DEF Size, Answer
<1>4. Cardinality(Members) = entry_size
  BY <1>3 DEF Exempt, Inv, Sized
<1>5. TheMap' = TheMap
  BY ReadMaps DEF Size
<1>6. M!Size
  BY <1>2, <1>3, <1>4, <1>5, SameOperators DEF M!Size, M!Keys, M!Answer, TheMap
<1> QED
  BY <1>6 DEF M!Next

\* keys and values meet all entries of the table.
LEMMA VisitedFacts ==
  ASSUME Inv
  PROVE  Visited = Stored
<1>1. /\ ToSet(Stored) = Members /\ IsFiniteSet(Members) /\ Stored \in Seq(Addr)
      /\ Len(Stored) = Cardinality(Members)
  BY StoredFacts DEF Inv
<1>2. CASE entry_size = 0
  <2>1. Cardinality(Members) =< 0
    BY <1>2 DEF Inv, Sized
  <2>2. Len(Stored) \in Nat
    BY <1>1, LenProperties
  <2>3. Len(Stored) = 0
    BY <1>1, <2>1, <2>2
  <2>4. Stored = <<>>
    BY <1>1, <2>3, EmptySeq
  <2> QED
    BY <1>2, <2>4 DEF Visited
<1>3. CASE entry_size # 0
  BY <1>3 DEF Visited
<1> QED
  BY <1>2, <1>3

LEMMA KeysMap ==
  ASSUME Inv, Mapped, Mapped', Keys, args' = <<>>
  PROVE  M!Next
<1>1. TheMap' = TheMap
  BY ReadMaps DEF Keys, Collect
<1>2. CASE index = NULL /\ Answer("keys", NULL)
  <2>1. TheMap = <<>>
    BY <1>2, NoMap DEF Members
  <2>2. M!Unset
    BY <1>1, <1>2, <2>1 DEF M!Unset, M!Answer, Answer, TheMap
  <2> QED
    BY <2>2 DEF M!Next
<1>3. CASE Answer("keys", [i \in DOMAIN Visited |-> heap[Visited[i]]["key"]])
  <2>1. PICK s, order : s = Stored /\ order = [i \in DOMAIN s |-> heap[s[i]].key]
    OBVIOUS
  <2>2. order \in SetToSeqs(DOMAIN TheMap)
    BY <2>1, KeyOrder
  <2>3. order = [i \in DOMAIN s |-> heap[s[i]]["key"]]
    BY <2>1
  <2>4. ret' = <<"keys", order>>
    BY <1>3, <2>1, <2>3, VisitedFacts DEF Answer
  <2>5. M!KeysOrValues
    BY <1>1, <2>2, <2>4, SameOperators DEF M!KeysOrValues, M!Keys, M!Answer, TheMap
  <2> QED
    BY <2>5 DEF M!Next
<1> QED
  BY <1>2, <1>3 DEF Keys, Collect

LEMMA ValuesMap ==
  ASSUME Inv, Mapped, Mapped', Values, args' = <<>>
  PROVE  M!Next
<1>1. TheMap' = TheMap
  BY ReadMaps DEF Values, Collect
<1>2. CASE index = NULL /\ Answer("values", NULL)
  <2>1. TheMap = <<>>
    BY <1>2, NoMap DEF Members
  <2>2. M!Unset
    BY <1>1, <1>2, <2>1 DEF M!Unset, M!Answer, Answer, TheMap
  <2> QED
    BY <2>2 DEF M!Next
<1>3. CASE Answer("values", [i \in DOMAIN Visited |-> heap[Visited[i]]["value"]])
  <2>1. PICK s, order : s = Stored /\ order = [i \in DOMAIN s |-> heap[s[i]].key]
    OBVIOUS
  <2>2. /\ order \in SetToSeqs(DOMAIN TheMap)
        /\ \A i \in DOMAIN s : TheMap[order[i]] = heap[s[i]].value
    BY <2>1, KeyOrder
  <2>3. [i \in DOMAIN order |-> TheMap[order[i]]] = [i \in DOMAIN s |-> heap[s[i]]["value"]]
    BY <2>1, <2>2
  <2>4. ret' = <<"values", [i \in DOMAIN order |-> TheMap[order[i]]]>>
    BY <1>3, <2>1, <2>3, VisitedFacts DEF Answer
  <2>5. M!KeysOrValues
    BY <1>1, <2>2, <2>4, SameOperators DEF M!KeysOrValues, M!Keys, M!Answer, TheMap
  <2> QED
    BY <2>5 DEF M!Next
<1> QED
  BY <1>2, <1>3 DEF Values, Collect

LEMMA DestroyMaps ==
  ASSUME Inv, Mapped, Mapped', Destroy, fault' = "none", args' = <<>>
  PROVE  M!Next
<1>1. CASE index = NULL /\ UNCHANGED <<table, heap, held>> /\ Answer("destroy", FALSE)
  <2>1. TheMap' = TheMap
    BY <1>1, ReadMaps
  <2>2. TheMap = <<>>
    BY <1>1, NoMap DEF Members
  <2>3. M!Unset
    BY <1>1, <2>1, <2>2 DEF M!Unset, M!Answer, Answer, TheMap
  <2> QED
    BY <2>3 DEF M!Next
<1>2. CASE Crash("destroy", "bad_free")
  BY <1>2 DEF Crash
<1>3. CASE index' = NULL /\ Answer("destroy", TRUE)
  <2>1. TheMap' = <<>>
    BY <1>3, NoMapNext DEF Members
  <2>2. M!Destroy
    BY <1>3, <2>1 DEF M!Destroy, M!Answer, Answer, TheMap
  <2> QED
    BY <2>2 DEF M!Next
<1> QED
  BY <1>1, <1>2, <1>3 DEF Destroy

LEMMA RehashMaps ==
  ASSUME Inv, Mapped, Mapped', NEW n \in IndexSize, Rehash(n), fault' = "none", ~Exempt,
         args' = <<n>>
  PROVE  M!Next
<1>1. PICK old, moves : old = Stored /\ moves = IF old = <<>> THEN {} ELSE {"rehash"}
  OBVIOUS
<1>2. old \in Seq(Addr)
  BY <1>1, StoredFacts DEF Inv
<1>3. CASE Answer("rehash", FALSE)
  BY <1>3 DEF Answer, Exempt
<1>4. ASSUME NEW why \in {"no_index", "bad_size", "no_list"}, Crash("rehash", why)
      PROVE  M!Next
  BY <1>4 DEF Crash
<1>5. CASE /\ old # <<>> => n >= 2
           /\ entry_size + Len(old) =< MaxEntries
           /\ index_size' = n /\ UNCHANGED <<hashes, heap, held>>
           /\ index' = IF old = <<>> THEN EmptyIndex(n) ELSE Placed(old, n)
           /\ entry_size' = entry_size + Len(old)
           /\ Note(moves) /\ Answer("rehash", TRUE)
  <2>1. Members' = Members /\ heap' = heap
    BY <1>1, <1>2, <1>5, RehashDone DEF Note, Answer
  <2>2. TheMap' = TheMap
    BY <2>1, MapKept
  <2>3. M!Rehash
    BY <1>5, <2>2 DEF M!Rehash, M!Answer, Answer, TheMap
  <2> QED
    BY <2>3 DEF M!Next
<1> QED
  BY <1>1, <1>3, <1>4, <1>5 DEF Rehash

\* A call that returns does to the map what MapSpec says.
LEMMA NextMaps ==
  ASSUME Inv, Mapped, Mapped', Next, fault' = "none", ~Exempt
  PROVE  M!Next
<1>1. ASSUME NEW n \in IndexSize, args' = <<n>>, Setup(n) \/ Rehash(n) PROVE M!Next
  BY <1>1, SetupMaps, RehashMaps
<1>2. ASSUME NEW k \in Key, NEW v \in Value, args' = <<k, v>>, Set(k, v) \/ InitEntry(k, v)
      PROVE M!Next
  BY <1>2, SetMaps, EntryMaps
<1>3. ASSUME NEW a \in held, args' = <<heap[a].key, heap[a].value>>,
             SetEntry(a) \/ DestroyEntry(a)
      PROVE M!Next
  <2>1. CASE SetEntry(a)
    BY <1>3, <2>1, SetEntryMaps
  <2>2. CASE DestroyEntry(a)
    <3>1. heap[a] \in Entry
      BY DEF Inv, TypesOK, ClientsOwn
    <3>2. PICK k \in Key, v \in Value : args' = <<k, v>>
      BY <1>3, <3>1 DEF Entry
    <3> QED
      BY <2>2, <3>2, EntryMaps
  <2> QED
    BY <1>3, <2>1, <2>2
<1>4. ASSUME NEW k \in Key, args' = <<k>>, Get(k) \/ Del(k) PROVE M!Next
  BY <1>4, GetMaps, DelMaps
<1>5. ASSUME args' = <<>>, Size \/ Keys \/ Values \/ Destroy PROVE M!Next
  BY <1>5, SizeMaps, KeysMap, ValuesMap, DestroyMaps
<1> QED
  BY <1>1, <1>2, <1>3, <1>4, <1>5 DEF Next

LEMMA InitMaps == Init => M!Init
<1> SUFFICES ASSUME Init PROVE M!Init
  OBVIOUS
<1>1. Inv
  BY InitInv
<1>2. TheMap = <<>>
  BY <1>1, InvMapped, NoMap DEF Init, Members
<1> QED
  BY <1>2 DEF Init, M!Init, TheMap

\* HashTable implements MapSpec: every call that returns does to the map its
\* entries stand for what MapSpec says, and answers from it, except a rehash
\* that fails and hash_table_size once entry_size is off.
THEOREM ImplementsMap == Spec => ImplementsMapSpec
<1>1. Inv /\ Mapped /\ Mapped' /\ [Next]_vars
        => [fault' = "none" /\ ~Exempt => M!Next]_vars
  BY NextMaps
<1> QED
  BY <1>1, InitMaps, Invariance, InvMapped, PTL DEF Spec, ImplementsMapSpec
-----------------------------------------------------------------------------
(* Iterations *)

\* How a bucket may change under an iteration, h being the heap and hld what the
\* client holds: entries are new in it only if they come from the client, or
\* from malloc, and those that stay keep their order.
Tended(s, t, h, hld) ==
  /\ \A a \in ToSet(t) : a \in ToSet(s) \/ h[a] = NULL \/ a \in hld
  /\ \A a, c \in ToSet(t) : Ordered(s, a, c) => Ordered(t, a, c)

Tends(idx, jdx, n, h, hld) ==
  \A b \in 0 .. n - 1 : Tended(Entries(idx[b]), Entries(jdx[b]), h, hld)

\* An entry that neither malloc nor the client's hands can give again
Apart(a, h, hld) == h[a] # NULL /\ a \notin hld
KeepsApart == \A a \in Addr : Apart(a, heap, held) => Apart(a, heap, held)'

\* A call that an iteration of the table's own index goes on after.
Tending ==
  /\ index_size' = index_size
  /\ Tends(index, index', index_size, heap, held)

LEMMA TendedSame ==
  ASSUME NEW s, NEW h, NEW hld
  PROVE  Tended(s, s, h, hld)
BY DEF Tended

LEMMA TendedAppend ==
  ASSUME NEW s \in Seq(Addr), NEW a \in Addr, NEW h, NEW hld, a \notin ToSet(s),
         h[a] = NULL \/ a \in hld
  PROVE  Tended(s, Append(s, a), h, hld)
<1>1. PICK t : t = Append(s, a)
  OBVIOUS
<1>2. ToSet(t) = ToSet(s) \cup {a}
  BY <1>1, AppendFacts
<1>3. \A x, y : Ordered(s, x, y) => Ordered(t, x, y)
  BY <1>1, AppendOrder
<1> QED
  BY <1>1, <1>2, <1>3 DEF Tended

LEMMA TendedOnly ==
  ASSUME NEW s \in Seq(Addr), NEW those, NEW h, NEW hld
  PROVE  Tended(s, Only(s, those), h, hld)
<1>1. PICK t : t = Only(s, those)
  OBVIOUS
<1>2. ToSet(t) = ToSet(s) \cap those
  BY <1>1, OnlyFacts
<1>3. \A x, y \in those : Ordered(s, x, y) => Ordered(t, x, y)
  BY <1>1, OnlyOrder
<1> QED
  BY <1>1, <1>2, <1>3 DEF Tended

LEMMA TendsUpdate ==
  ASSUME NEW n \in Nat, NEW idx \in [0 .. n - 1 -> {NULL} \cup Seq(Addr)],
         NEW b \in 0 .. n - 1, NEW list \in Seq(Addr), NEW h, NEW hld, NEW jdx,
         jdx = [idx EXCEPT ![b] = list], Tended(Entries(idx[b]), list, h, hld)
  PROVE  Tends(idx, jdx, n, h, hld)
<1>1. Entries(list) = list
  BY PointerAssumption DEF Entries
<1>2. ASSUME NEW d \in 0 .. n - 1 PROVE Tended(Entries(idx[d]), Entries(jdx[d]), h, hld)
  <2>1. CASE d = b
    BY <1>1, <2>1
  <2>2. CASE d # b
    <3>1. jdx[d] = idx[d]
      BY <2>2
    <3> QED
      BY <3>1, TendedSame
  <2> QED
    BY <2>1, <2>2
<1> QED
  BY <1>2 DEF Tends

LEMMA TendingSame ==
  ASSUME UNCHANGED table
  PROVE  Tending
<1>1. index' = index /\ index_size' = index_size
  BY DEF table
<1> QED
  BY <1>1, TendedSame DEF Tending, Tends

LEMMA PutEntryTends ==
  ASSUME Inv, Inv', NEW op, NEW a, NEW e, Given(op, a, e), PutEntry(op, a, e), index # NULL,
         heap[a] = NULL \/ a \in held
  PROVE  KeepsApart /\ Tending
<1> DEFINE b == Slot(e.key, index_size)
           same == Matching(Entries(index[b]), e.key)
<1>1. /\ heap \in [Addr -> Entry \cup {NULL}] /\ a \in Addr /\ e.key \in Key
      /\ index_size \in IndexSize
      /\ index \in [0 .. index_size - 1 -> {NULL} \cup Seq(Addr)]
      /\ index_size \in Nat /\ held \in SUBSET Addr /\ a \notin Members
  BY DEF Inv, TypesOK, Shelved, Sound, Given, Entry
<1>2. CASE UNCHANGED <<table, heap, held>>
  BY <1>2, TendingSame DEF KeepsApart, Apart
<1>3. ASSUME Indexable PROVE b \in 0 .. index_size - 1 /\ BucketOf(e.key) = index[b]
  BY <1>1, <1>3, SlotFacts DEF Indexable, BucketOf
<1>4. CASE /\ index # NULL /\ Indexable
           /\ \E m \in same :
                heap' = [[heap EXCEPT ![a] = e] EXCEPT ![m].value = e.value,
                                                       ![m].own = e.own, ![a] = NULL]
           /\ held' = held \ {a} /\ UNCHANGED table
  <2>1. PICK m \in same :
          heap' = [[heap EXCEPT ![a] = e] EXCEPT ![m].value = e.value,
                                                 ![m].own = e.own, ![a] = NULL]
    BY <1>4
  <2>2. m \in Members
    <3>1. m \in ToSet(Entries(index[b]))
      BY <2>1 DEF Matching
    <3>2. b \in 0 .. index_size - 1
      BY <1>3, <1>4
    <3> QED
      BY <3>1, <3>2 DEF Members, All
  <2>3. Members' = Members
    BY <1>4 DEF table, Members, All
  <2>4. heap'[m] # NULL
    <3>1. PICK g : g = heap'
      OBVIOUS
    <3>2. index' = index /\ index_size' = index_size
      BY <1>4 DEF table
    <3>3. Sound(index, index_size, g)
      BY <1>4, <3>1, <3>2 DEF Inv, Shelved
    <3>4. m \in All(index, index_size)
      BY <1>4, <2>2 DEF Members
    <3> QED
      BY <1>1, <3>1, <3>3, <3>4, AllFacts
  <2>5. \A x \in Addr : x # m /\ x # a => heap'[x] = heap[x]
    BY <1>1, <2>1
  <2> QED
    BY <1>4, <2>4, <2>5, TendingSame DEF KeepsApart, Apart
<1>5. ASSUME heap' = [heap EXCEPT ![a] = e], held' \subseteq held PROVE KeepsApart
  <2>1. \A x \in Addr : x # a => heap'[x] = heap[x]
    BY <1>1, <1>5
  <2> QED
    BY <1>5, <2>1 DEF KeepsApart, Apart
<1>6. ASSUME Indexable, UNCHANGED <<index_size, hashes>>,
             index' = [index EXCEPT ![b] = Append(Entries(@), a)]
      PROVE  Tending
  <2>1. b \in 0 .. index_size - 1
    BY <1>3, <1>6
  <2>2. PICK s : s = Entries(index[b])
    OBVIOUS
  <2>3. s \in Seq(Addr) /\ a \notin ToSet(s)
    <3>1. index[b] \in {NULL} \cup Seq(Addr)
      BY <1>1, <2>1
    <3>2. ToSet(s) \subseteq Members
      BY <2>1, <2>2, <1>6 DEF Members, All
    <3> QED
      BY <1>1, <2>2, <3>1, <3>2, EntriesFacts
  <2>4. PICK t : t = Append(s, a)
    OBVIOUS
  <2>5. t \in Seq(Addr) /\ Tended(s, t, heap, held)
    BY <1>1, <2>3, <2>4, TendedAppend, AppendFacts
  <2>6. PICK jdx : jdx = index' /\ jdx = [index EXCEPT ![b] = t]
    BY <1>6, <2>2, <2>4
  <2>7. Tends(index, jdx, index_size, heap, held)
    BY <1>1, <2>1, <2>2, <2>5, <2>6, TendsUpdate
  <2> QED
    BY <1>6, <2>6, <2>7 DEF Tending
<1>7. ASSUME Indexable, UNCHANGED <<index_size, hashes>>,
             index' = [index EXCEPT ![b] = Entries(@)]
      PROVE  Tending
  <2>1. b \in 0 .. index_size - 1
    BY <1>3, <1>7
  <2>2. PICK s : s = Entries(index[b])
    OBVIOUS
  <2>3. s \in Seq(Addr) /\ Tended(s, s, heap, held)
    <3>1. index[b] \in {NULL} \cup Seq(Addr)
      BY <1>1, <2>1
    <3> QED
      BY <2>2, <3>1, EntriesFacts, TendedSame
  <2>4. PICK jdx : jdx = index' /\ jdx = [index EXCEPT ![b] = s]
    BY <1>7, <2>2
  <2>5. Tends(index, jdx, index_size, heap, held)
    BY <1>1, <2>1, <2>2, <2>3, <2>4, TendsUpdate
  <2> QED
    BY <1>7, <2>4, <2>5 DEF Tending
<1> QED
  BY <1>2, <1>4, <1>5, <1>6, <1>7 DEF PutEntry, Crash

LEMMA SetTends ==
  ASSUME Inv, Inv', NEW k \in Key, NEW v \in Value, Set(k, v), index # NULL
  PROVE  KeepsApart /\ Tending
<1>1. CASE UNCHANGED <<table, heap, held>>
  BY <1>1, TendingSame DEF KeepsApart, Apart
<1>2. CASE /\ Indexable /\ UNCHANGED <<table, held>>
           /\ \E m \in Found(k) : heap' = [heap EXCEPT ![m].value = v, ![m].own = FALSE]
  <2>1. PICK m \in Found(k) : heap' = [heap EXCEPT ![m].value = v, ![m].own = FALSE]
    BY <1>2
  <2>2. m \in Members
    BY <1>2, <2>1, BucketFacts DEF Inv
  <2>3. heap'[m] # NULL
    <3>1. PICK g : g = heap'
      OBVIOUS
    <3>2. index' = index /\ index_size' = index_size
      BY <1>2 DEF table
    <3>3. index_size \in Nat /\ Sound(index, index_size, g)
      BY <3>1, <3>2 DEF Inv, Shelved
    <3>4. m \in All(index, index_size)
      BY <2>2 DEF Members
    <3> QED
      BY <3>1, <3>3, <3>4, AllFacts
  <2>4. \A x \in Addr : x # m => heap'[x] = heap[x]
    BY <2>1 DEF Inv, TypesOK
  <2> QED
    BY <1>2, <2>3, <2>4, TendingSame DEF KeepsApart, Apart
<1>3. ASSUME Found(k) = {}, NEW a \in Addr, heap[a] = NULL,
             PutEntry("set", a, [key |-> k, value |-> v, own |-> FALSE, must_destroy |-> FALSE])
      PROVE  KeepsApart /\ Tending
  <2>1. PICK e : e = [key |-> k, value |-> v, own |-> FALSE, must_destroy |-> FALSE]
    OBVIOUS
  <2>2. e \in Entry /\ e.key = k /\ ~e.own /\ ~e.must_destroy
    BY <2>1 DEF Entry
  <2>3. a \notin Members
    BY <1>3, MemberFacts DEF Inv
  <2>4. Given("set", a, e)
    BY <1>3, <2>2, <2>3 DEF Given
  <2>5. PutEntry("set", a, e)
    BY <1>3, <2>1
  <2> QED
    BY <1>3, <2>4, <2>5, PutEntryTends
<1> QED
  BY <1>1, <1>2, <1>3 DEF Set, Crash

LEMMA SetEntryTends ==
  ASSUME Inv, Inv', NEW a \in held, SetEntry(a), index # NULL
  PROVE  KeepsApart /\ Tending
<1>1. PICK e : e = heap[a]
  OBVIOUS
<1>2. a \in Addr /\ e \in Entry /\ a \notin Members
  BY <1>1 DEF Inv, TypesOK, ClientsOwn, Shelved
<1>3. Given("set_entry", a, e)
  BY <1>1, <1>2 DEF Given
<1>4. PutEntry("set_entry", a, e)
  BY <1>1 DEF SetEntry
<1> QED
  BY <1>3, <1>4, PutEntryTends

LEMMA DelTends ==
  ASSUME Inv, NEW k \in Key, Del(k), index # NULL
  PROVE  KeepsApart /\ Tending
<1> DEFINE b == Slot(k, index_size)
<1>1. CASE UNCHANGED <<table, heap, held>>
  BY <1>1, TendingSame DEF KeepsApart, Apart
<1>2. CASE /\ Indexable /\ UNCHANGED <<index_size, hashes, heap, held>>
           /\ index' = IF Entries(index[b]) = <<>> THEN index
                       ELSE [index EXCEPT ![b] = Only(@, ToSet(@) \ Found(k))]
  <2>1. /\ index_size \in Nat /\ index_size \in IndexSize
        /\ index \in [0 .. index_size - 1 -> {NULL} \cup Seq(Addr)]
        /\ b \in 0 .. index_size - 1
    BY <1>2, SlotFacts DEF Inv, Shelved, Sound, Indexable
  <2>2. Tending
    <3>1. CASE Entries(index[b]) = <<>>
      <4>1. index' = index
        BY <1>2, <3>1
      <4> QED
        BY <1>2, <4>1, TendedSame DEF Tending, Tends
    <3>2. CASE Entries(index[b]) # <<>>
      <4>1. PICK s : s = index[b]
        OBVIOUS
      <4>2. s \in Seq(Addr) /\ Entries(s) = s
        BY <2>1, <3>2, <4>1 DEF Entries
      <4>3. PICK those : those = ToSet(s) \ Found(k)
        OBVIOUS
      <4>4. PICK t : t = Only(s, those)
        OBVIOUS
      <4>5. t \in Seq(Addr) /\ Tended(Entries(index[b]), t, heap, held)
        BY <4>1, <4>2, <4>4, TendedOnly, OnlyFacts
      <4>6. PICK jdx : jdx = index' /\ jdx = [index EXCEPT ![b] = t]
        BY <1>2, <3>2, <4>1, <4>3, <4>4
      <4>7. Tends(index, jdx, index_size, heap, held)
        BY <2>1, <4>5, <4>6, TendsUpdate
      <4> QED
        BY <1>2, <4>6, <4>7 DEF Tending
    <3> QED
      BY <3>1, <3>2
  <2> QED
    BY <1>2, <2>2 DEF KeepsApart, Apart
<1> QED
  BY <1>1, <1>2 DEF Del, Crash

\* The calls that replace the index
Replaces(op) == op \in {"init", "rehash", "destroy"}

\* While the table has an index, no call frees an entry that the client does not
\* hold, and only those that replace the index do more to a bucket than add
\* entries from outside and take entries out.
LEMMA NextTends ==
  ASSUME Inv, Inv', Next, index # NULL, index' # NULL
  PROVE  KeepsApart /\ (Replaces(ret'[1]) \/ Tending)
<1>1. ASSUME UNCHANGED <<table, heap, held>> PROVE KeepsApart /\ Tending
  BY <1>1, TendingSame DEF KeepsApart, Apart
<1>2. ASSUME NEW n \in IndexSize, Rehash(n) PROVE KeepsApart /\ Replaces(ret'[1])
  <2>1. UNCHANGED <<heap, held>>
    BY <1>2 DEF Rehash, Crash
  <2>2. PICK r : ret' = <<"rehash", r>>
    BY <1>2, Zenon DEF Rehash, Crash, Answer
  <2>3. ret'[1] = "rehash"
    BY <2>2
  <2> QED
    BY <2>1, <2>3 DEF KeepsApart, Apart, Replaces
<1>3. ASSUME NEW n, Setup(n) PROVE FALSE
  BY <1>3 DEF Setup
<1>4. ASSUME NEW k \in Key, NEW v \in Value, InitEntry(k, v) PROVE KeepsApart /\ Tending
  <2>1. CASE UNCHANGED <<heap, held>>
    BY <1>1, <1>4, <2>1 DEF InitEntry
  <2>2. CASE \E a \in Addr :
               /\ heap[a] = NULL /\ held' = held \cup {a}
               /\ heap' = [heap EXCEPT ![a] =
                    [key |-> k, value |-> v, own |-> TRUE, must_destroy |-> TRUE]]
    <3>1. PICK a \in Addr :
            /\ heap[a] = NULL /\ held' = held \cup {a}
            /\ heap' = [heap EXCEPT ![a] =
                 [key |-> k, value |-> v, own |-> TRUE, must_destroy |-> TRUE]]
      BY <2>2
    <3>2. \A x \in Addr : x # a => heap'[x] = heap[x]
      BY <3>1 DEF Inv, TypesOK
    <3>3. KeepsApart
      BY <3>1, <3>2 DEF KeepsApart, Apart
    <3> QED
      BY <1>4, <3>3, TendingSame DEF InitEntry
  <2> QED
    BY <1>4, <2>1, <2>2 DEF InitEntry
<1>5. ASSUME NEW a \in held, DestroyEntry(a) PROVE KeepsApart /\ Tending
  <2>1. heap' = [heap EXCEPT ![a] = NULL] /\ held' \subseteq held
    BY <1>5 DEF DestroyEntry
  <2>2. \A x \in Addr : x # a => heap'[x] = heap[x]
    BY <2>1 DEF Inv, TypesOK
  <2>3. KeepsApart
    BY <2>1, <2>2 DEF KeepsApart, Apart
  <2> QED
    BY <1>5, <2>3, TendingSame DEF DestroyEntry
<1>6. ASSUME NEW k \in Key, Get(k) PROVE KeepsApart /\ Tending
  BY <1>1, <1>6 DEF Get, Crash
<1>7. CASE Size \/ Keys \/ Values
  BY <1>1, <1>7 DEF Size, Keys, Values, Collect
<1>8. CASE Destroy
  BY <1>1, <1>8 DEF Destroy, Crash
<1> QED
  BY <1>2, <1>3, <1>4, <1>5, <1>6, <1>7, <1>8, SetTends, SetEntryTends, DelTends DEF Next

\* What an iteration in bucket i that goes on to next has yet to meet: what is
\* in its bucket from next on, and in the buckets after it.
Beyond(idx, n, i, a) == \E b \in i + 1 .. n - 1 : a \in ToSet(Entries(idx[b]))
Ahead(idx, n, i, next, a) ==
  \/ next # NULL /\ Ordered(Entries(idx[i]), next, a)
  \/ Beyond(idx, n, i, a)

\* The same by the place j of next in the bucket.
Onward(idx, n, i, j, a) ==
  \/ \E k \in DOMAIN Entries(idx[i]) : j =< k /\ Entries(idx[i])[k] = a
  \/ Beyond(idx, n, i, a)

\* What is due is yet to be met, and what is done is not met again.
Course(due, done, i, next, idx, n, h, hld) ==
  /\ \A d \in due : Ahead(idx, n, i, next, d)
  /\ \A d \in done : Apart(d, h, hld) /\ ~Ahead(idx, n, i, next, d)

\* t is s from place j on.
Tails(t, s, j) ==
  /\ Len(t) = Len(s) - j + 1
  /\ \A i \in 1 .. Len(t) : t[i] = s[j + i - 1]

LEMMA SubSeqTails ==
  ASSUME NEW s \in Seq(Addr), NEW j \in 1 .. Len(s), NEW t, t = SubSeq(s, j, Len(s))
  PROVE  t \in Seq(Addr) /\ Tails(t, s, j) /\ ToSet(t) \subseteq ToSet(s)
<1>1. PICK n \in Nat : n = Len(s) /\ DOMAIN s = 1 .. n
  BY LenProperties
<1>2. j \in 1 .. n /\ \A i \in j .. n : s[i] \in Addr
  BY <1>1, ElementOfSeq
<1>3. t \in Seq(Addr) /\ Len(t) = n - j + 1 /\ \A i \in 1 .. n - j + 1 : t[i] = s[j + i - 1]
  BY <1>1, <1>2, SubSeqProperties
<1>4. DOMAIN t = 1 .. n - j + 1
  BY <1>3, LenProperties
<1>5. \A i \in 1 .. n - j + 1 : j + i - 1 \in DOMAIN s
  BY <1>1, <1>2
<1>6. ToSet(t) \subseteq ToSet(s)
  BY <1>3, <1>4, <1>5 DEF ToSet
<1> QED
  BY <1>1, <1>3, <1>6 DEF Tails

LEMMA TailsItself ==
  ASSUME NEW s \in Seq(Addr)
  PROVE  Tails(s, s, 1)
<1>1. PICK n \in Nat : n = Len(s)
  BY LenProperties
<1> QED
  BY <1>1 DEF Tails

LEMMA TailsFacts ==
  ASSUME NEW s \in Seq(Addr), NEW j \in DOMAIN s, NEW t \in Seq(Addr), Tails(t, s, j)
  PROVE  /\ t[1] = s[j] /\ s[j] \in Addr
         /\ Moved(t) = IF j < Len(s) THEN s[j + 1] ELSE NULL
         /\ j < Len(s) => j + 1 \in DOMAIN s /\ s[j + 1] \in Addr /\ s[j + 1] \in ToSet(t)
<1>1. PICK n \in Nat : n = Len(s) /\ DOMAIN s = 1 .. n
  BY LenProperties
<1>2. j \in 1 .. n /\ \A i \in 1 .. n : s[i] \in Addr
  BY <1>1, ElementOfSeq
<1>3. Len(t) = n - j + 1 /\ \A i \in 1 .. n - j + 1 : t[i] = s[j + i - 1]
  BY <1>1, <1>2 DEF Tails
<1>4. t[1] = s[j]
  <2>1. 1 \in 1 .. n - j + 1 /\ j + 1 - 1 = j
    BY <1>2
  <2> QED
    BY <1>3, <2>1
<1>5. DOMAIN t = 1 .. n - j + 1
  BY <1>3, LenProperties
<1>6. ASSUME j < n PROVE j + 1 \in 1 .. n /\ 2 \in DOMAIN t /\ t[2] = s[j + 1] /\ Len(t) > 1
  <2>1. 2 \in 1 .. n - j + 1 /\ j + 2 - 1 = j + 1 /\ n - j + 1 > 1 /\ j + 1 \in 1 .. n
    BY <1>2, <1>6
  <2> QED
    BY <1>3, <1>5, <2>1
<1>7. ASSUME ~(j < n) PROVE ~(Len(t) > 1)
  BY <1>2, <1>3, <1>7
<1>8. CASE j < n
  <2>1. t[2] \in ToSet(t)
    BY <1>6, <1>8 DEF ToSet
  <2> QED
    BY <1>1, <1>2, <1>4, <1>6, <1>8, <2>1 DEF Moved
<1>9. CASE ~(j < n)
  BY <1>1, <1>2, <1>4, <1>7, <1>9 DEF Moved
<1> QED
  BY <1>8, <1>9

\* By name or by place, it is the same that is yet to be met.
LEMMA AheadAt ==
  ASSUME NEW n \in Nat, NEW idx, NEW h, Sound(idx, n, h), NEW i \in 0 .. n - 1,
         NEW s, s = Entries(idx[i]), NEW j \in DOMAIN s, NEW a
  PROVE  Ahead(idx, n, i, s[j], a) <=> Onward(idx, n, i, j, a)
<1>1. s \in Seq(Addr) /\ IsInjective(s)
  <2>1. idx[i] \in {NULL} \cup Seq(Addr)
    BY DEF Sound
  <2> QED
    BY <2>1, EntriesFacts DEF Sound
<1>2. s[j] # NULL
  BY <1>1, ElementOfSeq, NullAssumption, LenProperties
<1>3. Ordered(s, s[j], a) => \E k \in DOMAIN s : j =< k /\ s[k] = a
  BY <1>1 DEF Ordered, IsInjective
<1>4. (\E k \in DOMAIN s : j =< k /\ s[k] = a) => Ordered(s, s[j], a)
  BY DEF Ordered
<1> QED
  BY <1>2, <1>3, <1>4 DEF Ahead, Onward

\* Where the iteration goes on to from place j of the bucket s.
Follows(next, s, j) == next = IF j < Len(s) THEN s[j + 1] ELSE NULL

\* Moving on past place j leaves exactly what is there behind.
LEMMA AheadAfter ==
  ASSUME NEW n \in Nat, NEW idx, NEW h, Sound(idx, n, h), NEW i \in 0 .. n - 1,
         NEW s, s = Entries(idx[i]), NEW j \in DOMAIN s,
         NEW next, Follows(next, s, j), NEW a
  PROVE  Ahead(idx, n, i, next, a) <=> Onward(idx, n, i, j, a) /\ a # s[j]
<1>1. s \in Seq(Addr) /\ IsInjective(s)
  <2>1. idx[i] \in {NULL} \cup Seq(Addr)
    BY DEF Sound
  <2> QED
    BY <2>1, EntriesFacts DEF Sound
<1>2. PICK m \in Nat : m = Len(s) /\ DOMAIN s = 1 .. m
  BY <1>1, LenProperties
<1>3. \A k \in 1 .. m : s[k] # NULL
  BY <1>1, <1>2, ElementOfSeq, NullAssumption
<1>4. \A k, l \in 1 .. m : s[k] = s[l] => k = l
  BY <1>2, <1>1 DEF IsInjective
<1>5. Beyond(idx, n, i, a) => a # s[j]
  <2>1. SUFFICES ASSUME Beyond(idx, n, i, a), a = s[j] PROVE FALSE
    OBVIOUS
  <2>2. PICK b \in i + 1 .. n - 1 : a \in ToSet(Entries(idx[b]))
    BY <2>1 DEF Beyond
  <2>3. a \in ToSet(Entries(idx[i]))
    BY <2>1 DEF ToSet
  <2>4. b \in 0 .. n - 1 /\ b # i
    OBVIOUS
  <2>5. Slot(h[a].key, n) = b /\ Slot(h[a].key, n) = i
    BY <2>2, <2>3, <2>4 DEF Sound
  <2> QED
    BY <2>4, <2>5
<1>6. ASSUME next # NULL, Ordered(s, next, a)
      PROVE  a # s[j] /\ \E k \in DOMAIN s : j =< k /\ s[k] = a
  <2>1. j < m /\ next = s[j + 1] /\ j + 1 \in 1 .. m
    BY <1>2, <1>6 DEF Follows
  <2>2. PICK x, y \in 1 .. m : x =< y /\ s[x] = next /\ s[y] = a
    BY <1>2, <1>6 DEF Ordered
  <2>3. x = j + 1
    BY <1>4, <2>1, <2>2
  <2>4. y > j /\ y # j
    BY <1>2, <2>2, <2>3
  <2> QED
    BY <1>2, <1>4, <2>2, <2>4
<1>7. ASSUME NEW k \in DOMAIN s, j =< k, s[k] = a, a # s[j]
      PROVE  next # NULL /\ Ordered(s, next, a)
  <2>1. j < m /\ j + 1 \in 1 .. m /\ j + 1 =< k
    BY <1>2, <1>7
  <2>2. next = s[j + 1]
    BY <1>2, <2>1 DEF Follows
  <2> QED
    BY <1>2, <1>3, <1>7, <2>1, <2>2 DEF Ordered
<1> QED
  BY <1>5, <1>6, <1>7 DEF Ahead, Onward

\* The first bucket with entries is the first that an iteration meets.
LEMMA FirstOnward ==
  ASSUME NEW n \in Nat, NEW idx, NEW h, Sound(idx, n, h), NEW i \in Nat \cup {-1},
         NEW b \in i + 1 .. n - 1, Entries(idx[b]) # <<>>,
         \A d \in i + 1 .. n - 1 : Entries(idx[d]) # <<>> => b =< d, NEW a
  PROVE  /\ 1 \in DOMAIN Entries(idx[b])
         /\ Beyond(idx, n, i, a) <=> Onward(idx, n, b, 1, a)
<1>1. PICK s : s = Entries(idx[b])
  OBVIOUS
<1>2. b \in 0 .. n - 1
  OBVIOUS
<1>3. s \in Seq(Addr)
  <2>1. idx[b] \in {NULL} \cup Seq(Addr)
    BY <1>2 DEF Sound
  <2> QED
    BY <1>1, <2>1, EntriesFacts
<1>4. PICK m \in Nat : m = Len(s) /\ DOMAIN s = 1 .. m /\ m # 0
  BY <1>1, <1>3, LenProperties, EmptySeq
<1>5. 1 \in DOMAIN s /\ \A k \in DOMAIN s : 1 =< k
  BY <1>4
<1>6. ASSUME Beyond(idx, n, i, a) PROVE Onward(idx, n, b, 1, a)
  <2>1. PICK d \in i + 1 .. n - 1 : a \in ToSet(Entries(idx[d]))
    BY <1>6 DEF Beyond
  <2>2. Entries(idx[d]) # <<>>
    BY <2>1 DEF ToSet
  <2>3. b =< d
    BY <2>2
  <2>4. CASE d = b
    BY <1>1, <1>5, <2>1, <2>4 DEF Onward, ToSet
  <2>5. CASE d # b
    <3>1. d \in b + 1 .. n - 1
      BY <2>3, <2>5
    <3> QED
      BY <2>1, <3>1 DEF Onward, Beyond
  <2> QED
    BY <2>4, <2>5
<1>7. ASSUME Onward(idx, n, b, 1, a) PROVE Beyond(idx, n, i, a)
  <2>1. CASE \E k \in DOMAIN s : 1 =< k /\ s[k] = a
    BY <1>1, <2>1 DEF Beyond, ToSet
  <2>2. CASE Beyond(idx, n, b, a)
    <3>1. b + 1 .. n - 1 \subseteq i + 1 .. n - 1
      OBVIOUS
    <3> QED
      BY <2>2, <3>1 DEF Beyond
  <2> QED
    BY <1>1, <1>7, <2>1, <2>2 DEF Onward
<1> QED
  BY <1>1, <1>5, <1>6, <1>7

\* Handing out the entry at place j keeps the iteration on its course.
LEMMA CourseHands ==
  ASSUME NEW n \in Nat, NEW idx, NEW h, NEW hld, Sound(idx, n, h),
         \A a \in All(idx, n) : a \notin hld,
         NEW i \in 0 .. n - 1, NEW j \in DOMAIN Entries(idx[i]),
         NEW t \in Seq(Addr), Tails(t, Entries(idx[i]), j), NEW due, NEW done,
         \A d \in due : Onward(idx, n, i, j, d),
         \A d \in done : Apart(d, h, hld) /\ ~Onward(idx, n, i, j, d)
  PROVE  Course(due \ {t[1]}, done \cup {t[1]}, i, Moved(t), idx, n, h, hld)
<1>1. PICK s : s = Entries(idx[i])
  OBVIOUS
<1>2. s \in Seq(Addr)
  <2>1. idx[i] \in {NULL} \cup Seq(Addr)
    BY DEF Sound
  <2> QED
    BY <1>1, <2>1, EntriesFacts
<1>3. t[1] = s[j] /\ Moved(t) = IF j < Len(s) THEN s[j + 1] ELSE NULL
  BY <1>1, <1>2, TailsFacts
<1>4. PICK next : next = Moved(t)
  OBVIOUS
<1>5. ASSUME NEW a
      PROVE  Ahead(idx, n, i, next, a) <=> Onward(idx, n, i, j, a) /\ a # s[j]
  <2>1. j \in DOMAIN s /\ Follows(next, s, j)
    BY <1>1, <1>3, <1>4 DEF Follows
  <2> QED
    BY <1>1, <2>1, AheadAfter
<1>6. Apart(s[j], h, hld)
  <2>1. s[j] \in ToSet(Entries(idx[i]))
    BY <1>1 DEF ToSet
  <2>2. s[j] \in All(idx, n) /\ h[s[j]] # NULL
    BY <2>1, AllFacts
  <2> QED
    BY <2>2 DEF Apart
<1> QED
  BY <1>3, <1>4, <1>5, <1>6 DEF Course

\* What was in the table and still is has stayed in its bucket.
LEMMA StaysIn ==
  ASSUME NEW n \in Nat, NEW idx, NEW h, NEW hld, Sound(idx, n, h),
         NEW jdx, NEW g, Sound(jdx, n, g), Tends(idx, jdx, n, h, hld),
         \A a \in All(idx, n) : a \notin hld
  PROVE  /\ \A a, b : b \in 0 .. n - 1 /\ Apart(a, h, hld) /\ a \in ToSet(Entries(jdx[b]))
                       => a \in ToSet(Entries(idx[b]))
         /\ \A a, b : b \in 0 .. n - 1 /\ a \in All(jdx, n) /\ a \in ToSet(Entries(idx[b]))
                       => a \in ToSet(Entries(jdx[b]))
<1>1. ASSUME NEW a, NEW b \in 0 .. n - 1, Apart(a, h, hld), a \in ToSet(Entries(jdx[b]))
      PROVE  a \in ToSet(Entries(idx[b]))
  BY <1>1 DEF Tends, Tended, Apart
<1>2. ASSUME NEW a, NEW b \in 0 .. n - 1, a \in All(jdx, n), a \in ToSet(Entries(idx[b]))
      PROVE  a \in ToSet(Entries(jdx[b]))
  <2>1. PICK d \in 0 .. n - 1 : a \in ToSet(Entries(jdx[d]))
    BY <1>2 DEF All
  <2>2. a \in All(idx, n) /\ h[a] # NULL
    BY <1>2, AllFacts
  <2>3. Apart(a, h, hld)
    BY <2>2 DEF Apart
  <2>4. a \in ToSet(Entries(idx[d]))
    BY <1>1, <2>1, <2>3
  <2>5. Slot(h[a].key, n) = d /\ Slot(h[a].key, n) = b
    BY <1>2, <2>4 DEF Sound
  <2> QED
    BY <2>1, <2>5
<1> QED
  BY <1>1, <1>2

\* A call that tends to the buckets keeps the iteration on its course.
LEMMA CourseTended ==
  ASSUME NEW n \in Nat, NEW idx, NEW h, NEW hld, Sound(idx, n, h),
         NEW jdx, NEW g, NEW hld2, Sound(jdx, n, g), Tends(idx, jdx, n, h, hld),
         \A a \in All(idx, n) : a \notin hld,
         \A a \in Addr : Apart(a, h, hld) => Apart(a, g, hld2),
         NEW i \in 0 .. n - 1, NEW next,
         next # NULL => next \in ToSet(Entries(idx[i])) /\ next \in ToSet(Entries(jdx[i])),
         NEW due, NEW done \in SUBSET Addr, Course(due, done, i, next, idx, n, h, hld)
  PROVE  Course(due \cap All(jdx, n), done, i, next, jdx, n, g, hld2)
<1>1. PICK s, t : s = Entries(idx[i]) /\ t = Entries(jdx[i])
  OBVIOUS
<1>2. IsInjective(t) /\ \A a, c \in ToSet(t) : Ordered(s, a, c) => Ordered(t, a, c)
  BY <1>1 DEF Sound, Tends, Tended
<1>3. \A b \in 0 .. n - 1 : \A a \in ToSet(Entries(idx[b])) : Apart(a, h, hld)
  <2>1. \A b \in 0 .. n - 1 : \A a \in ToSet(Entries(idx[b])) : a \in All(idx, n) /\ h[a] # NULL
    BY AllFacts
  <2> QED
    BY <2>1 DEF Apart
<1>4. i + 1 .. n - 1 \subseteq 0 .. n - 1
  OBVIOUS
<1>5. ASSUME NEW d \in due \cap All(jdx, n) PROVE Ahead(jdx, n, i, next, d)
  <2>1. Ahead(idx, n, i, next, d)
    BY <1>5 DEF Course
  <2>2. CASE next # NULL /\ Ordered(s, next, d)
    <3>1. d \in ToSet(s)
      BY <2>2 DEF Ordered, ToSet
    <3>2. d \in ToSet(t) /\ next \in ToSet(t)
      BY <1>1, <1>5, <2>2, <3>1, StaysIn
    <3> QED
      BY <1>1, <1>2, <2>2, <3>2 DEF Ahead
  <2>3. CASE Beyond(idx, n, i, d)
    <3>1. PICK b \in i + 1 .. n - 1 : d \in ToSet(Entries(idx[b]))
      BY <2>3 DEF Beyond
    <3>2. d \in ToSet(Entries(jdx[b]))
      BY <1>4, <1>5, <3>1, StaysIn
    <3> QED
      BY <3>1, <3>2 DEF Ahead, Beyond
  <2> QED
    BY <1>1, <2>1, <2>2, <2>3 DEF Ahead
<1>6. ASSUME NEW d \in done PROVE Apart(d, g, hld2) /\ ~Ahead(jdx, n, i, next, d)
  <2>1. Apart(d, h, hld) /\ ~Ahead(idx, n, i, next, d)
    BY <1>6 DEF Course
  <2>2. ASSUME next # NULL, Ordered(t, next, d) PROVE FALSE
    <3>1. d \in ToSet(t) /\ next \in ToSet(t) /\ next \in ToSet(s)
      BY <1>1, <2>2 DEF Ordered, ToSet
    <3>2. d \in ToSet(s)
      BY <1>1, <2>1, <3>1, StaysIn
    <3>3. ~Ordered(s, next, d)
      BY <1>1, <2>1, <2>2 DEF Ahead
    <3>4. Ordered(s, d, next) /\ Ordered(s, next, next)
      <4>1. PICK x, y \in DOMAIN s : s[x] = next /\ s[y] = d
        BY <3>1, <3>2 DEF ToSet
      <4>2. x \in Nat /\ y \in Nat
        <5>1. idx[i] \in {NULL} \cup Seq(Addr)
          BY DEF Sound
        <5>2. s \in Seq(Addr)
          BY <1>1, <5>1, EntriesFacts
        <5> QED
          BY <5>2, LenProperties
      <4>3. ~(x =< y)
        BY <3>3, <4>1 DEF Ordered
      <4>4. y =< x /\ x =< x
        BY <4>2, <4>3
      <4> QED
        BY <4>1, <4>4 DEF Ordered
    <3>5. Ordered(t, d, next)
      BY <1>2, <3>1, <3>4
    <3>6. d = next
      <4>1. PICK j, k \in DOMAIN t : j =< k /\ t[j] = next /\ t[k] = d
        BY <2>2 DEF Ordered
      <4>2. PICK x, y \in DOMAIN t : x =< y /\ t[x] = d /\ t[y] = next
        BY <3>5 DEF Ordered
      <4>3. x = k /\ y = j
        BY <1>2, <4>1, <4>2 DEF IsInjective
      <4>4. j \in Nat /\ k \in Nat
        <5>1. jdx[i] \in {NULL} \cup Seq(Addr)
          BY DEF Sound
        <5>2. t \in Seq(Addr)
          BY <1>1, <5>1, EntriesFacts
        <5> QED
          BY <5>2, LenProperties
      <4>5. j = k
        BY <4>1, <4>2, <4>3, <4>4
      <4> QED
        BY <4>1, <4>5
    <3> QED
      BY <3>3, <3>4, <3>6
  <2>3. ASSUME Beyond(jdx, n, i, d) PROVE FALSE
    <3>1. PICK b \in i + 1 .. n - 1 : d \in ToSet(Entries(jdx[b]))
      BY <2>3 DEF Beyond
    <3>2. d \in ToSet(Entries(idx[b]))
      BY <1>4, <2>1, <3>1, StaysIn
    <3> QED
      BY <2>1, <3>1, <3>2 DEF Ahead, Beyond
  <2>4. Apart(d, g, hld2)
    BY <1>6, <2>1
  <2> QED
    BY <1>1, <2>2, <2>3, <2>4 DEF Ahead
<1> QED
  BY <1>5, <1>6 DEF Course

\* The inductive invariant of an iteration `it' of a table of n buckets: what it
\* walks is safe from malloc, its next entry is there unless del has taken it,
\* and, as long as callbacks do nothing it may suffer from, it is on its course.
Walks(it, idx, n, h, hld) ==
  /\ it.i \in Nat /\ it.next \in Addr \cup {NULL} /\ it.done \in SUBSET Addr
  /\ it.old = NULL =>
       /\ it.i < n
       /\ it.next # NULL /\ "del" \notin it.did => it.next \in ToSet(Entries(idx[it.i]))
  /\ it.old # NULL =>
       /\ it.old \in Seq(Addr) /\ "replaced" \in it.did
       /\ \A a \in ToSet(it.old) : Apart(a, h, hld)
       /\ it.next # NULL /\ "del" \notin it.did => it.next \in ToSet(it.old)
  /\ it.did = {} => Course(it.due, it.done, it.i, it.next, idx, n, h, hld)

IsIter(it) ==
  it = [i |-> it.i, next |-> it.next, old |-> it.old, due |-> it.due,
        done |-> it.done, did |-> it.did]

OnItsWay ==
  iter # NULL =>
    /\ IsIter(iter)
    /\ "no_index" \notin iter.did =>
         index # NULL /\ Walks(iter, index, index_size, heap, held)

IterInv == Inv /\ OnItsWay /\ IterationSafe

LEMMA IndexFacts ==
  ASSUME Inv, index # NULL
  PROVE  /\ index_size \in Nat /\ Sound(index, index_size, heap)
         /\ Members = All(index, index_size) /\ InTable = Members
         /\ \A a \in All(index, index_size) : a \in Addr /\ Apart(a, heap, held)
<1>1. /\ index_size \in Nat /\ Sound(index, index_size, heap)
      /\ Members = All(index, index_size)
  BY DEF Inv, Shelved, Members
<1>2. InTable = Members
  BY StoredFacts DEF Inv, InTable
<1>3. \A a \in Members : a \in Addr /\ heap[a] # NULL /\ a \notin held
  BY MemberFacts DEF Inv, Shelved
<1> QED
  BY <1>1, <1>2, <1>3 DEF Apart

\* What the iteration walks, and what is left of it.
LEMMA WalkedFacts ==
  ASSUME Inv, index # NULL, Walks(iter, index, index_size, heap, held)
  PROVE  /\ Walked \in Seq(Addr) /\ \A a \in ToSet(Walked) : Apart(a, heap, held)
         /\ Rest \in Seq(Addr) /\ ToSet(Rest) \subseteq ToSet(Walked)
         /\ iter.next \in ToSet(Walked) =>
              \E j \in DOMAIN Walked : Walked[j] = iter.next /\ Tails(Rest, Walked, j)
<1>1. Walked \in Seq(Addr) /\ \A a \in ToSet(Walked) : Apart(a, heap, held)
  <2>1. CASE iter.old = NULL
    <3>1. iter.i \in 0 .. index_size - 1
      BY <2>1, IndexFacts DEF Walks
    <3>2. index[iter.i] \in {NULL} \cup Seq(Addr)
      BY <3>1, IndexFacts DEF Sound
    <3>3. Walked = Entries(index[iter.i])
      BY <2>1 DEF Walked
    <3>4. ToSet(Walked) \subseteq All(index, index_size)
      BY <3>1, <3>3 DEF All
    <3> QED
      BY <3>2, <3>3, <3>4, EntriesFacts, IndexFacts
  <2>2. CASE iter.old # NULL
    BY <2>2 DEF Walked, Walks
  <2> QED
    BY <2>1, <2>2
<1>2. PICK s, a : s = Walked /\ a = iter.next
  OBVIOUS
<1>3. PICK n \in Nat : n = Len(s) /\ DOMAIN s = 1 .. n
  BY <1>1, <1>2, LenProperties
<1>4. CASE a \in ToSet(s)
  <2>1. PICK j : j = CHOOSE k \in DOMAIN s : s[k] = a
    OBVIOUS
  <2>2. j \in DOMAIN s /\ s[j] = a
    BY <1>4, <2>1 DEF ToSet
  <2>3. PICK t : t = SubSeq(s, j, Len(s))
    OBVIOUS
  <2>4. Rest = t
    BY <1>2, <1>4, <2>1, <2>3 DEF Rest
  <2>5. t \in Seq(Addr) /\ Tails(t, s, j) /\ ToSet(t) \subseteq ToSet(s)
    BY <1>1, <1>2, <1>3, <2>2, <2>3, SubSeqTails
  <2> QED
    BY <1>1, <1>2, <2>2, <2>4, <2>5
<1>5. CASE a \notin ToSet(s)
  <2>1. Rest = <<>>
    BY <1>2, <1>5 DEF Rest
  <2>2. ToSet(<<>>) = {} /\ <<>> \in Seq(Addr)
    BY DEF ToSet
  <2> QED
    BY <1>1, <1>2, <1>5, <2>1, <2>2
<1> QED
  BY <1>4, <1>5

\* Begin and Advance: the first entry of the first bucket after i is handed out.
LEMMA BucketHanded ==
  ASSUME Inv, index # NULL, NEW i \in Nat \cup {-1}, After(i) # {},
         NEW b, b = Min(After(i)), NEW due, NEW done \in SUBSET Addr, NEW did,
         did = {} => /\ \A d \in due : Beyond(index, index_size, i, d)
                     /\ \A d \in done : /\ Apart(d, heap, held)
                                        /\ ~Beyond(index, index_size, i, d),
         NEW it,
         it = [i |-> b, next |-> Moved(index[b]), old |-> NULL,
               due |-> due \ {index[b][1]},
               done |-> done \cup (IF did = {} THEN {index[b][1]} ELSE {}),
               did |-> did]
  PROVE  IsIter(it) /\ Walks(it, index, index_size, heap, held)
<1>1. PICK n, idx, h, hld : n = index_size /\ idx = index /\ h = heap /\ hld = held
  OBVIOUS
<1>2. /\ n \in Nat /\ Sound(idx, n, h)
      /\ \A a \in All(idx, n) : a \in Addr /\ Apart(a, h, hld)
  BY <1>1, IndexFacts
<1>3. After(i) = {d \in i + 1 .. n - 1 : Entries(idx[d]) # <<>>}
  BY <1>1 DEF After
<1>4. After(i) \in SUBSET Nat
  BY <1>2, <1>3
<1>5. b \in After(i) /\ \A d \in After(i) : b =< d
  BY <1>4, MinFacts
<1>6. /\ b \in i + 1 .. n - 1 /\ Entries(idx[b]) # <<>>
      /\ \A d \in i + 1 .. n - 1 : Entries(idx[d]) # <<>> => b =< d
  BY <1>3, <1>5
<1>7. b \in 0 .. n - 1 /\ b \in Nat /\ b < n
  BY <1>2, <1>6
<1>8. PICK s : s = idx[b]
  OBVIOUS
<1>9. Entries(idx[b]) = s /\ s \in Seq(Addr)
  <2>1. s \in {NULL} \cup Seq(Addr)
    BY <1>2, <1>7, <1>8 DEF Sound
  <2> QED
    BY <1>6, <1>8, <2>1 DEF Entries
<1>10. 1 \in DOMAIN s /\ \A a : Beyond(idx, n, i, a) <=> Onward(idx, n, b, 1, a)
  BY <1>2, <1>6, <1>8, <1>9, FirstOnward
<1>11. Tails(s, s, 1)
  BY <1>9, TailsItself
<1>12. /\ s[1] \in Addr /\ Moved(s) \in Addr \cup {NULL}
       /\ Moved(s) # NULL => Moved(s) \in ToSet(s)
  BY <1>9, <1>10, <1>11, TailsFacts, SMTT(30)
<1>13. ASSUME did = {}
       PROVE  Course(due \ {s[1]}, done \cup {s[1]}, b, Moved(s), idx, n, h, hld)
  <2>1. /\ \A d \in due : Onward(idx, n, b, 1, d)
        /\ \A d \in done : Apart(d, h, hld) /\ ~Onward(idx, n, b, 1, d)
    BY <1>1, <1>10, <1>13
  <2>2. \A a \in All(idx, n) : a \notin hld
    BY <1>2 DEF Apart
  <2> QED
    BY <1>2, <1>7, <1>9, <1>10, <1>11, <2>1, <2>2, CourseHands
<1>14. it = [i |-> b, next |-> Moved(s), old |-> NULL, due |-> due \ {s[1]},
             done |-> done \cup (IF did = {} THEN {s[1]} ELSE {}), did |-> did]
  BY <1>1, <1>8
<1>15. IsIter(it)
  BY <1>14 DEF IsIter
<1>16. Walks(it, idx, n, h, hld)
  <2>1. /\ it.i = b /\ it.next = Moved(s) /\ it.old = NULL /\ it.did = did
        /\ it.due = due \ {s[1]}
        /\ it.done = done \cup (IF did = {} THEN {s[1]} ELSE {})
    BY <1>14
  <2>2. it.done \in SUBSET Addr
    BY <1>12, <2>1
  <2>3. it.did = {} => Course(it.due, it.done, it.i, it.next, idx, n, h, hld)
    <3>1. CASE did = {}
      <4>1. it.done = done \cup {s[1]}
        BY <2>1, <3>1
      <4> QED
        BY <1>13, <2>1, <3>1, <4>1
    <3>2. CASE did # {}
      BY <2>1, <3>2
    <3> QED
      BY <3>1, <3>2
  <2>4. Entries(idx[it.i]) = s
    BY <1>9, <2>1
  <2> QED
    BY <1>7, <1>12, <2>1, <2>2, <2>3, <2>4 DEF Walks
<1> QED
  BY <1>1, <1>15, <1>16

LEMMA BeginKeeps ==
  ASSUME Inv, Begin, ~lost
  PROVE  OnItsWay' /\ IterationSafe'
<1>1. index # NULL
  BY DEF Begin, After
<1>2. PICK b : b = Min(After(-1))
  OBVIOUS
<1>3. PICK it : it = iter'
  OBVIOUS
<1>4. PICK all : all = ToSet(Stored)
  OBVIOUS
<1>5. it = [i |-> b, next |-> Moved(index[b]), old |-> NULL,
            due |-> all \ {index[b][1]},
            done |-> {} \cup (IF {} = {} THEN {index[b][1]} ELSE {}), did |-> {}]
  BY <1>2, <1>3, <1>4 DEF Begin, Handed
<1>6. ASSUME NEW d \in all PROVE Beyond(index, index_size, -1, d)
  <2>1. d \in All(index, index_size) /\ index_size \in Nat
    BY <1>1, <1>4, <1>6, StoredFacts, IndexFacts DEF Inv
  <2>2. 0 .. index_size - 1 = -1 + 1 .. index_size - 1
    OBVIOUS
  <2> QED
    BY <2>1, <2>2 DEF All, Beyond
<1>7. IsIter(it) /\ Walks(it, index, index_size, heap, held)
  BY <1>1, <1>2, <1>5, <1>6, BucketHanded DEF Begin
<1>8. UNCHANGED <<index, index_size, heap, held, lost>> /\ ~lost
  BY DEF Begin, vars
<1> QED
  BY <1>1, <1>3, <1>7, <1>8 DEF OnItsWay, IterationSafe, Begin

\* The entry that comes next is there, unless a callback has deleted it or left
\* the table without an index.
LEMMA NextThere ==
  ASSUME Inv, OnItsWay, iter # NULL, iter.did \cap {"del", "no_index"} = {},
         iter.next # NULL
  PROVE  iter.next \in ToSet(Walked) /\ heap[iter.next] # NULL
<1>1. index # NULL /\ Walks(iter, index, index_size, heap, held) /\ "del" \notin iter.did
  BY DEF OnItsWay
<1>2. iter.next \in ToSet(Walked)
  BY <1>1 DEF Walks, Walked
<1>3. Apart(iter.next, heap, held)
  BY <1>1, <1>2, WalkedFacts
<1> QED
  BY <1>2, <1>3 DEF Apart

\* Advance, while the bucket or the old list has more.
LEMMA RestHanded ==
  ASSUME Inv, index # NULL, Walks(iter, index, index_size, heap, held),
         iter.next \in ToSet(Walked), NEW it,
         it = [i |-> iter.i, next |-> Moved(Rest), old |-> iter.old,
               due |-> iter.due \ {Rest[1]},
               done |-> iter.done \cup (IF iter.did = {} THEN {Rest[1]} ELSE {}),
               did |-> iter.did]
  PROVE  IsIter(it) /\ Walks(it, index, index_size, heap, held)
<1>1. PICK n, idx, h, hld : n = index_size /\ idx = index /\ h = heap /\ hld = held
  OBVIOUS
<1>2. /\ n \in Nat /\ Sound(idx, n, h)
      /\ \A a \in All(idx, n) : a \in Addr /\ Apart(a, h, hld)
  BY <1>1, IndexFacts
<1>3. PICK s, t : s = Walked /\ t = Rest
  OBVIOUS
<1>4. s \in Seq(Addr) /\ t \in Seq(Addr) /\ ToSet(t) \subseteq ToSet(s)
  BY <1>3, WalkedFacts
<1>5. PICK j \in DOMAIN s : s[j] = iter.next /\ Tails(t, s, j)
  BY <1>3, WalkedFacts
<1>6. /\ t[1] = s[j] /\ s[j] \in Addr
      /\ Moved(t) \in Addr \cup {NULL} /\ (Moved(t) # NULL => Moved(t) \in ToSet(s))
  BY <1>4, <1>5, TailsFacts
<1>7. /\ it.i = iter.i /\ it.next = Moved(t) /\ it.old = iter.old /\ it.did = iter.did
      /\ it.due = iter.due \ {t[1]}
      /\ it.done = iter.done \cup (IF iter.did = {} THEN {t[1]} ELSE {})
  BY <1>3
<1>8. it.i \in Nat /\ it.next \in Addr \cup {NULL} /\ it.done \in SUBSET Addr
  BY <1>6, <1>7 DEF Walks
<1>9. it.old = NULL => /\ it.i < n
                       /\ it.next # NULL => it.next \in ToSet(Entries(idx[it.i]))
  <2>1. iter.old = NULL => s = Entries(idx[iter.i])
    BY <1>1, <1>3 DEF Walked
  <2> QED
    BY <1>1, <1>6, <1>7, <2>1 DEF Walks
<1>10. it.old # NULL => /\ it.old \in Seq(Addr) /\ "replaced" \in it.did
                        /\ \A a \in ToSet(it.old) : Apart(a, h, hld)
                        /\ it.next # NULL => it.next \in ToSet(it.old)
  <2>1. iter.old # NULL => s = iter.old
    BY <1>3 DEF Walked
  <2> QED
    BY <1>1, <1>6, <1>7, <2>1 DEF Walks
<1>11. ASSUME it.did = {} PROVE Course(it.due, it.done, it.i, it.next, idx, n, h, hld)
  <2>1. iter.old = NULL /\ iter.i \in 0 .. n - 1 /\ it.done = iter.done \cup {t[1]}
    <3>1. iter.did = {}
      BY <1>7, <1>11
    <3>2. iter.old = NULL
      BY <3>1 DEF Walks
    <3>3. iter.i \in Nat /\ iter.i < n
      BY <1>1, <3>2 DEF Walks
    <3> QED
      BY <1>2, <1>7, <3>1, <3>2, <3>3
  <2>2. PICK i, due, done : i = iter.i /\ due = iter.due /\ done = iter.done
    OBVIOUS
  <2>3. s = Entries(idx[i])
    BY <1>1, <1>3, <2>1, <2>2 DEF Walked
  <2>4. Course(due, done, i, s[j], idx, n, h, hld)
    BY <1>1, <1>5, <1>7, <1>11, <2>2 DEF Walks
  <2>5. \A a : Ahead(idx, n, i, s[j], a) <=> Onward(idx, n, i, j, a)
    BY <1>2, <1>5, <2>1, <2>2, <2>3, AheadAt
  <2>6. /\ \A d \in due : Onward(idx, n, i, j, d)
        /\ \A d \in done : Apart(d, h, hld) /\ ~Onward(idx, n, i, j, d)
    BY <2>4, <2>5 DEF Course
  <2>7. \A a \in All(idx, n) : a \notin hld
    BY <1>2 DEF Apart
  <2>8. Course(due \ {t[1]}, done \cup {t[1]}, i, Moved(t), idx, n, h, hld)
    BY <1>2, <1>4, <1>5, <2>1, <2>2, <2>3, <2>6, <2>7, CourseHands
  <2> QED
    BY <1>7, <2>1, <2>2, <2>8
<1>12. Walks(it, idx, n, h, hld)
  BY <1>8, <1>9, <1>10, <1>11 DEF Walks
<1>13. IsIter(it)
  BY DEF IsIter
<1> QED
  BY <1>1, <1>12, <1>13

LEMMA AdvanceKeeps ==
  ASSUME Inv, OnItsWay, Advance, ~lost
  PROVE  OnItsWay' /\ IterationSafe'
<1>1. UNCHANGED <<index, index_size, heap, held>> /\ iter # NULL
  BY DEF Advance, vars
<1>2. PICK it : it = iter'
  OBVIOUS
<1>3. ASSUME IsIter(it), "no_index" \notin it.did =>
                           index # NULL /\ Walks(it, index, index_size, heap, held)
      PROVE  OnItsWay'
  BY <1>1, <1>2, <1>3 DEF OnItsWay
<1>4. CASE /\ iter.next # NULL
           /\ iter.next \notin ToSet(Walked) \/ heap[iter.next] = NULL
           /\ lost' = TRUE /\ UNCHANGED iter
  <2>1. iter.did \cap {"del", "no_index"} # {}
    BY <1>1, <1>4, NextThere
  <2> QED
    BY <1>1, <1>4, <2>1 DEF OnItsWay, IterationSafe
<1>5. CASE /\ iter.next \in ToSet(Walked)
           /\ Handed(iter.i, Rest, iter.old, iter)
           /\ UNCHANGED lost
  <2>1. it = [i |-> iter.i, next |-> Moved(Rest), old |-> iter.old,
              due |-> iter.due \ {Rest[1]},
              done |-> iter.done \cup (IF iter.did = {} THEN {Rest[1]} ELSE {}),
              did |-> iter.did]
    BY <1>2, <1>5 DEF Handed
  <2>2. IsIter(it) /\ it.did = iter.did
    BY <2>1 DEF IsIter
  <2>3. ASSUME "no_index" \notin it.did
        PROVE  index # NULL /\ Walks(it, index, index_size, heap, held)
    <3>1. index # NULL /\ Walks(iter, index, index_size, heap, held)
      BY <1>1, <2>2, <2>3 DEF OnItsWay
    <3> QED
      BY <1>5, <2>1, <3>1, RestHanded
  <2>5. OnItsWay'
    BY <1>3, <2>2, <2>3
  <2> QED
    BY <1>5, <2>5 DEF IterationSafe
<1>6. CASE /\ iter.next = NULL /\ After(iter.i) # {}
           /\ LET i == Min(After(iter.i)) IN Handed(i, index[i], NULL, iter)
           /\ UNCHANGED lost
  <2>1. PICK b : b = Min(After(iter.i))
    OBVIOUS
  <2>2. it = [i |-> b, next |-> Moved(index[b]), old |-> NULL,
              due |-> iter.due \ {index[b][1]},
              done |-> iter.done \cup (IF iter.did = {} THEN {index[b][1]} ELSE {}),
              did |-> iter.did]
    BY <1>2, <1>6, <2>1 DEF Handed
  <2>3. IsIter(it) /\ it.did = iter.did
    BY <2>2 DEF IsIter
  <2>4. ASSUME "no_index" \notin it.did
        PROVE  index # NULL /\ Walks(it, index, index_size, heap, held)
    <3>1. index # NULL /\ Walks(iter, index, index_size, heap, held)
      BY <1>1, <2>3, <2>4 DEF OnItsWay
    <3>2. PICK i, due, done, did :
            i = iter.i /\ due = iter.due /\ done = iter.done /\ did = iter.did
      OBVIOUS
    <3>3. i \in Nat /\ done \in SUBSET Addr
      BY <3>1, <3>2 DEF Walks
    <3>4. did = {} => /\ \A d \in due : Beyond(index, index_size, i, d)
                      /\ \A d \in done : /\ Apart(d, heap, held)
                                         /\ ~Beyond(index, index_size, i, d)
      BY <1>6, <3>1, <3>2 DEF Walks, Course, Ahead
    <3> QED
      BY <1>6, <2>1, <2>2, <3>1, <3>2, <3>3, <3>4, BucketHanded, ZenonT(30)
  <2>5. OnItsWay'
    BY <1>3, <2>3, <2>4
  <2> QED
    BY <1>6, <2>5 DEF IterationSafe
<1>7. CASE index = NULL /\ lost' = TRUE /\ UNCHANGED iter
  <2>1. "no_index" \in iter.did
    BY <1>1, <1>7 DEF OnItsWay
  <2> QED
    BY <1>1, <1>7, <2>1 DEF OnItsWay, IterationSafe
<1>8. CASE iter' = NULL /\ UNCHANGED lost
  BY <1>8 DEF OnItsWay, IterationSafe
<1> QED
  BY <1>4, <1>5, <1>6, <1>7, <1>8 DEF Advance

\* What a callback leaves the iteration with, an index or not.
LEMMA CallbackFields ==
  ASSUME OnItsWay, Callback, iter # NULL, NEW it, it = iter'
  PROVE  LET old == IF Replaces(ret'[1]) THEN Rest ELSE iter.old
             deleted == old = NULL /\ iter.next \in ToSet(Walked) \ InTable'
         IN  /\ IsIter(it) /\ it.i = iter.i /\ it.next = iter.next /\ it.old = old
             /\ iter.did \subseteq it.did
             /\ deleted => "del" \in it.did
             /\ Replaces(ret'[1]) => "replaced" \in it.did
             /\ index' = NULL => "no_index" \in it.did
             /\ it.did = {} => it.due = iter.due \cap InTable'
             /\ it.done = iter.done \/ it.done = {}
<1> DEFINE replaced == ret'[1] \in {"init", "rehash", "destroy"}
           old == IF replaced THEN Rest ELSE iter.old
           deleted == old = NULL /\ iter.next \in ToSet(Walked) \ InTable'
           did == iter.did
                    \cup (IF deleted THEN {"del"} ELSE {})
                    \cup (IF replaced THEN {"replaced"} ELSE {})
                    \cup (IF index' = NULL THEN {"no_index"} ELSE {})
<1>1. PICK o : o = old
  OBVIOUS
<1>2. PICK what : what = did
  OBVIOUS
<1>3. PICK due, done : /\ due = (IF what = {} THEN iter.due \cap InTable' ELSE {})
                       /\ done = (IF what = {} THEN iter.done ELSE {})
  OBVIOUS
<1>4. it = [iter EXCEPT !.old = o, !.did = what, !.due = due, !.done = done]
  BY <1>1, <1>2, <1>3 DEF Callback
<1>5. IsIter(iter)
  BY DEF OnItsWay
<1>6. it = [i |-> iter.i, next |-> iter.next, old |-> o, due |-> due, done |-> done,
            did |-> what]
  BY <1>4, <1>5 DEF IsIter
<1>7. /\ IsIter(it) /\ it.i = iter.i /\ it.next = iter.next /\ it.old = o
      /\ it.did = what /\ it.due = due /\ it.done = done
  BY <1>6 DEF IsIter
<1>8. /\ iter.did \subseteq what /\ (deleted => "del" \in what)
      /\ (replaced => "replaced" \in what) /\ (index' = NULL => "no_index" \in what)
  <2> HIDE DEF replaced, deleted
  <2> QED
    BY <1>2
<1>9. replaced <=> Replaces(ret'[1])
  BY DEF Replaces
<1> HIDE DEF replaced
<1> QED
  BY <1>1, <1>3, <1>7, <1>8, <1>9

LEMMA CallbackKeeps ==
  ASSUME Inv, Inv', OnItsWay, IterationSafe, Callback, ~lost
  PROVE  OnItsWay' /\ IterationSafe'
<1>1. Next /\ ~lost'
  BY DEF Callback
<1>2. IterationSafe'
  BY <1>1 DEF IterationSafe
<1>3. CASE iter = NULL
  <2>1. iter' = NULL
    BY <1>3 DEF Callback
  <2> QED
    BY <1>2, <2>1 DEF OnItsWay
<1>4. CASE iter # NULL
  <2>1. PICK it : it = iter'
    OBVIOUS
  <2>2. /\ IsIter(it) /\ it.i = iter.i /\ it.next = iter.next
        /\ it.old = IF Replaces(ret'[1]) THEN Rest ELSE iter.old
        /\ iter.did \subseteq it.did
        /\ (it.old = NULL /\ iter.next \in ToSet(Walked) \ InTable') => "del" \in it.did
        /\ Replaces(ret'[1]) => "replaced" \in it.did
        /\ index' = NULL => "no_index" \in it.did
        /\ it.did = {} => it.due = iter.due \cap InTable'
        /\ it.done = iter.done \/ it.done = {}
    BY <1>4, <2>1, CallbackFields
  <2>3. ASSUME "no_index" \notin it.did
        PROVE  index' # NULL /\ Walks(it, index', index_size', heap', held')
    <3>1. index' # NULL /\ index # NULL /\ Walks(iter, index, index_size, heap, held)
      BY <1>4, <2>2, <2>3 DEF OnItsWay
    <3>2. KeepsApart /\ (Replaces(ret'[1]) \/ Tending)
      BY <1>1, <3>1, NextTends
    <3>3. PICK n, idx, h, hld : n = index_size /\ idx = index /\ h = heap /\ hld = held
      OBVIOUS
    <3>4. PICK m, jdx, g, hld2 :
            m = index_size' /\ jdx = index' /\ g = heap' /\ hld2 = held'
      OBVIOUS
    <3>5. \A a \in Addr : Apart(a, h, hld) => Apart(a, g, hld2)
      BY <3>2, <3>3, <3>4 DEF KeepsApart, Apart
    <3>6. it.i \in Nat /\ it.next \in Addr \cup {NULL} /\ it.done \in SUBSET Addr
      BY <2>2, <3>1 DEF Walks
    <3>7. /\ Walked \in Seq(Addr) /\ \A a \in ToSet(Walked) : a \in Addr /\ Apart(a, h, hld)
          /\ Rest \in Seq(Addr) /\ ToSet(Rest) \subseteq ToSet(Walked)
          /\ iter.next \in ToSet(Walked) => iter.next \in ToSet(Rest)
      <4>1. Walked \in Seq(Addr)
        BY <3>1, WalkedFacts
      <4>2. \A a \in ToSet(Walked) : a \in Addr
        BY <4>1, ElementOfSeq DEF ToSet
      <4>3. Rest \in Seq(Addr)
        BY <3>1, WalkedFacts
      <4>4. ASSUME iter.next \in ToSet(Walked) PROVE iter.next \in ToSet(Rest)
        <5>1. PICK s, t : s = Walked /\ t = Rest
          OBVIOUS
        <5>2. PICK j \in DOMAIN s : s[j] = iter.next /\ Tails(t, s, j)
          BY <3>1, <4>4, <5>1, WalkedFacts
        <5>3. t[1] = s[j] /\ 1 \in DOMAIN t
          <6>1. PICK k \in Nat : k = Len(s) /\ DOMAIN s = 1 .. k
            BY <4>1, <5>1, LenProperties
          <6>2. Len(t) = k - j + 1 /\ DOMAIN t = 1 .. Len(t)
            BY <4>3, <5>1, <5>2, <6>1, LenProperties DEF Tails
          <6>3. 1 \in DOMAIN t
            BY <5>2, <6>1, <6>2
          <6> QED
            BY <4>1, <4>3, <5>1, <5>2, <6>3, TailsFacts
        <5> QED
          BY <5>1, <5>2, <5>3 DEF ToSet
      <4> QED
        BY <3>1, <3>3, <4>1, <4>2, <4>3, <4>4, WalkedFacts
    <3>8. CASE Replaces(ret'[1])
      <4>1. it.old = Rest /\ it.old # NULL /\ "replaced" \in it.did
        BY <2>2, <3>7, <3>8, PointerAssumption
      <4>2. it.next # NULL /\ "del" \notin it.did => it.next \in ToSet(Walked)
        BY <2>2, <3>1 DEF Walks, Walked
      <4>3. Walks(it, jdx, m, g, hld2)
        BY <2>2, <3>5, <3>6, <3>7, <4>1, <4>2 DEF Walks
      <4> QED
        BY <3>1, <3>4, <4>3
    <3>9. CASE ~Replaces(ret'[1])
      <4>1. it.old = iter.old /\ m = n /\ Tends(idx, jdx, n, h, hld)
        BY <2>2, <3>2, <3>3, <3>4, <3>9 DEF Tending
      <4>2. CASE iter.old # NULL
        <5>1. Walked = iter.old
          BY <4>2 DEF Walked
        <5>2. /\ it.old \in Seq(Addr) /\ "replaced" \in it.did
              /\ \A a \in ToSet(it.old) : Apart(a, g, hld2)
              /\ it.next # NULL /\ "del" \notin it.did => it.next \in ToSet(it.old)
          BY <2>2, <3>1, <3>5, <3>7, <4>1, <4>2, <5>1 DEF Walks
        <5>3. Walks(it, jdx, m, g, hld2)
          BY <3>6, <4>1, <4>2, <5>2 DEF Walks
        <5> QED
          BY <3>1, <3>4, <5>3
      <4>3. CASE iter.old = NULL
        <5>1. /\ n \in Nat /\ Sound(idx, n, h)
              /\ \A a \in All(idx, n) : a \in Addr /\ Apart(a, h, hld)
          BY <3>1, <3>3, IndexFacts
        <5>2. Sound(jdx, n, g) /\ InTable' = All(jdx, n)
          <6>1. Members' = All(index', index_size') /\ Sound(index', index_size', heap')
            BY <3>1 DEF Inv, Shelved, Members
          <6>2. (InTable = Members)'
            <7>1. Shelved'
              BY DEF Inv
            <7>2. (ToSet(Stored) = Members)'
              BY <7>1, StoredFacts, PTL
            <7> QED
              BY <7>2 DEF InTable
          <6> QED
            BY <3>4, <4>1, <6>1, <6>2
        <5>3. \A a \in All(idx, n) : a \notin hld
          BY <5>1 DEF Apart
        <5>4. PICK i, next, due, done :
                i = iter.i /\ next = iter.next /\ due = iter.due /\ done = iter.done
          OBVIOUS
        <5>5. i \in 0 .. n - 1 /\ done \in SUBSET Addr
          BY <3>1, <3>3, <4>3, <5>1, <5>4 DEF Walks
        <5>6. Walked = Entries(idx[i])
          BY <3>3, <4>3, <5>4 DEF Walked
        <5>7. ASSUME next # NULL, "del" \notin it.did
              PROVE  next \in ToSet(Entries(idx[i])) /\ next \in ToSet(Entries(jdx[i]))
          <6>1. next \in ToSet(Walked)
            BY <2>2, <3>1, <3>3, <4>3, <5>4, <5>6, <5>7 DEF Walks
          <6>2. next \in All(jdx, n)
            BY <2>2, <4>1, <4>3, <5>2, <5>4, <5>7, <6>1
          <6> QED
            BY <4>1, <5>1, <5>2, <5>3, <5>5, <5>6, <6>1, <6>2, StaysIn
        <5>8. ASSUME it.did = {}
              PROVE  Course(it.due, it.done, it.i, it.next, jdx, n, g, hld2)
          <6>1. iter.did = {} /\ it.due = due \cap All(jdx, n)
            BY <2>2, <5>2, <5>4, <5>8
          <6>2. Course(due, done, i, next, idx, n, h, hld)
            BY <3>1, <3>3, <5>4, <6>1 DEF Walks
          <6>3. next # NULL => next \in ToSet(Entries(idx[i])) /\ next \in ToSet(Entries(jdx[i]))
            BY <5>7, <5>8
          <6>4. Course(due \cap All(jdx, n), done, i, next, jdx, n, g, hld2)
            BY <3>5, <4>1, <5>1, <5>2, <5>3, <5>5, <6>2, <6>3, CourseTended
          <6>5. Course(due \cap All(jdx, n), {}, i, next, jdx, n, g, hld2)
            BY <6>4 DEF Course
          <6> QED
            BY <2>2, <5>4, <6>1, <6>4, <6>5
        <5>9. Walks(it, jdx, n, g, hld2)
          BY <2>2, <3>6, <4>1, <4>3, <5>1, <5>4, <5>5, <5>7, <5>8 DEF Walks
        <5> QED
          BY <3>1, <3>4, <4>1, <5>9
      <4> QED
        BY <4>2, <4>3
    <3> QED
      BY <3>8, <3>9
  <2>4. OnItsWay'
    BY <2>1, <2>2, <2>3 DEF OnItsWay
  <2> QED
    BY <1>2, <2>4
<1> QED
  BY <1>3, <1>4

LEMMA IterInvariance == IterSpec => []IterInv
<1>1. IterInit => IterInv
  BY InitInv DEF IterInit, IterInv, OnItsWay, IterationSafe
<1>2. IterInv /\ [IterNext]_ivars => IterInv'
  <2> SUFFICES ASSUME IterInv, [IterNext]_ivars PROVE IterInv'
    OBVIOUS
  <2>1. Inv'
    <3>1. [Next]_vars
      BY DEF IterNext, Callback, Advance, Begin, ivars
    <3> QED
      BY <3>1, NextInv DEF IterInv
  <2>2. CASE IterNext
    BY <2>1, <2>2, BeginKeeps, AdvanceKeeps, CallbackKeeps DEF IterNext, IterInv
  <2>3. CASE UNCHANGED ivars
    BY <2>1, <2>3 DEF ivars, vars, IterInv, OnItsWay, IterationSafe
  <2> QED
    BY <2>1, <2>2, <2>3
<1> QED
  BY <1>1, <1>2, PTL DEF IterSpec

LEMMA OnItsWayOnce == IterInv => EachOnce
<1> SUFFICES ASSUME IterInv, iter # NULL, iter.did = {}
    PROVE  /\ iter.next = NULL /\ After(iter.i) = {} => iter.due = {}
           /\ iter.next \notin iter.done
  BY DEF EachOnce
<1>1. index # NULL /\ Walks(iter, index, index_size, heap, held) /\ iter.old = NULL
  BY DEF IterInv, OnItsWay, Walks
<1>2. PICK i, next, due, done :
        i = iter.i /\ next = iter.next /\ due = iter.due /\ done = iter.done
  OBVIOUS
<1>3. Course(due, done, i, next, index, index_size, heap, held)
  BY <1>1, <1>2 DEF Walks
<1>4. ASSUME next = NULL, After(i) = {}, NEW d \in due PROVE FALSE
  <2>1. Beyond(index, index_size, i, d)
    BY <1>3, <1>4 DEF Course, Ahead
  <2>2. PICK b \in i + 1 .. index_size - 1 : d \in ToSet(Entries(index[b]))
    BY <2>1 DEF Beyond
  <2>3. Entries(index[b]) # <<>>
    BY <2>2 DEF ToSet
  <2> QED
    BY <1>1, <1>4, <2>2, <2>3 DEF After
<1>5. ASSUME next \in done PROVE FALSE
  <2>1. next # NULL /\ done \in SUBSET Addr
    BY <1>1, <1>2, <1>5, NullAssumption DEF Walks
  <2>2. next \in ToSet(Walked)
    BY <1>2, <2>1, NextThere DEF IterInv
  <2>3. PICK s : s = Walked /\ s = Entries(index[i])
    BY <1>1, <1>2 DEF Walked
  <2>4. s \in Seq(Addr)
    BY <1>1, <2>3, WalkedFacts DEF IterInv
  <2>5. PICK j \in DOMAIN s : s[j] = next /\ j \in Nat
    BY <2>2, <2>3, <2>4, LenProperties DEF ToSet
  <2>6. Ordered(s, next, next)
    BY <2>5 DEF Ordered
  <2>7. Ahead(index, index_size, i, next, next)
    BY <2>1, <2>3, <2>6 DEF Ahead
  <2> QED
    BY <1>3, <1>5, <2>7 DEF Course
<1> QED
  BY <1>2, <1>4, <1>5

\* hash_table_iter survives callbacks that set, delete what they are given, or
\* rehash the table: it uses a freed node only after a callback has deleted the
\* entry that comes next, or left the table without an index.
THEOREM IterationSafeCorrect == IterSpec => []IterationSafe
<1>1. IterInv => IterationSafe
  BY DEF IterInv
<1> QED
  BY <1>1, IterInvariance, PTL

\* As long as callbacks leave the table its index and the entry that comes next,
\* hash_table_iter hands out every entry that stays, and none twice.
THEOREM EachOnceCorrect == IterSpec => []EachOnce
BY IterInvariance, OnItsWayOnce, PTL
=============================================================================
