------------------------------ MODULE SeqLemmas ------------------------------
(***************************************************************************)
(* Facts about the sequence operators the list modules are built from,     *)
(* about sums, division and digits, and induction over the naturals in the *)
(* only form the provers can use: a nonempty set of naturals has a least   *)
(* element.                                                                *)
(***************************************************************************)
EXTENDS Integers, FiniteSets, SequencesExt, SequenceTheorems,
        FiniteSetTheorems, WellFoundedInduction, TLAPS

\* Every nonempty set of naturals has an element none of its others is below.
LEMMA LeastNatural ==
  ASSUME NEW T \in SUBSET Nat, T # {}
  PROVE  \E n \in T : \A m \in T : n =< m
<1>1. PICK n \in T : \A m \in T : ~ (<<m, n>> \in OpToRel(<, Nat))
  BY NatLessThanWellFounded, WFMin
<1>2. \A m, k \in Nat : m < k => <<m, k>> \in OpToRel(<, Nat)
  BY Zenon DEF OpToRel
<1>3. \A m \in T : ~ (m < n)
  BY <1>1, <1>2, Zenon
<1> QED
  BY <1>3

LEMMA MinFacts ==
  ASSUME NEW T \in SUBSET Nat, T # {}
  PROVE  Min(T) \in T /\ \A k \in T : Min(T) =< k
BY LeastNatural DEF Min

\* Cons puts its element first and moves the others up by one.
LEMMA ConsFacts ==
  ASSUME NEW S, NEW s \in Seq(S), NEW e \in S
  PROVE  /\ Cons(e, s) \in Seq(S)
         /\ Len(Cons(e, s)) = Len(s) + 1
         /\ Cons(e, s)[1] = e
         /\ \A i \in 2 .. Len(s) + 1 : Cons(e, s)[i] = s[i - 1]
<1>1. <<e>> \in Seq(S) /\ Len(<<e>>) = 1 /\ <<e>>[1] = e
  OBVIOUS
<1>2. Len(s) \in Nat
  BY LenProperties
<1>3. /\ <<e>> \o s \in Seq(S)
      /\ Len(<<e>> \o s) = 1 + Len(s)
      /\ \A i \in 1 .. 1 + Len(s) :
           (<<e>> \o s)[i] = IF i <= 1 THEN <<e>>[i] ELSE s[i - 1]
  BY <1>1, ConcatProperties
<1> QED
  BY <1>1, <1>2, <1>3 DEF Cons

\* t is s with e put before it.
Prepends(t, e, s) ==
  Len(t) = Len(s) + 1 /\ t[1] = e /\ \A i \in 2 .. Len(s) + 1 : t[i] = s[i - 1]

LEMMA ConsPrepends ==
  ASSUME NEW S, NEW s \in Seq(S), NEW e \in S
  PROVE  Cons(e, s) \in Seq(S) /\ Prepends(Cons(e, s), e, s)
BY ConsFacts DEF Prepends

\* Front drops the last element and keeps the others in place.
LEMMA FrontFacts ==
  ASSUME NEW S, NEW s \in Seq(S), s # <<>>
  PROVE  /\ Front(s) \in Seq(S)
         /\ Len(Front(s)) = Len(s) - 1
         /\ \A i \in 1 .. Len(s) - 1 : Front(s)[i] = s[i]
<1>1. PICK n \in Nat : n = Len(s) /\ n >= 1
  BY EmptySeq
<1> DEFINE f == SubSeq(s, 1, n - 1)
<1>2. \A i \in 1 .. n - 1 : s[i] \in S
  BY <1>1, LenProperties
<1>3. /\ f \in Seq(S)
      /\ Len(f) = IF 1 <= n - 1 THEN (n - 1) - 1 + 1 ELSE 0
      /\ \A i \in 1 .. (n - 1) - 1 + 1 : f[i] = s[1 + i - 1]
  BY <1>2, SubSeqProperties
<1> HIDE DEF f
<1>4. Len(f) = n - 1 /\ \A i \in 1 .. n - 1 : f[i] = s[i]
  BY <1>1, <1>3
<1> QED
  BY <1>1, <1>3, <1>4, Zenon DEF Front, f

\* RemoveAt drops the n'th element and moves those after it down by one.
LEMMA RemoveAtFacts ==
  ASSUME NEW S, NEW s \in Seq(S), NEW n \in 1 .. Len(s)
  PROVE  /\ RemoveAt(s, n) \in Seq(S)
         /\ Len(RemoveAt(s, n)) = Len(s) - 1
         /\ \A i \in 1 .. Len(s) - 1 :
              RemoveAt(s, n)[i] = IF i < n THEN s[i] ELSE s[i + 1]
<1>1. Len(s) \in Nat /\ n \in Int /\ 1 <= n /\ n <= Len(s)
  BY LenProperties
<1>2. \A i \in 1 .. Len(s) : s[i] \in S
  BY LenProperties
<1> DEFINE a == SubSeq(s, 1, n - 1)
           b == SubSeq(s, n + 1, Len(s))
<1>3. /\ a \in Seq(S) /\ Len(a) = n - 1
      /\ \A i \in 1 .. n - 1 : a[i] = s[i]
  <2>1. \A i \in 1 .. n - 1 : s[i] \in S
    BY <1>1, <1>2
  <2>2. /\ a \in Seq(S)
        /\ Len(a) = IF 1 <= n - 1 THEN (n - 1) - 1 + 1 ELSE 0
        /\ \A i \in 1 .. (n - 1) - 1 + 1 : a[i] = s[1 + i - 1]
    BY <1>1, <2>1, SubSeqProperties
  <2> QED
    BY <1>1, <2>2
<1>4. /\ b \in Seq(S) /\ Len(b) = Len(s) - n
      /\ \A i \in 1 .. Len(s) - n : b[i] = s[n + i]
  <2>1. \A i \in n + 1 .. Len(s) : s[i] \in S
    BY <1>1, <1>2
  <2>2. /\ b \in Seq(S)
        /\ Len(b) = IF n + 1 <= Len(s) THEN Len(s) - (n + 1) + 1 ELSE 0
        /\ \A i \in 1 .. Len(s) - (n + 1) + 1 : b[i] = s[n + 1 + i - 1]
    BY <1>1, <2>1, SubSeqProperties
  <2> QED
    BY <1>1, <2>2
<1>5. /\ a \o b \in Seq(S)
      /\ Len(a \o b) = Len(a) + Len(b)
      /\ \A i \in 1 .. Len(a) + Len(b) :
           (a \o b)[i] = IF i <= Len(a) THEN a[i] ELSE b[i - Len(a)]
  BY <1>3, <1>4, ConcatProperties
<1>6. RemoveAt(s, n) = a \o b
  BY DEF RemoveAt
<1> HIDE DEF a, b
<1>7. ASSUME NEW i \in 1 .. Len(s) - 1
      PROVE  (a \o b)[i] = IF i < n THEN s[i] ELSE s[i + 1]
  <2>1. CASE i < n
    BY <2>1, <1>1, <1>3, <1>4, <1>5
  <2>2. CASE i >= n
    <3>1. (a \o b)[i] = b[i - (n - 1)] /\ i - (n - 1) \in 1 .. Len(s) - n
      BY <2>2, <1>1, <1>3, <1>4, <1>5
    <3> QED
      BY <3>1, <2>2, <1>1, <1>4
  <2>3. i < n \/ i >= n
    BY <1>1
  <2> QED
    BY <2>1, <2>2, <2>3
<1> QED
  BY <1>1, <1>3, <1>4, <1>5, <1>6, <1>7

\* A sequence that repeats no element of a finite set is no longer than the
\* set is large.
LEMMA InjectiveLen ==
  ASSUME NEW S, IsFiniteSet(S), NEW s \in Seq(S), IsInjective(s)
  PROVE  Len(s) \in 0 .. Cardinality(S)
<1>1. Len(s) \in Nat /\ s \in [1 .. Len(s) -> S]
  BY LenProperties
<1>2. s \in Injection(1 .. Len(s), S)
  BY <1>1 DEF Injection
<1>3. Cardinality(1 .. Len(s)) <= Cardinality(S)
  BY <1>2, FS_Injection
<1>4. Cardinality(1 .. Len(s)) = IF 1 > Len(s) THEN 0 ELSE Len(s) - 1 + 1
  BY <1>1, FS_Interval
<1>5. Cardinality(S) \in Nat
  BY FS_CardinalityType
<1> QED
  BY <1>1, <1>3, <1>4, <1>5

\* What holds of 0, and of i if it holds of i - 1, holds of every number up to n.
LEMMA UpTo ==
  ASSUME NEW n \in Nat, NEW T, 0 \in T,
         \A i \in 1 .. n : i - 1 \in T => i \in T
  PROVE  \A i \in 0 .. n : i \in T
<1> DEFINE bad == {i \in 0 .. n : i \notin T}
<1>1. SUFFICES ASSUME bad # {} PROVE FALSE
  OBVIOUS
<1>2. bad \in SUBSET Nat
  OBVIOUS
<1>3. PICK i \in bad : \A j \in bad : i =< j
  BY <1>1, <1>2, LeastNatural
<1>4. i \in 1 .. n
  BY <1>3
<1>5. i - 1 \in 0 .. n /\ i - 1 \notin bad
  BY <1>3, <1>4
<1> QED
  BY <1>3, <1>4, <1>5

\* f is the sequence of the values, all in A, of a loop that starts from start
\* and n times computes a value from the one before.
Computes(f, n, A, start, step) ==
  /\ f \in [0 .. n -> A]
  /\ f[0] = start
  /\ \A i \in 1 .. n : f[i] = step[i][f[i - 1]]

\* A loop that runs n times and computes each of its values from the one before
\* has a sequence of values.
LEMMA LoopExists ==
  ASSUME NEW n \in Nat, NEW A, NEW start \in A, NEW step,
         \A i \in 1 .. n : \A a \in A : step[i][a] \in A
  PROVE  \E f : Computes(f, n, A, start, step)
<1> DEFINE run(f, m) == Computes(f, m, A, start, step)
           T == {m \in 0 .. n : \E f : run(f, m)}
<1>1. 0 \in T
  <2>1. run([i \in 0 .. 0 |-> start], 0)
    BY DEF Computes
  <2> HIDE DEF run
  <2>2. 0 \in 0 .. n
    OBVIOUS
  <2> QED
    BY <2>1, <2>2, Zenon
<1>2. ASSUME NEW m \in 1 .. n, m - 1 \in T PROVE m \in T
  <2>1. PICK f : run(f, m - 1)
    BY <1>2
  <2> DEFINE g == [i \in 0 .. m |-> IF i < m THEN f[i] ELSE step[m][f[m - 1]]]
  <2>2. f[m - 1] \in A
    BY <2>1 DEF Computes
  <2>3. step[m][f[m - 1]] \in A
    BY <2>2
  <2>4. \A i \in 0 .. m : g[i] \in A
    BY <2>1, <2>3 DEF Computes
  <2>5. \A i \in 1 .. m : g[i] = step[i][g[i - 1]]
    <3> TAKE i \in 1 .. m
    <3>1. CASE i < m
      <4>1. i \in 1 .. m - 1 /\ g[i] = f[i] /\ g[i - 1] = f[i - 1]
        BY <3>1
      <4> QED
        BY <2>1, <4>1 DEF Computes
    <3>2. CASE i = m
      <4>1. g[i] = step[m][f[m - 1]] /\ g[i - 1] = f[m - 1]
        BY <3>2
      <4> QED
        BY <3>2, <4>1
    <3> QED
      BY <3>1, <3>2
  <2>6. g[0] = start /\ g \in [0 .. m -> A]
    BY <2>1, <2>4 DEF Computes
  <2>7. run(g, m)
    BY <2>5, <2>6 DEF Computes
  <2>8. m \in 0 .. n
    OBVIOUS
  <2> HIDE DEF run, g
  <2> QED
    BY <2>7, <2>8, Zenon
<1>3. n \in T
  <2> HIDE DEF T
  <2>1. n \in 0 .. n
    OBVIOUS
  <2> QED
    BY <1>1, <1>2, <2>1, UpTo
<1> QED
  BY <1>3

\* A sequence that repeats nothing is as long as the set of its elements is
\* large.
LEMMA InjectiveCount ==
  ASSUME NEW S, NEW s \in Seq(S), IsInjective(s)
  PROVE  IsFiniteSet(ToSet(s)) /\ Len(s) = Cardinality(ToSet(s))
<1>1. Len(s) \in Nat /\ s \in [1 .. Len(s) -> ToSet(s)] /\ DOMAIN s = 1 .. Len(s)
  BY LenProperties DEF ToSet
<1>2. s \in Surjection(1 .. Len(s), ToSet(s))
  BY <1>1 DEF Surjection, ToSet
<1>3. s \in Injection(1 .. Len(s), ToSet(s))
  BY <1>1 DEF Injection
<1>4. IsFiniteSet(1 .. Len(s))
      /\ Cardinality(1 .. Len(s)) = IF 1 > Len(s) THEN 0 ELSE Len(s) - 1 + 1
  BY <1>1, FS_Interval
<1>5. IsFiniteSet(ToSet(s)) /\ Cardinality(ToSet(s)) = Cardinality(1 .. Len(s))
  BY <1>2, <1>3, <1>4, FS_Surjection
<1> QED
  BY <1>1, <1>4, <1>5

\* Joining two sequences joins their elements, and repeats nothing if neither
\* does and they share nothing.
LEMMA JoinFacts ==
  ASSUME NEW S, NEW s \in Seq(S), NEW t \in Seq(S)
  PROVE  /\ s \o t \in Seq(S)
         /\ ToSet(s \o t) = ToSet(s) \cup ToSet(t)
         /\ IsInjective(s) /\ IsInjective(t) /\ ToSet(s) \cap ToSet(t) = {}
              => IsInjective(s \o t)
<1> DEFINE u == s \o t
<1>1. PICK m \in Nat : m = Len(s) /\ DOMAIN s = 1 .. m
  BY LenProperties
<1>2. PICK n \in Nat : n = Len(t) /\ DOMAIN t = 1 .. n
  BY LenProperties
<1>3. /\ u \in Seq(S) /\ DOMAIN u = 1 .. m + n
      /\ \A i \in 1 .. m + n : u[i] = IF i =< m THEN s[i] ELSE t[i - m]
  BY <1>1, <1>2, LenProperties, ConcatProperties
<1> HIDE DEF u
<1>4. \A i \in 1 .. m + n : i =< m => i \in 1 .. m
  BY <1>1
<1>5. \A i \in 1 .. m + n : ~(i =< m) => i - m \in 1 .. n
  BY <1>1, <1>2
<1>6. \A i \in 1 .. m + n : u[i] \in ToSet(s) \cup ToSet(t)
  BY <1>1, <1>2, <1>3, <1>4, <1>5 DEF ToSet
<1>7. \A i \in 1 .. m : i \in 1 .. m + n /\ u[i] = s[i]
  BY <1>1, <1>2, <1>3
<1>8. \A j \in 1 .. n : j + m \in 1 .. m + n /\ u[j + m] = t[j]
  <2> TAKE j \in 1 .. n
  <2>1. j + m \in 1 .. m + n /\ ~(j + m =< m) /\ j + m - m = j
    BY <1>1, <1>2
  <2> QED
    BY <1>3, <2>1
<1>9. ToSet(u) = ToSet(s) \cup ToSet(t)
  <2>1. ToSet(u) \subseteq ToSet(s) \cup ToSet(t)
    BY <1>3, <1>6 DEF ToSet
  <2>2. ToSet(s) \subseteq ToSet(u)
    BY <1>1, <1>3, <1>7 DEF ToSet
  <2>3. ToSet(t) \subseteq ToSet(u)
    BY <1>2, <1>3, <1>8 DEF ToSet
  <2> QED
    BY <2>1, <2>2, <2>3
<1>10. ASSUME IsInjective(s), IsInjective(t), ToSet(s) \cap ToSet(t) = {}
       PROVE  IsInjective(u)
  <2>1. ASSUME NEW i \in 1 .. m + n, NEW j \in 1 .. m + n, u[i] = u[j]
        PROVE  i = j
    <3>1. CASE i =< m /\ j =< m
      <4>1. i \in 1 .. m /\ j \in 1 .. m /\ s[i] = s[j]
        BY <1>3, <1>4, <2>1, <3>1
      <4> QED
        BY <1>1, <1>10, <4>1 DEF IsInjective
    <3>2. CASE ~(i =< m) /\ ~(j =< m)
      <4>1. i - m \in 1 .. n /\ j - m \in 1 .. n /\ t[i - m] = t[j - m]
        BY <1>3, <1>5, <2>1, <3>2
      <4>2. i - m = j - m
        BY <1>2, <1>10, <4>1 DEF IsInjective
      <4> QED
        BY <1>1, <4>2
    <3>3. CASE i =< m /\ ~(j =< m)
      <4>1. i \in 1 .. m /\ j - m \in 1 .. n /\ s[i] = t[j - m]
        BY <1>3, <1>4, <1>5, <2>1, <3>3
      <4>2. s[i] \in ToSet(s) /\ t[j - m] \in ToSet(t)
        BY <1>1, <1>2, <4>1 DEF ToSet
      <4> QED
        BY <1>10, <4>1, <4>2
    <3>4. CASE ~(i =< m) /\ j =< m
      <4>1. j \in 1 .. m /\ i - m \in 1 .. n /\ s[j] = t[i - m]
        BY <1>3, <1>4, <1>5, <2>1, <3>4
      <4>2. s[j] \in ToSet(s) /\ t[i - m] \in ToSet(t)
        BY <1>1, <1>2, <4>1 DEF ToSet
      <4> QED
        BY <1>10, <4>1, <4>2
    <3> QED
      BY <3>1, <3>2, <3>3, <3>4
  <2> QED
    BY <1>3, <2>1 DEF IsInjective
<1> QED
  BY <1>3, <1>9, <1>10 DEF u

\* Appending an element adds it, and repeats nothing if it is new.
LEMMA AppendFacts ==
  ASSUME NEW S, NEW s \in Seq(S), NEW e \in S
  PROVE  /\ Append(s, e) \in Seq(S)
         /\ ToSet(Append(s, e)) = ToSet(s) \cup {e}
         /\ IsInjective(s) /\ e \notin ToSet(s) => IsInjective(Append(s, e))
<1>1. <<e>> \in Seq(S) /\ ToSet(<<e>>) = {e} /\ IsInjective(<<e>>)
  BY DEF ToSet, IsInjective
<1>2. Append(s, e) = s \o <<e>>
  BY AppendIsConcat
<1>3. PICK u : u = <<e>>
  OBVIOUS
<1>4. u \in Seq(S) /\ ToSet(u) = {e} /\ IsInjective(u) /\ Append(s, e) = s \o u
  BY <1>1, <1>2, <1>3
<1>5. /\ s \o u \in Seq(S) /\ ToSet(s \o u) = ToSet(s) \cup ToSet(u)
      /\ IsInjective(s) /\ ToSet(s) \cap ToSet(u) = {} => IsInjective(s \o u)
  BY <1>4, JoinFacts
<1> QED
  BY <1>4, <1>5, Zenon

\* Flattening n sequences that repeat nothing and share nothing gives a sequence
\* of all their elements that repeats nothing.
LEMMA FlattenFacts ==
  ASSUME NEW S, NEW n \in Nat, NEW f \in [1 .. n -> Seq(S)],
         \A i \in 1 .. n : IsInjective(f[i]),
         \A i, j \in 1 .. n : i # j => ToSet(f[i]) \cap ToSet(f[j]) = {}
  PROVE  /\ FlattenSeq(f) \in Seq(S)
         /\ ToSet(FlattenSeq(f)) = UNION {ToSet(f[i]) : i \in 1 .. n}
         /\ IsInjective(FlattenSeq(f))
<1>1. f \in Seq(Seq(S)) /\ Len(f) = n
  OBVIOUS
<1>2. CASE n = 0
  <2>1. f = <<>> /\ FlattenSeq(f) = <<>>
    BY <1>1, <1>2 DEF FlattenSeq
  <2>2. ToSet(<<>>) = {} /\ IsInjective(<<>>) /\ <<>> \in Seq(S)
    BY DEF ToSet, IsInjective
  <2>3. UNION {ToSet(f[i]) : i \in 1 .. n} = {}
    BY <1>2
  <2> QED
    BY <2>1, <2>2, <2>3, Zenon
<1>3. CASE n # 0
  <2> DEFINE loop(g) == [i \in 1 .. n |-> IF i = 1 THEN f[i] ELSE g[i - 1] \o f[i]]
             flat == CHOOSE g : g = loop(g)
  <2>1. flat = loop(flat)
    <3> DEFINE step == [i \in 1 .. n |-> [s \in Seq(S) |-> s \o f[i]]]
    <3>1. <<>> \in Seq(S) /\ \A i \in 1 .. n : \A s \in Seq(S) : step[i][s] \in Seq(S)
      BY ConcatProperties
    <3>2. PICK h : Computes(h, n, Seq(S), <<>>, step)
      <4> HIDE DEF step
      <4>1. PICK A : A = Seq(S)
        OBVIOUS
      <4>2. PICK start : start = <<>>
        OBVIOUS
      <4>3. PICK st : st = step
        OBVIOUS
      <4>4. start \in A /\ \A i \in 1 .. n : \A a \in A : st[i][a] \in A
        BY <3>1, <4>1, <4>2, <4>3, Zenon
      <4>5. \E h : Computes(h, n, A, start, st)
        BY <4>4, LoopExists
      <4> QED
        BY <4>1, <4>2, <4>3, <4>5, Zenon
    <3>3. \A i \in 1 .. n : h[i] = h[i - 1] \o f[i]
      <4> TAKE i \in 1 .. n
      <4>1. h[i - 1] \in Seq(S)
        BY <3>2 DEF Computes
      <4>2. step[i][h[i - 1]] = h[i - 1] \o f[i]
        BY <4>1
      <4> HIDE DEF step
      <4> QED
        BY <3>2, <4>2, Zenon DEF Computes
    <3>4. 1 \in 1 .. n /\ h[1] = f[1]
      <4>1. 1 \in 1 .. n /\ h[1] = <<>> \o f[1] /\ f[1] \in Seq(S)
        <5>1. 1 \in 1 .. n /\ 1 - 1 = 0 /\ h[1 - 1] = h[0]
          BY <1>3
        <5> HIDE DEF step
        <5> QED
          BY <3>2, <3>3, <5>1, Zenon DEF Computes
      <4> QED
        BY <4>1, ConcatEmptySeq
    <3> DEFINE g == [i \in 1 .. n |-> h[i]]
    <3>5. ASSUME NEW i \in 1 .. n PROVE g[i] = loop(g)[i]
      <4>1. CASE i = 1
        BY <3>4, <4>1
      <4>2. CASE i # 1
        <5>1. i - 1 \in 1 .. n
          BY <4>2
        <5> QED
          BY <3>3, <4>2, <5>1
      <4> QED
        BY <4>1, <4>2
    <3>6. g = loop(g)
      BY <3>5
    <3> HIDE DEF g, loop
    <3> QED
      BY <3>6
  <2>2. FlattenSeq(f) = flat[n]
    BY <1>1, <1>3 DEF FlattenSeq
  <2> HIDE DEF flat
  <2> DEFINE good(i) == /\ flat[i] \in Seq(S)
                        /\ \A a : a \in ToSet(flat[i])
                                    <=> \E j \in 1 .. i : a \in ToSet(f[j])
                        /\ IsInjective(flat[i])
             T == {i \in 0 .. n : i = 0 \/ good(i)}
  <2>3. 0 \in T
    OBVIOUS
  <2>4. ASSUME NEW i \in 1 .. n, i - 1 \in T PROVE i \in T
    <3>1. CASE i = 1
      <4>1. flat[1] = f[1] /\ 1 \in 1 .. n /\ 1 .. 1 = {1}
        BY <2>1, <3>1
      <4>2. good(1)
        BY <4>1
      <4> QED
        BY <3>1, <4>2
    <3>2. CASE i # 1
      <4>1. good(i - 1) /\ i - 1 \in 1 .. n /\ flat[i] = flat[i - 1] \o f[i]
        <5>1. i - 1 \in 1 .. n /\ i - 1 # 0
          BY <3>2
        <5> HIDE DEF good
        <5> QED
          BY <2>1, <2>4, <3>2, <5>1
      <4>2. ToSet(flat[i - 1]) \cap ToSet(f[i]) = {}
        <5>1. ASSUME NEW a \in ToSet(flat[i - 1]), a \in ToSet(f[i]) PROVE FALSE
          <6>1. PICK j \in 1 .. i - 1 : a \in ToSet(f[j])
            BY <4>1, <5>1
          <6>2. j \in 1 .. n /\ j # i
            BY <6>1
          <6> QED
            BY <5>1, <6>1, <6>2
        <5> QED
          BY <5>1
      <4>3. /\ flat[i] \in Seq(S)
            /\ ToSet(flat[i]) = ToSet(flat[i - 1]) \cup ToSet(f[i])
            /\ IsInjective(flat[i])
        <5>1. flat[i - 1] \in Seq(S) /\ f[i] \in Seq(S)
              /\ IsInjective(flat[i - 1]) /\ IsInjective(f[i])
          BY <4>1
        <5> QED
          BY <4>1, <4>2, <5>1, JoinFacts
      <4>4. \A a : a \in ToSet(flat[i]) <=> \E j \in 1 .. i : a \in ToSet(f[j])
        <5>1. \A j : j \in 1 .. i <=> j \in 1 .. i - 1 \/ j = i
          BY <4>1
        <5> QED
          BY <4>1, <4>3, <5>1, Zenon
      <4>5. good(i)
        BY <4>3, <4>4
      <4> HIDE DEF good
      <4> QED
        BY <4>5
    <3> QED
      BY <3>1, <3>2
  <2>5. n \in T
    <3> HIDE DEF T
    <3>1. n \in 0 .. n
      OBVIOUS
    <3> QED
      BY <2>3, <2>4, <3>1, UpTo
  <2>6. good(n)
    BY <1>3, <2>5
  <2>7. ToSet(flat[n]) = UNION {ToSet(f[i]) : i \in 1 .. n}
    BY <2>6
  <2> QED
    BY <2>2, <2>6, <2>7
<1> QED
  BY <1>2, <1>3
-----------------------------------------------------------------------------
(* What inserting, removing and cutting off do, and that nothing else does. *)

\* t is s with e put in as its k'th element, with its k'th element taken out,
\* and cut off after n.
Inserts(t, s, k, e) ==
  /\ Len(t) = Len(s) + 1
  /\ \A i \in 1 .. Len(s) + 1 :
       t[i] = IF i < k THEN s[i] ELSE IF i = k THEN e ELSE s[i - 1]
Removes(t, s, k) ==
  /\ Len(t) = Len(s) - 1
  /\ \A i \in 1 .. Len(s) - 1 : t[i] = IF i < k THEN s[i] ELSE s[i + 1]
Cuts(t, s, n) == Len(t) = n /\ \A i \in 1 .. n : t[i] = s[i]

LEMMA SubSeqCuts ==
  ASSUME NEW S, NEW s \in Seq(S), NEW n \in 0 .. Len(s)
  PROVE  SubSeq(s, 1, n) \in Seq(S) /\ Cuts(SubSeq(s, 1, n), s, n)
<1>1. PICK m \in Nat : m = Len(s)
  BY LenProperties
<1>2. \A i \in 1 .. n : s[i] \in S
  BY <1>1, LenProperties
<1> DEFINE f == SubSeq(s, 1, n)
<1>3. /\ f \in Seq(S)
      /\ Len(f) = IF 1 <= n THEN n - 1 + 1 ELSE 0
      /\ \A i \in 1 .. n - 1 + 1 : f[i] = s[1 + i - 1]
  BY <1>1, <1>2, SubSeqProperties
<1> HIDE DEF f
<1>4. Len(f) = n /\ \A i \in 1 .. n : f[i] = s[i]
  BY <1>1, <1>3
<1> QED
  BY <1>3, <1>4 DEF Cuts, f

LEMMA CutsOnce ==
  ASSUME NEW S, NEW s, NEW n \in Nat, NEW t \in Seq(S), NEW u \in Seq(S),
         Cuts(t, s, n), Cuts(u, s, n)
  PROVE  t = u
BY SeqEqual DEF Cuts

LEMMA InsertAtPlaces ==
  ASSUME NEW S, NEW s \in Seq(S), NEW e \in S, NEW k \in 1 .. Len(s) + 1
  PROVE  InsertAt(s, k, e) \in Seq(S) /\ Inserts(InsertAt(s, k, e), s, k, e)
<1>1. PICK m \in Nat : m = Len(s)
  BY LenProperties
<1>2. \A i \in 1 .. m : s[i] \in S
  BY <1>1, LenProperties
<1> DEFINE a == SubSeq(s, 1, k - 1)
           b == SubSeq(s, k, m)
           c == <<e>>
<1>3. a \in Seq(S) /\ Len(a) = k - 1 /\ \A i \in 1 .. k - 1 : a[i] = s[i]
  <2>1. k - 1 \in 0 .. Len(s)
    BY <1>1
  <2> QED
    BY <2>1, SubSeqCuts DEF Cuts
<1>4. /\ b \in Seq(S) /\ Len(b) = m - k + 1
      /\ \A i \in 1 .. m - k + 1 : b[i] = s[k + i - 1]
  <2>1. \A i \in k .. m : s[i] \in S
    BY <1>1, <1>2
  <2>2. /\ b \in Seq(S)
        /\ Len(b) = IF k <= m THEN m - k + 1 ELSE 0
        /\ \A i \in 1 .. m - k + 1 : b[i] = s[k + i - 1]
    BY <1>1, <2>1, SubSeqProperties
  <2> QED
    BY <1>1, <2>2
<1>5. c \in Seq(S) /\ Len(c) = 1 /\ c[1] = e
  OBVIOUS
<1> HIDE DEF a, b, c
<1>6. /\ a \o c \in Seq(S) /\ Len(a \o c) = k
      /\ \A i \in 1 .. k : (a \o c)[i] = IF i < k THEN s[i] ELSE e
  <2>1. /\ a \o c \in Seq(S) /\ Len(a \o c) = Len(a) + Len(c)
        /\ \A i \in 1 .. Len(a) + Len(c) :
             (a \o c)[i] = IF i <= Len(a) THEN a[i] ELSE c[i - Len(a)]
    BY <1>3, <1>5, ConcatProperties
  <2> QED
    BY <1>1, <1>3, <1>5, <2>1
<1> DEFINE d == a \o c
<1>7. d \in Seq(S) /\ Len(d) = k /\ \A i \in 1 .. k : d[i] = IF i < k THEN s[i] ELSE e
  BY <1>6
<1>8. InsertAt(s, k, e) = d \o b
  BY <1>1, Zenon DEF InsertAt, a, b, c
<1> HIDE DEF d
<1>9. PICK t : t = d \o b
  OBVIOUS
<1>10. /\ t \in Seq(S) /\ Len(t) = m + 1
       /\ \A i \in 1 .. m + 1 : t[i] = IF i <= k THEN d[i] ELSE b[i - k]
  <2>1. /\ t \in Seq(S) /\ Len(t) = Len(d) + Len(b)
        /\ \A i \in 1 .. Len(d) + Len(b) :
             t[i] = IF i <= Len(d) THEN d[i] ELSE b[i - Len(d)]
    BY <1>4, <1>7, <1>9, ConcatProperties
  <2> QED
    BY <1>1, <1>4, <1>7, <2>1
<1>11. ASSUME NEW i \in 1 .. m + 1
       PROVE  t[i] = IF i < k THEN s[i] ELSE IF i = k THEN e ELSE s[i - 1]
  <2>1. CASE i <= k
    BY <1>1, <1>7, <1>10, <2>1
  <2>2. CASE ~(i <= k)
    <3>1. i - k \in 1 .. m - k + 1 /\ k + (i - k) - 1 = i - 1
      BY <1>1, <2>2
    <3> QED
      BY <1>1, <1>4, <1>10, <2>2, <3>1, SMTT(30)
  <2> QED
    BY <2>1, <2>2
<1> QED
  BY <1>1, <1>8, <1>9, <1>10, <1>11 DEF Inserts

LEMMA InsertsOnce ==
  ASSUME NEW S, NEW s \in Seq(S), NEW k, NEW e, NEW t \in Seq(S), NEW u \in Seq(S),
         Inserts(t, s, k, e), Inserts(u, s, k, e)
  PROVE  t = u
BY SeqEqual DEF Inserts

\* Inserting first is Cons and inserting last is Append.
LEMMA InsertsFirst ==
  ASSUME NEW S, NEW s \in Seq(S), NEW e \in S, NEW t \in Seq(S), Inserts(t, s, 1, e)
  PROVE  t = Cons(e, s)
<1>1. PICK u : u = Cons(e, s)
  OBVIOUS
<1>2. u \in Seq(S) /\ Prepends(u, e, s)
  BY <1>1, ConsPrepends
<1>3. PICK n \in Nat : n = Len(s)
  BY LenProperties
<1>4. Inserts(u, s, 1, e)
  BY <1>2, <1>3 DEF Prepends, Inserts
<1> QED
  BY <1>1, <1>2, <1>4, InsertsOnce

LEMMA InsertsLast ==
  ASSUME NEW S, NEW s \in Seq(S), NEW e \in S, NEW t \in Seq(S),
         Inserts(t, s, Len(s) + 1, e)
  PROVE  t = Append(s, e)
<1>1. PICK u : u = Append(s, e)
  OBVIOUS
<1>2. PICK n \in Nat : n = Len(s)
  BY LenProperties
<1>3. /\ u \in Seq(S) /\ Len(u) = n + 1 /\ u[n + 1] = e
      /\ \A i \in 1 .. n : u[i] = s[i]
  BY <1>1, <1>2, AppendProperties
<1>4. Inserts(u, s, n + 1, e)
  BY <1>2, <1>3 DEF Inserts
<1>5. Inserts(t, s, n + 1, e)
  BY <1>2
<1>6. t = u
  BY <1>3, <1>4, <1>5, SeqEqual DEF Inserts
<1> QED
  BY <1>1, <1>6

\* Taking the first element out leaves the tail, taking the last the front.
LEMMA RemovesIsRemoveAt ==
  ASSUME NEW S, NEW s \in Seq(S), NEW k \in 1 .. Len(s), NEW t \in Seq(S),
         Removes(t, s, k)
  PROVE  t = RemoveAt(s, k)
<1>1. PICK u : u = RemoveAt(s, k)
  OBVIOUS
<1>2. u \in Seq(S) /\ Removes(u, s, k)
  BY <1>1, RemoveAtFacts DEF Removes
<1>3. t = u
  BY <1>2, SeqEqual DEF Removes
<1> QED
  BY <1>1, <1>3

LEMMA RemovesFirst ==
  ASSUME NEW S, NEW s \in Seq(S), s # <<>>, NEW t \in Seq(S), Removes(t, s, 1)
  PROVE  t = Tail(s)
<1>1. PICK n \in Nat : n = Len(s) /\ n >= 1
  BY EmptySeq, LenProperties
<1>2. PICK u : u = Tail(s)
  OBVIOUS
<1>3. u \in Seq(S) /\ Len(u) = n - 1 /\ \A i \in 1 .. n - 1 : u[i] = s[i + 1]
  BY <1>1, <1>2, HeadTailProperties
<1>4. \A i \in 1 .. n - 1 : t[i] = u[i]
  BY <1>1, <1>3 DEF Removes
<1>5. t = u
  BY <1>1, <1>3, <1>4, SeqEqual DEF Removes
<1> QED
  BY <1>2, <1>5

LEMMA RemovesLast ==
  ASSUME NEW S, NEW s \in Seq(S), s # <<>>, NEW t \in Seq(S), Removes(t, s, Len(s))
  PROVE  t = Front(s)
<1>1. PICK n \in Nat : n = Len(s) /\ n >= 1
  BY EmptySeq, LenProperties
<1>2. PICK u : u = Front(s)
  OBVIOUS
<1>3. u \in Seq(S) /\ Len(u) = n - 1 /\ \A i \in 1 .. n - 1 : u[i] = s[i]
  BY <1>1, <1>2, FrontFacts
<1>4. \A i \in 1 .. n - 1 : t[i] = u[i]
  BY <1>1, <1>3 DEF Removes
<1>5. t = u
  BY <1>1, <1>3, <1>4, SeqEqual DEF Removes
<1> QED
  BY <1>2, <1>5
-----------------------------------------------------------------------------
(* Sums: SumFunctionOnSet adds what it chooses first to the sum of the rest *)

One(s) == CHOOSE x \in s : TRUE

\* total has the sum of f over every part of S, as the fold computes it.
Sums(total, f, S) ==
  total = [s \in SUBSET S |->
            IF s = {} THEN 0 ELSE f[One(s)] + total[s \ {One(s)}]]

\* What holds of a finite set when it holds of its smaller parts holds of it.
LEMMA SmallestPart ==
  ASSUME NEW S, IsFiniteSet(S), NEW Bad \in SUBSET (SUBSET S), Bad # {}
  PROVE  \E s \in Bad : \A x \in s : s \ {x} \notin Bad
<1>1. \A s \in Bad : IsFiniteSet(s) /\ Cardinality(s) \in Nat
  BY FS_Subset, FS_CardinalityType
<1> DEFINE sizes == {Cardinality(s) : s \in Bad}
<1>2. sizes \in SUBSET Nat /\ sizes # {}
  BY <1>1
<1>3. PICK n \in sizes : \A m \in sizes : n =< m
  BY <1>2, LeastNatural
<1>4. PICK s \in Bad : Cardinality(s) = n
  BY <1>3
<1>5. ASSUME NEW x \in s, s \ {x} \in Bad PROVE FALSE
  <2>1. Cardinality(s \ {x}) = Cardinality(s) - 1
    BY <1>1, FS_RemoveElement
  <2> QED
    BY <1>1, <1>3, <1>4, <1>5, <2>1
<1> QED
  BY <1>5

\* A finite set of naturals, named by f, has its sums.
LEMMA SumsExist ==
  ASSUME NEW S, IsFiniteSet(S), NEW f, \A x \in S : f[x] \in Nat
  PROVE  \E total \in [SUBSET S -> Nat] : Sums(total, f, S)
<1> DEFINE Part(m) == {s \in SUBSET S : Cardinality(s) =< m}
           Step(g, s) == IF s = {} THEN 0 ELSE f[One(s)] + g[s \ {One(s)}]
           Has(m) == \E g \in [Part(m) -> Nat] : \A s \in Part(m) : g[s] = Step(g, s)
           T == {m \in 0 .. Cardinality(S) : Has(m)}
<1>1. Cardinality(S) \in Nat
  BY FS_CardinalityType
<1>2. \A s \in SUBSET S : Cardinality(s) \in 0 .. Cardinality(S) /\ IsFiniteSet(s)
  BY <1>1, FS_Subset, FS_CardinalityType
<1>3. \A s \in SUBSET S : s # {} =>
        /\ One(s) \in s /\ f[One(s)] \in Nat /\ s \ {One(s)} \in SUBSET S
        /\ Cardinality(s \ {One(s)}) = Cardinality(s) - 1 /\ Cardinality(s) # 0
  BY <1>2, FS_RemoveElement, FS_EmptySet DEF One
<1>4. 0 \in T
  <2>1. \A s \in Part(0) : s = {}
    BY <1>2, FS_EmptySet
  <2> DEFINE g == [s \in Part(0) |-> 0]
  <2>2. g \in [Part(0) -> Nat] /\ \A s \in Part(0) : g[s] = Step(g, s)
    BY <2>1
  <2>3. 0 \in 0 .. Cardinality(S)
    BY <1>1
  <2> HIDE DEF g, Part, Step
  <2> QED
    BY <2>2, <2>3
<1>5. ASSUME NEW m \in 1 .. Cardinality(S), m - 1 \in T PROVE m \in T
  <2>1. PICK g \in [Part(m - 1) -> Nat] : \A s \in Part(m - 1) : g[s] = Step(g, s)
    BY <1>5
  <2> DEFINE h == [s \in Part(m) |-> IF s \in Part(m - 1) THEN g[s] ELSE Step(g, s)]
  <2>2. ASSUME NEW s \in Part(m), s # {}
        PROVE  s \ {One(s)} \in Part(m - 1) /\ s \ {One(s)} \in Part(m)
    BY <1>1, <1>2, <1>3, <2>2
  <2>3. \A s \in Part(m - 1) : g[s] \in Nat
    BY <2>1
  <2>4. ASSUME NEW s \in Part(m) PROVE h[s] \in Nat /\ h[s] = Step(h, s)
    <3>1. h[s] = Step(g, s)
      BY <2>1
    <3>2. CASE s = {}
      BY <3>1, <3>2
    <3>3. CASE s # {}
      <4> DEFINE r == s \ {One(s)}
      <4>1. r \in Part(m - 1) /\ r \in Part(m)
        BY <2>2, <3>3
      <4>2. h[r] = g[r] /\ g[r] \in Nat
        BY <2>3, <4>1
      <4>3. f[One(s)] \in Nat
        BY <1>3, <3>3
      <4>4. Step(g, s) = f[One(s)] + g[r] /\ Step(h, s) = f[One(s)] + h[r]
        BY <3>3
      <4> HIDE DEF h, r
      <4> QED
        BY <3>1, <4>2, <4>3, <4>4
    <3> QED
      BY <3>2, <3>3
  <2>5. h \in [Part(m) -> Nat]
    BY <2>4
  <2>6. m \in 0 .. Cardinality(S)
    OBVIOUS
  <2> HIDE DEF h, Part, Step
  <2> QED
    BY <2>4, <2>5, <2>6
<1>6. Cardinality(S) \in T
  <2> HIDE DEF T
  <2>1. Cardinality(S) \in 0 .. Cardinality(S)
    BY <1>1
  <2> QED
    BY <1>1, <1>4, <1>5, <2>1, UpTo
<1>7. PICK g \in [Part(Cardinality(S)) -> Nat] :
        \A s \in Part(Cardinality(S)) : g[s] = Step(g, s)
  BY <1>6
<1>8. Part(Cardinality(S)) = SUBSET S
  BY <1>1, <1>2
<1>9. g \in [SUBSET S -> Nat] /\ \A s \in SUBSET S : g[s] = Step(g, s)
  <2> HIDE DEF Part, Step
  <2> QED
    BY <1>7, <1>8
<1>10. Sums(g, f, S)
  BY <1>9 DEF Sums
<1> QED
  BY <1>9, <1>10

\* The sums of every two sets agree where both have them.
LEMMA SumsAgree ==
  ASSUME NEW S, IsFiniteSet(S), NEW R \in SUBSET S, NEW f, NEW g, NEW h,
         Sums(g, f, S), Sums(h, f, R)
  PROVE  g[R] = h[R]
<1> DEFINE bad == {s \in SUBSET R : g[s] # h[s]}
<1>1. SUFFICES ASSUME bad # {} PROVE FALSE
  OBVIOUS
<1>2. IsFiniteSet(R)
  BY FS_Subset
<1>3. PICK s \in bad : \A x \in s : s \ {x} \notin bad
  <2>1. bad \in SUBSET (SUBSET R)
    OBVIOUS
  <2> HIDE DEF bad
  <2> QED
    BY <1>1, <1>2, <2>1, SmallestPart
<1>4. s \in SUBSET S /\ s \in SUBSET R
  OBVIOUS
<1>5. /\ g[s] = IF s = {} THEN 0 ELSE f[One(s)] + g[s \ {One(s)}]
      /\ h[s] = IF s = {} THEN 0 ELSE f[One(s)] + h[s \ {One(s)}]
  BY <1>4 DEF Sums
<1>6. CASE s = {}
  BY <1>3, <1>5, <1>6
<1>7. CASE s # {}
  <2>1. One(s) \in s
    BY <1>7 DEF One
  <2>2. g[s \ {One(s)}] = h[s \ {One(s)}]
    BY <1>3, <1>4, <2>1
  <2> QED
    BY <1>3, <1>5, <1>7, <2>2
<1> QED
  BY <1>6, <1>7

\* The sum over a set is the one its sums have.
LEMMA SumIs ==
  ASSUME NEW S, IsFiniteSet(S), NEW R \in SUBSET S, NEW f, NEW g,
         \A x \in S : f[x] \in Nat, Sums(g, f, S)
  PROVE  SumFunctionOnSet(f, R) = g[R]
<1> DEFINE sum == CHOOSE h : Sums(h, f, R)
<1>1. SumFunctionOnSet(f, R) = sum[R]
  BY Zenon DEF SumFunctionOnSet, FoldFunctionOnSet, MapThenFoldSet, Sums, One
<1>2. Sums(sum, f, R)
  <2>1. IsFiniteSet(R) /\ \A x \in R : f[x] \in Nat
    BY FS_Subset
  <2>2. \E h : Sums(h, f, R)
    BY <2>1, SumsExist
  <2> QED
    BY <2>2, Zenon
<1> HIDE DEF sum
<1> QED
  BY <1>1, <1>2, SumsAgree

\* The fold's own equation: the element it chooses first, and the others.
LEMMA SumFirst ==
  ASSUME NEW S, IsFiniteSet(S), NEW f, \A x \in S : f[x] \in Nat
  PROVE  /\ SumFunctionOnSet(f, S) \in Nat
         /\ SumFunctionOnSet(f, {}) = 0
         /\ S # {} =>
              SumFunctionOnSet(f, S) = f[One(S)] + SumFunctionOnSet(f, S \ {One(S)})
<1>1. PICK g \in [SUBSET S -> Nat] : Sums(g, f, S)
  BY SumsExist
<1>2. \A R \in SUBSET S : SumFunctionOnSet(f, R) = g[R]
  BY <1>1, SumIs
<1>3. \A R \in SUBSET S :
        g[R] = IF R = {} THEN 0 ELSE f[One(R)] + g[R \ {One(R)}]
  BY <1>1 DEF Sums
<1>4. S \in SUBSET S /\ {} \in SUBSET S /\ S \ {One(S)} \in SUBSET S
  OBVIOUS
<1>5. SumFunctionOnSet(f, S) = g[S] /\ g[S] \in Nat
  BY <1>2, <1>4
<1>6. SumFunctionOnSet(f, {}) = g[{}] /\ g[{}] = 0
  BY <1>2, <1>3, <1>4
<1>7. SumFunctionOnSet(f, S \ {One(S)}) = g[S \ {One(S)}]
  BY <1>2, <1>4
<1>8. S # {} => g[S] = f[One(S)] + g[S \ {One(S)}]
  BY <1>3, <1>4
<1> QED
  BY <1>5, <1>6, <1>7, <1>8

\* What a sum of naturals is: nothing over no set, else any of its elements and
\* the sum of the others.
LEMMA SumFacts ==
  ASSUME NEW S, IsFiniteSet(S), NEW f, \A x \in S : f[x] \in Nat
  PROVE  /\ SumFunctionOnSet(f, S) \in Nat
         /\ SumFunctionOnSet(f, {}) = 0
         /\ \A x \in S : SumFunctionOnSet(f, S) = f[x] + SumFunctionOnSet(f, S \ {x})
<1> DEFINE sum(s) == SumFunctionOnSet(f, s)
           bad == {s \in SUBSET S : \E x \in s : sum(s) # f[x] + sum(s \ {x})}
<1>1. SUFFICES ASSUME bad # {} PROVE FALSE
  <2>1. SumFunctionOnSet(f, S) \in Nat /\ SumFunctionOnSet(f, {}) = 0
    BY SumFirst
  <2>2. S \in SUBSET S
    OBVIOUS
  <2> QED
    BY <2>1, <2>2
<1>2. PICK s \in bad : \A x \in s : s \ {x} \notin bad
  <2>1. bad \in SUBSET (SUBSET S)
    OBVIOUS
  <2> HIDE DEF bad
  <2> QED
    BY <1>1, <2>1, SmallestPart
<1>3. PICK x \in s : sum(s) # f[x] + sum(s \ {x})
  BY <1>2
<1>4. \A r \in SUBSET S :
        sum(r) \in Nat /\ (r # {} => sum(r) = f[One(r)] + sum(r \ {One(r)}))
  <2> TAKE r \in SUBSET S
  <2>1. IsFiniteSet(r) /\ \A y \in r : f[y] \in Nat
    BY FS_Subset
  <2> QED
    BY <2>1, SumFirst
<1>5. PICK y \in s : y = One(s)
  BY <1>3 DEF One
<1>6. s \in SUBSET S /\ s # {} /\ f[x] \in Nat /\ f[y] \in Nat
  BY <1>3
<1> HIDE DEF sum
<1>7. sum(s) = f[y] + sum(s \ {y})
  BY <1>4, <1>5, <1>6
<1>8. x # y
  BY <1>3, <1>7
<1>9. sum(s \ {y}) = f[x] + sum((s \ {y}) \ {x})
  BY <1>2, <1>3, <1>5, <1>8
<1>10. sum(s \ {x}) = f[y] + sum((s \ {x}) \ {y})
  BY <1>2, <1>3, <1>5, <1>8
<1>11. (s \ {y}) \ {x} = (s \ {x}) \ {y} /\ (s \ {x}) \ {y} \in SUBSET S
  BY <1>6
<1>12. PICK a \in Nat : a = sum((s \ {x}) \ {y})
  BY <1>4, <1>11
<1>13. f[y] + (f[x] + a) = f[x] + (f[y] + a)
  BY <1>6, <1>12
<1> HIDE DEF bad
<1> QED
  BY <1>3, <1>7, <1>9, <1>10, <1>11, <1>12, <1>13

LEMMA SumNothing ==
  ASSUME NEW S, IsFiniteSet(S), NEW f, \A x \in S : f[x] = 0
  PROVE  SumFunctionOnSet(f, S) = 0
<1> DEFINE bad == {s \in SUBSET S : SumFunctionOnSet(f, s) # 0}
<1>1. SUFFICES ASSUME bad # {} PROVE FALSE
  OBVIOUS
<1>2. PICK s \in bad : \A x \in s : s \ {x} \notin bad
  <2>1. bad \in SUBSET (SUBSET S)
    OBVIOUS
  <2> HIDE DEF bad
  <2> QED
    BY <1>1, <2>1, SmallestPart
<1>3. s \in SUBSET S /\ IsFiniteSet(s) /\ \A x \in s : f[x] = 0
  BY FS_Subset
<1>4. s # {}
  BY <1>2, <1>3, SumFacts
<1>5. PICK x \in s : TRUE
  BY <1>4
<1>6. SumFunctionOnSet(f, s) = f[x] + SumFunctionOnSet(f, s \ {x})
  BY <1>3, SumFacts
<1>7. SumFunctionOnSet(f, s \ {x}) = 0 /\ f[x] = 0
  BY <1>2, <1>3
<1> QED
  BY <1>2, <1>6, <1>7

\* Functions that are equal on a set have the same sum there.
LEMMA SameSum ==
  ASSUME NEW S, IsFiniteSet(S), NEW f, NEW g, \A x \in S : f[x] \in Nat /\ g[x] = f[x]
  PROVE  SumFunctionOnSet(g, S) = SumFunctionOnSet(f, S)
<1> DEFINE bad == {s \in SUBSET S : SumFunctionOnSet(g, s) # SumFunctionOnSet(f, s)}
<1>1. SUFFICES ASSUME bad # {} PROVE FALSE
  OBVIOUS
<1>2. PICK s \in bad : \A x \in s : s \ {x} \notin bad
  <2>1. bad \in SUBSET (SUBSET S)
    OBVIOUS
  <2> HIDE DEF bad
  <2> QED
    BY <1>1, <2>1, SmallestPart
<1>3. s \in SUBSET S /\ IsFiniteSet(s) /\ \A x \in s : f[x] \in Nat /\ g[x] \in Nat
  BY FS_Subset
<1>4. s # {}
  BY <1>2, <1>3, SumFacts
<1>5. PICK x \in s : TRUE
  BY <1>4
<1>6. /\ SumFunctionOnSet(f, s) = f[x] + SumFunctionOnSet(f, s \ {x})
      /\ SumFunctionOnSet(g, s) = g[x] + SumFunctionOnSet(g, s \ {x})
  BY <1>3, SumFacts
<1>7. SumFunctionOnSet(f, s \ {x}) = SumFunctionOnSet(g, s \ {x}) /\ f[x] = g[x]
  BY <1>2, <1>3
<1> QED
  BY <1>2, <1>6, <1>7

\* One more at one place is one more in the sum.
LEMMA SumMore ==
  ASSUME NEW S, IsFiniteSet(S), NEW f, NEW g, NEW x \in S,
         \A y \in S : f[y] \in Nat, g[x] = f[x] + 1, \A y \in S \ {x} : g[y] = f[y]
  PROVE  SumFunctionOnSet(g, S) = SumFunctionOnSet(f, S) + 1
<1>1. \A y \in S : g[y] \in Nat
  OBVIOUS
<1>2. IsFiniteSet(S \ {x})
  BY FS_RemoveElement
<1>3. SumFunctionOnSet(g, S \ {x}) = SumFunctionOnSet(f, S \ {x})
  BY <1>2, SameSum
<1>4. SumFunctionOnSet(f, S \ {x}) \in Nat /\ f[x] \in Nat
  BY <1>2, SumFacts
<1>5. /\ SumFunctionOnSet(f, S) = f[x] + SumFunctionOnSet(f, S \ {x})
      /\ SumFunctionOnSet(g, S) = g[x] + SumFunctionOnSet(g, S \ {x})
  BY <1>1, SumFacts
<1> QED
  BY <1>3, <1>4, <1>5
-----------------------------------------------------------------------------
(* Division, and the numbers that digits make *)

LEMMA Division ==
  ASSUME NEW x \in Nat, NEW m \in Nat \ {0}
  PROVE  /\ x \div m \in Nat /\ x % m \in 0 .. m - 1
         /\ x = m * (x \div m) + (x % m)
OBVIOUS

\* Only 0 times m is closer to 0 than m.
LEMMA NoMultiple ==
  ASSUME NEW m \in Nat \ {0}, NEW c \in Int, c * m < m, -m < c * m
  PROVE  c = 0
<1>1. CASE c >= 1
  <2>1. (c - 1) * m >= 0
    BY <1>1
  <2>2. c * m = (c - 1) * m + m
    OBVIOUS
  <2> QED
    BY <2>1, <2>2
<1>2. CASE c =< -1
  <2>1. (-c - 1) * m >= 0
    BY <1>2
  <2>2. c * m = -((-c - 1) * m) - m
    OBVIOUS
  <2> QED
    BY <2>1, <2>2
<1> QED
  BY <1>1, <1>2

\* Two numbers below m that differ by a multiple of m are equal.
LEMMA SameRest ==
  ASSUME NEW m \in Nat \ {0}, NEW x \in 0 .. m - 1, NEW y \in 0 .. m - 1,
         NEW c \in Int, x = y + c * m
  PROVE  x = y
<1>1. c * m \in Int
  OBVIOUS
<1>2. c * m < m /\ -m < c * m
  BY <1>1
<1>3. c = 0
  BY <1>2, NoMultiple
<1> QED
  BY <1>3

LEMMA DivisionOnce ==
  ASSUME NEW x \in Nat, NEW m \in Nat \ {0}, NEW q \in Int, NEW r \in 0 .. m - 1,
         x = m * q + r
  PROVE  q = x \div m /\ r = x % m
<1>1. PICK p \in Nat, s \in 0 .. m - 1 : p = x \div m /\ s = x % m /\ x = m * p + s
  BY Division
<1>2. r = s + (p - q) * m
  <2>1. PICK a \in Int, b \in Int : a = m * p /\ b = m * q
    BY <1>1
  <2>2. (p - q) * m = a - b
    BY <1>1, <2>1
  <2>3. b + r = a + s
    BY <1>1, <2>1, Zenon
  <2>4. r = s + (a - b)
    BY <1>1, <2>1, <2>3
  <2> QED
    BY <2>2, <2>4, Zenon
<1>3. r = s
  <2>1. PICK c \in Int : c = p - q
    OBVIOUS
  <2>2. r = s + c * m
    BY <1>2, <2>1
  <2> QED
    BY <2>2, SameRest
<1>4. (p - q) * m = 0
  BY <1>1, <1>2, <1>3
<1>5. p - q = 0
  BY <1>1, <1>4, NoMultiple
<1> QED
  BY <1>1, <1>3, <1>5

\* Dividing by a and then by b is dividing by their product.
LEMMA DivisionTwice ==
  ASSUME NEW x \in Nat, NEW a \in Nat \ {0}, NEW b \in Nat \ {0}
  PROVE  /\ (x \div a) \div b = x \div (a * b)
         /\ x % (a * b) = ((x \div a) % b) * a + (x % a)
<1>1. PICK q \in Nat, r \in 0 .. a - 1 : q = x \div a /\ r = x % a /\ x = a * q + r
  BY Division
<1>2. PICK p \in Nat, s \in 0 .. b - 1 : p = q \div b /\ s = q % b /\ q = b * p + s
  BY Division
<1>3. a * b \in Nat \ {0} /\ s * a \in Nat
  BY <1>2
<1>4. s * a + r \in 0 .. a * b - 1
  <2>1. (b - 1 - s) * a >= 0
    BY <1>2
  <2>2. (b - 1 - s) * a = a * b - a - s * a
    BY <1>2
  <2> QED
    BY <1>1, <1>3, <2>1, <2>2
<1>5. x = (a * b) * p + (s * a + r)
  <2>1. a * q = a * (b * p) + a * s
    BY <1>2
  <2>2. a * (b * p) = (a * b) * p /\ a * s = s * a
    BY <1>2
  <2> QED
    BY <1>1, <2>1, <2>2
<1>6. p = x \div (a * b) /\ s * a + r = x % (a * b)
  BY <1>3, <1>4, <1>5, DivisionOnce
<1> QED
  BY <1>1, <1>2, <1>6

\* p has the powers of base up to the n-th.
PowersOf(p, base, n) ==
  /\ base \in Nat \ {0} /\ n \in Nat /\ p \in [0 .. n -> Nat \ {0}]
  /\ p[0] = 1 /\ \A i \in 0 .. n - 1 : p[i + 1] = base * p[i]

\* So is each function on 0 .. n that starts at 1 and grows by base.
LEMMA PowersAre ==
  ASSUME NEW base \in Nat \ {0}, NEW n \in Nat, NEW p, p = [i \in 0 .. n |-> p[i]],
         p[0] = 1, \A i \in 0 .. n - 1 : p[i + 1] = base * p[i]
  PROVE  PowersOf(p, base, n)
<1> DEFINE T == {i \in 0 .. n : p[i] \in Nat \ {0}}
<1>1. 0 \in T
  OBVIOUS
<1>2. ASSUME NEW i \in 1 .. n, i - 1 \in T PROVE i \in T
  <2>1. PICK a \in Nat \ {0} : a = p[i - 1]
    BY <1>2
  <2>2. base * a \in Nat \ {0}
    OBVIOUS
  <2>3. i - 1 \in 0 .. n - 1 /\ (i - 1) + 1 = i
    OBVIOUS
  <2>4. p[i] = base * a
    BY <2>1, <2>3
  <2> QED
    BY <2>2, <2>4
<1>3. \A i \in 0 .. n : i \in T
  <2> HIDE DEF T
  <2> QED
    BY <1>1, <1>2, UpTo
<1>4. \A i \in 0 .. n : p[i] \in Nat \ {0}
  BY <1>3
<1>5. p \in [0 .. n -> Nat \ {0}]
  BY <1>4
<1> QED
  BY <1>5 DEF PowersOf

LEMMA PowersGrow ==
  ASSUME NEW p, NEW base, NEW n, PowersOf(p, base, n), NEW i \in 0 .. n
  PROVE  p[i] =< p[n]
<1>1. n \in Nat /\ base \in Nat \ {0} /\ \A j \in 0 .. n : p[j] \in Nat \ {0}
  BY DEF PowersOf
<1> DEFINE T == {j \in 0 .. n : p[n - j] =< p[n]}
<1>2. 0 \in T
  <2>1. n - 0 = n /\ 0 \in 0 .. n /\ n \in 0 .. n
    BY <1>1
  <2> QED
    BY <1>1, <2>1
<1>3. ASSUME NEW j \in 1 .. n, j - 1 \in T PROVE j \in T
  <2>1. PICK k \in 0 .. n - 1 : k = n - j /\ n - (j - 1) = k + 1
    BY <1>1
  <2>2. p[k + 1] =< p[n] /\ p[k + 1] = base * p[k]
    BY <1>3, <2>1 DEF PowersOf
  <2>3. PICK a \in Nat \ {0} : a = p[k]
    BY <1>1
  <2>4. base * a >= a
    <3>1. (base - 1) * a >= 0 /\ (base - 1) * a = base * a - a
      BY <1>1
    <3> QED
      BY <1>1, <3>1
  <2>5. p[n] \in Nat /\ n \in 0 .. n
    BY <1>1
  <2>6. p[k] =< p[n]
    BY <1>1, <2>2, <2>3, <2>4, <2>5
  <2> QED
    BY <2>1, <2>6
<1>4. \A j \in 0 .. n : j \in T
  <2> HIDE DEF T
  <2> QED
    BY <1>1, <1>2, <1>3, UpTo
<1>5. n - i \in 0 .. n /\ n - (n - i) = i
  BY <1>1
<1> QED
  BY <1>4, <1>5

\* The last q of n digits d, each with its weight, which is a power of base.
Weighs(w, d, p, base, n, q) ==
  /\ n \in Nat /\ q \in 0 .. n
  /\ \A j \in n - q + 1 .. n : d[j] \in 0 .. base - 1 /\ w[j] = d[j] * p[n - j]

\* What the last i digits are worth: nothing, or the first of them and the others.
LEMMA LastDigits ==
  ASSUME NEW p, NEW base, NEW m, PowersOf(p, base, m), NEW w, NEW d, NEW n, NEW q,
         Weighs(w, d, p, base, n, q), q =< m
  PROVE  /\ SumFunctionOnSet(w, n + 1 .. n) = 0
         /\ \A i \in 0 .. q : SumFunctionOnSet(w, n - i + 1 .. n) \in Nat
         /\ \A i \in 1 .. q :
              /\ d[n - i + 1] \in 0 .. base - 1 /\ p[i - 1] \in Nat \ {0}
              /\ p[i] = base * p[i - 1]
              /\ SumFunctionOnSet(w, n - i + 1 .. n) =
                   d[n - i + 1] * p[i - 1] + SumFunctionOnSet(w, n - (i - 1) + 1 .. n)
<1>1. n \in Nat /\ q \in 0 .. n /\ m \in Nat /\ base \in Nat \ {0}
  BY DEF Weighs, PowersOf
<1>2. \A j \in n - q + 1 .. n : /\ d[j] \in 0 .. base - 1 /\ w[j] = d[j] * p[n - j]
                                /\ p[n - j] \in Nat \ {0}
  <2> TAKE j \in n - q + 1 .. n
  <2>1. n - j \in 0 .. m
    BY <1>1
  <2> QED
    BY <2>1 DEF Weighs, PowersOf
<1>3. \A j \in n - q + 1 .. n : w[j] \in Nat
  <2> TAKE j \in n - q + 1 .. n
  <2>1. PICK a \in Nat, b \in Nat : a = d[j] /\ b = p[n - j]
    BY <1>1, <1>2
  <2>2. a * b \in Nat
    OBVIOUS
  <2> QED
    BY <1>2, <2>1, <2>2
<1>4. ASSUME NEW i \in 0 .. q
      PROVE  IsFiniteSet(n - i + 1 .. n) /\ \A j \in n - i + 1 .. n : w[j] \in Nat
  <2>1. PICK a \in Int : a = n - i + 1 /\ \A j \in a .. n : j \in n - q + 1 .. n
    BY <1>1
  <2>2. IsFiniteSet(a .. n)
    BY <1>1, FS_Interval
  <2>3. \A j \in a .. n : w[j] \in Nat
    BY <1>3, <2>1
  <2> QED
    BY <2>1, <2>2, <2>3
<1>5. \A i \in 0 .. q : SumFunctionOnSet(w, n - i + 1 .. n) \in Nat
  <2> TAKE i \in 0 .. q
  <2>1. PICK S : S = n - i + 1 .. n
    OBVIOUS
  <2>2. IsFiniteSet(S) /\ \A j \in S : w[j] \in Nat
    BY <1>4, <2>1
  <2> QED
    BY <2>1, <2>2, SumFacts
<1>6. SumFunctionOnSet(w, n + 1 .. n) = 0
  <2>1. n + 1 .. n = {}
    BY <1>1
  <2>2. IsFiniteSet({}) /\ \A j \in {} : w[j] = 0
    BY FS_EmptySet
  <2>3. SumFunctionOnSet(w, {}) = 0
    BY <2>2, SumNothing
  <2> QED
    BY <2>1, <2>3
<1>7. ASSUME NEW i \in 1 .. q
      PROVE  /\ d[n - i + 1] \in 0 .. base - 1 /\ p[i - 1] \in Nat \ {0}
             /\ p[i] = base * p[i - 1]
             /\ SumFunctionOnSet(w, n - i + 1 .. n) =
                  d[n - i + 1] * p[i - 1] + SumFunctionOnSet(w, n - (i - 1) + 1 .. n)
  <2>1. PICK S, j : S = n - i + 1 .. n /\ j = n - i + 1
    OBVIOUS
  <2>2. /\ j \in S /\ j \in n - q + 1 .. n /\ S \ {j} = n - (i - 1) + 1 .. n
        /\ n - j = i - 1 /\ i \in 0 .. q /\ i - 1 \in 0 .. m - 1 /\ (i - 1) + 1 = i
    BY <1>1, <2>1
  <2>3. IsFiniteSet(S) /\ \A k \in S : w[k] \in Nat
    BY <1>4, <2>1, <2>2
  <2>4. SumFunctionOnSet(w, S) = w[j] + SumFunctionOnSet(w, S \ {j})
    BY <2>2, <2>3, SumFacts
  <2>5. w[j] = d[j] * p[i - 1] /\ d[j] \in 0 .. base - 1 /\ p[i - 1] \in Nat \ {0}
    BY <1>2, <2>2
  <2>6. p[i] = base * p[i - 1]
    BY <2>2 DEF PowersOf
  <2> QED
    BY <2>1, <2>2, <2>4, <2>5, <2>6
<1> QED
  BY <1>5, <1>6, <1>7

\* Digits are worth less than the power they do not reach.
LEMMA DigitsBelow ==
  ASSUME NEW p, NEW base, NEW m, PowersOf(p, base, m), NEW w, NEW d, NEW n, NEW q,
         Weighs(w, d, p, base, n, q), q =< m
  PROVE  \A i \in 0 .. q : SumFunctionOnSet(w, n - i + 1 .. n) \in 0 .. p[i] - 1
<1> DEFINE u(i) == SumFunctionOnSet(w, n - i + 1 .. n)
           T == {i \in 0 .. q : u(i) \in 0 .. p[i] - 1}
<1>1. n \in Nat /\ q \in Nat /\ m \in Nat /\ base \in Nat \ {0} /\ p[0] = 1
  BY DEF Weighs, PowersOf
<1>2. 0 \in T
  <2>1. n - 0 + 1 = n + 1 /\ 0 \in 0 .. q
    BY <1>1
  <2>2. u(0) = 0
    BY <2>1, LastDigits
  <2> HIDE DEF u
  <2> QED
    BY <1>1, <2>1, <2>2
<1>3. ASSUME NEW i \in 1 .. q, i - 1 \in T PROVE i \in T
  <2>1. /\ d[n - i + 1] \in 0 .. base - 1 /\ p[i - 1] \in Nat \ {0}
        /\ p[i] = base * p[i - 1]
        /\ u(i) = d[n - i + 1] * p[i - 1] + u(i - 1)
    BY LastDigits
  <2>2. u(i - 1) \in 0 .. p[i - 1] - 1
    BY <1>3
  <2> HIDE DEF u
  <2>3. PICK a \in Nat \ {0}, e \in 0 .. base - 1, b \in Nat :
          a = p[i - 1] /\ e = d[n - i + 1] /\ b = u(i - 1) /\ b =< a - 1
    BY <2>1, <2>2
  <2>4. e * a + b \in 0 .. base * a - 1
    <3>1. (base - 1 - e) * a >= 0 /\ e * a >= 0
      BY <1>1, <2>3
    <3>2. (base - 1 - e) * a = base * a - a - e * a
      BY <1>1, <2>3
    <3>3. e * a \in Int /\ base * a \in Int
      BY <1>1, <2>3
    <3> QED
      BY <2>3, <3>1, <3>2, <3>3
  <2> QED
    BY <2>1, <2>3, <2>4
<1>4. \A i \in 0 .. q : i \in T
  <2> HIDE DEF T
  <2> QED
    BY <1>1, <1>2, <1>3, UpTo
<1> QED
  BY <1>4

\* The digits of x are worth what x leaves when it is divided by the power.
LEMMA DigitsOf ==
  ASSUME NEW p, NEW base, NEW m, PowersOf(p, base, m), NEW w, NEW d, NEW n, NEW q,
         Weighs(w, d, p, base, n, q), q =< m, NEW x \in Nat,
         \A j \in n - q + 1 .. n : d[j] = (x \div p[n - j]) % base
  PROVE  SumFunctionOnSet(w, n - q + 1 .. n) = x % p[q]
<1> DEFINE u(i) == SumFunctionOnSet(w, n - i + 1 .. n)
           T == {i \in 0 .. q : u(i) = x % p[i]}
<1>1. n \in Nat /\ q \in Nat /\ m \in Nat /\ base \in Nat \ {0} /\ p[0] = 1
  BY DEF Weighs, PowersOf
<1>2. 0 \in T
  <2>1. n - 0 + 1 = n + 1 /\ 0 \in 0 .. q
    BY <1>1
  <2>2. u(0) = 0
    BY <2>1, LastDigits
  <2>3. x % 1 = 0
    OBVIOUS
  <2> HIDE DEF u
  <2> QED
    BY <1>1, <2>1, <2>2, <2>3
<1>3. ASSUME NEW i \in 1 .. q, i - 1 \in T PROVE i \in T
  <2>1. /\ p[i - 1] \in Nat \ {0} /\ p[i] = base * p[i - 1]
        /\ u(i) = d[n - i + 1] * p[i - 1] + u(i - 1)
    BY LastDigits
  <2>2. u(i - 1) = x % p[i - 1]
    BY <1>3
  <2>3. d[n - i + 1] = (x \div p[i - 1]) % base
    <3>1. n - i + 1 \in n - q + 1 .. n /\ n - (n - i + 1) = i - 1
      BY <1>1
    <3> QED
      BY <3>1
  <2> HIDE DEF u
  <2>4. PICK a \in Nat \ {0} : a = p[i - 1]
    BY <2>1
  <2>5. PICK b \in Nat \ {0} : b = base
    BY <1>1
  <2>6. x % (a * b) = ((x \div a) % b) * a + (x % a)
    BY DivisionTwice
  <2>7. p[i] = a * b
    <3>1. a * b = b * a
      OBVIOUS
    <3> QED
      BY <2>1, <2>4, <2>5, <3>1
  <2>8. u(i) = ((x \div a) % b) * a + (x % a)
    BY <2>1, <2>2, <2>3, <2>4, <2>5
  <2> QED
    BY <2>6, <2>7, <2>8
<1>4. \A i \in 0 .. q : i \in T
  <2> HIDE DEF T
  <2> QED
    BY <1>1, <1>2, <1>3, UpTo
<1>5. q \in T
  BY <1>1, <1>4
<1> QED
  BY <1>5

\* The last q of n digits d are taken in one by one, in a number v that has room for
\* m of them; those before are of no account, for there is no room or there are none.
Takes(v, d, p, base, m, n, q) ==
  /\ \A j \in n - q .. n : v[j] \in 0 .. p[m] - 1
  /\ \A j \in n - q + 1 .. n : v[j] = (v[j - 1] * base + d[j]) % p[m]
  /\ q = m \/ v[n - q] = 0

\* In the end it is what those digits are worth.
LEMMA DigitsTaken ==
  ASSUME NEW p, NEW base, NEW m, PowersOf(p, base, m), NEW w, NEW d, NEW n, NEW q,
         Weighs(w, d, p, base, n, q), q =< m, NEW v, Takes(v, d, p, base, m, n, q)
  PROVE  v[n] = SumFunctionOnSet(w, n - q + 1 .. n)
<1>0. /\ \A j \in n - q .. n : v[j] \in 0 .. p[m] - 1
      /\ \A j \in n - q + 1 .. n : v[j] = (v[j - 1] * base + d[j]) % p[m]
      /\ q = m \/ v[n - q] = 0
  BY DEF Takes
<1> DEFINE u(i) == SumFunctionOnSet(w, n - i + 1 .. n)
           part(i) == v[n - i] * p[i] + u(i)
           T == {j \in 0 .. q : \E c \in Int : part(q - j) = part(q) + c * p[m]}
<1>1. /\ n \in Nat /\ q \in 0 .. n /\ m \in Nat /\ base \in Nat \ {0}
      /\ p[0] = 1 /\ p[m] \in Nat \ {0} /\ \A i \in 0 .. m : p[i] \in Nat \ {0}
  BY DEF Weighs, PowersOf
<1>2. \A i \in 0 .. q : u(i) \in Nat /\ v[n - i] \in Nat /\ p[i] \in Nat \ {0}
  <2> TAKE i \in 0 .. q
  <2>1. n - i \in n - q .. n /\ i \in 0 .. m
    BY <1>1
  <2>2. u(i) \in Nat
    BY LastDigits
  <2> HIDE DEF u
  <2> QED
    BY <1>0, <1>1, <2>1, <2>2
<1>3. 0 \in T
  <2>1. part(q) \in Int
    <3>1. q \in 0 .. q
      BY <1>1
    <3>2. PICK a \in Nat, b \in Nat, e \in Nat : a = v[n - q] /\ b = p[q] /\ e = u(q)
      BY <1>2, <3>1
    <3>3. a * b + e \in Int
      OBVIOUS
    <3> HIDE DEF u
    <3> QED
      BY <3>2, <3>3
  <2>2. q - 0 = q /\ 0 \in 0 .. q
    BY <1>1
  <2> HIDE DEF part
  <2>3. part(q - 0) = part(q) + 0 * p[m]
    BY <1>1, <2>1, <2>2
  <2> QED
    BY <2>2, <2>3
<1>4. ASSUME NEW j \in 1 .. q, j - 1 \in T PROVE j \in T
  <2>1. PICK i \in 1 .. q : i = q - (j - 1) /\ i - 1 = q - j
    BY <1>1
  <2>2. PICK c \in Int : part(i) = part(q) + c * p[m]
    BY <1>4, <2>1
  <2>3. /\ d[n - i + 1] \in 0 .. base - 1 /\ p[i - 1] \in Nat \ {0}
        /\ p[i] = base * p[i - 1]
        /\ u(i) = d[n - i + 1] * p[i - 1] + u(i - 1)
    BY LastDigits
  <2>4. /\ i \in 0 .. q /\ i - 1 \in 0 .. q /\ n - (i - 1) = n - i + 1
        /\ (n - i + 1) - 1 = n - i /\ n - i + 1 \in n - q + 1 .. n
    BY <1>1
  <2>5. v[n - (i - 1)] = (v[n - i] * base + d[n - i + 1]) % p[m]
    BY <1>0, <2>4
  <2> HIDE DEF u
  <2>6. PICK a \in Nat \ {0}, e \in Nat, b \in Nat, l \in Nat, k \in Nat \ {0}, h \in Nat :
          /\ a = p[i - 1] /\ e = d[n - i + 1] /\ b = u(i - 1) /\ l = v[n - i]
          /\ k = p[m] /\ h = v[n - (i - 1)]
    <3>1. v[n - i] \in Nat
      BY <1>2, <2>4
    <3>2. v[n - (i - 1)] \in Nat /\ u(i - 1) \in Nat
      BY <1>2, <2>4
    <3>3. d[n - i + 1] \in Nat
      BY <1>1, <2>3
    <3> QED
      BY <1>1, <2>3, <3>1, <3>2, <3>3
  <2>7. PICK g \in Nat : l * base + e = k * g + h
    <3>1. l * base + e \in Nat
      BY <1>1
    <3>2. h = (l * base + e) % k
      BY <2>5, <2>6
    <3> QED
      BY <3>1, <3>2, Division
  <2>8. part(i) = l * (base * a) + (e * a + b)
    BY <2>3, <2>6
  <2>9. part(i - 1) = h * a + b
    BY <2>6
  <2>10. l * (base * a) + (e * a + b) = (h * a + b) + (g * a) * k
    <3>1. (l * base + e) * a = l * (base * a) + e * a
      BY <1>1
    <3>2. (k * g + h) * a = (g * a) * k + h * a
      OBVIOUS
    <3> QED
      BY <1>1, <2>7, <3>1, <3>2
  <2>11. PICK z \in Int : z = c - g * a
    OBVIOUS
  <2>12. z * k = c * k - (g * a) * k
    BY <2>11
  <2>13. part(q) \in Int
    <3>1. q \in 0 .. q
      BY <1>1
    <3>2. PICK x \in Nat, y \in Nat, r \in Nat : x = v[n - q] /\ y = p[q] /\ r = u(q)
      BY <1>2, <3>1
    <3>3. x * y + r \in Int
      OBVIOUS
    <3> QED
      BY <3>2, <3>3
  <2> HIDE DEF part
  <2>14. part(i - 1) = part(q) + z * k
    <3>0. PICK zk, lhs : zk = z * k /\ lhs = l * (base * a) + (e * a + b)
      OBVIOUS
    <3>1. PICK ck \in Int, gak \in Int, hab \in Int :
            ck = c * k /\ gak = (g * a) * k /\ hab = h * a + b
      OBVIOUS
    <3>2. part(i) = part(q) + ck
      BY <2>2, <2>6, <3>1, Zenon
    <3>3. part(i) = lhs /\ part(i - 1) = hab /\ lhs = hab + gak
      BY <2>8, <2>9, <2>10, <3>0, <3>1, Zenon
    <3>4. zk = ck - gak
      BY <2>12, <3>0, <3>1, Zenon
    <3>5. part(i - 1) = part(q) + zk
      BY <2>13, <3>1, <3>2, <3>3, <3>4
    <3> QED
      BY <3>0, <3>5, Zenon
  <2> QED
    BY <2>1, <2>6, <2>14
<1>5. PICK c \in Int : part(0) = part(q) + c * p[m]
  <2>1. q \in T
    <3>1. q \in Nat /\ q \in 0 .. q
      BY <1>1
    <3> HIDE DEF T
    <3> QED
      BY <1>3, <1>4, <3>1, UpTo
  <2>2. q - q = 0
    BY <1>1
  <2> HIDE DEF part
  <2> QED
    BY <2>1, <2>2
<1>6. part(0) = v[n]
  <2>1. n - 0 + 1 = n + 1 /\ n - 0 = n /\ n \in n - q .. n
    BY <1>1
  <2>2. u(0) = 0
    BY <2>1, LastDigits
  <2>3. v[n] \in Nat
    BY <1>0, <1>1, <2>1
  <2> HIDE DEF u
  <2> QED
    BY <1>1, <2>1, <2>2, <2>3
<1>7. PICK e \in Int : part(q) = u(q) + e * p[m]
  <2>1. q \in 0 .. q
    BY <1>1
  <2>2. PICK a \in Nat, b \in Nat, l \in Nat : a = v[n - q] /\ b = p[q] /\ l = u(q)
    BY <1>2, <2>1
  <2>3. a * b + l = l + a * b /\ 0 * b + l = l + 0 * b
    OBVIOUS
  <2>4. CASE q = m
    <3>1. part(q) = l + a * p[m]
      BY <2>2, <2>3, <2>4
    <3>2. l = u(q) /\ a \in Int
      BY <2>2
    <3> HIDE DEF part, u
    <3> QED
      BY <3>1, <3>2
  <2>5. CASE v[n - q] = 0
    <3>1. PICK k \in Nat : k = p[m]
      BY <1>1
    <3>2. 0 * b + l = l + 0 * k
      OBVIOUS
    <3>3. part(q) = 0 * b + l
      BY <2>2, <2>5
    <3> HIDE DEF part, u
    <3> QED
      BY <2>2, <3>1, <3>2, <3>3
  <2> QED
    BY <1>0, <2>4, <2>5
<1>8. u(q) \in 0 .. p[m] - 1 /\ v[n] \in 0 .. p[m] - 1
  <2>1. q \in 0 .. q /\ n \in n - q .. n /\ q \in 0 .. m
    BY <1>1
  <2>2. u(q) \in 0 .. p[q] - 1
    BY <2>1, DigitsBelow
  <2>3. p[q] =< p[m] /\ p[q] \in Nat
    BY <1>1, <2>1, PowersGrow
  <2> HIDE DEF u
  <2> QED
    BY <1>0, <1>1, <2>1, <2>2, <2>3
<1> HIDE DEF part, u
<1>9. PICK k \in Nat \ {0} : k = p[m]
  BY <1>1
<1>10. PICK f \in Int : f = e + c /\ f * k = e * k + c * k
  OBVIOUS
<1>11. v[n] = u(q) + f * k
  BY <1>5, <1>6, <1>7, <1>8, <1>9, <1>10
<1>12. v[n] = u(q)
  BY <1>8, <1>9, <1>11, SameRest
<1> QED
  BY <1>12 DEF u
=============================================================================
