--------------------------- MODULE ThreadsProofs ---------------------------
(***************************************************************************)
(* Proofs about Threads, for any number of threads, every set of strings   *)
(* and every set of seeds.                                                 *)
(***************************************************************************)
EXTENDS Threads, SeqLemmas

\* The calls in progress, by the function that is called
ParseCall ==
  [op : ParseOp, args : Seq(Seq(Nat) \cup Nat), clean : BOOLEAN,
   pc : {"strdup", "first", "next", "free"}, todo : Seq(Seq(Nat)),
   long_addr : 0 .. FAILED, longs : Seq(0 .. FAILED)]
EtherCall ==
  [op : {"ether_ntoa"}, args : Seq(Mac), clean : BOOLEAN, pc : {"read"}]
SeedCall ==
  [op : {"key_hash"}, args : {<<>>}, clean : BOOLEAN, seed : Seed \cup {UNSET},
   pc : {"seed", "use"}]
CallOrNull == {NULL} \cup ParseCall \cup EtherCall \cup SeedCall

Parsing(t) == call[t] # NULL /\ call[t].op \in ParseOp
Printing(t) == call[t] # NULL /\ call[t].op = "ether_ntoa"
Hashing(t) == call[t] # NULL /\ call[t].op = "key_hash"

\* A call that parses has a string to parse.
CallsOK ==
  /\ call \in [Thread -> CallOrNull] /\ fault \in BOOLEAN
  /\ \A t \in Thread : Parsing(t) => call[t].todo # <<>>

StaticsOK ==
  /\ position \in [owner : Thread \cup {NULL}, rest : Seq(Nat), freed : BOOLEAN]
  /\ addr_buf \in Mac \cup {NULL}
  /\ hash_seed \in Seed \cup {UNSET} /\ seeds \subseteq Seed

\* A thread between two tokens that nobody disturbed finds strtok's position
\* in its own buffer, which it has not freed.
Owned ==
  \A t \in Thread : Parsing(t) /\ call[t].pc = "next" =>
    /\ position.owner # NULL
    /\ call[t].clean => position.owner = t /\ ~position.freed

\* A key is hashed with a seed that has been set.
Seeded ==
  \A t \in Thread : Hashing(t) /\ call[t].pc = "use" =>
    hash_seed \in Seed /\ call[t].seed \in Seed

\* Without a race one thread at most is about to set the seed, none has been
\* set before it does, and none is replaced.
OneSeed ==
  ~raced =>
    /\ \A t, u \in Thread :
         /\ Hashing(t) /\ call[t].pc = "seed"
         /\ Hashing(u) /\ call[u].pc = "seed"
         => t = u
    /\ \A t \in Thread : Hashing(t) =>
         /\ call[t].pc = "seed" => hash_seed = UNSET
         /\ call[t].pc = "use" => call[t].seed = hash_seed
    /\ seeds \subseteq {hash_seed}

Inv == CallsOK /\ StaticsOK /\ Owned /\ Seeded /\ OneSeed /\ FaultsOnlyShared
-----------------------------------------------------------------------------
(* What a step leaves of the calls of other threads *)

\* Thread u is where it was in its call, which is no longer clean if disturbed.
Kept(u, disturbed) ==
  call'[u] # NULL =>
    /\ call[u] # NULL
    /\ call'[u].op = call[u].op /\ call'[u].pc = call[u].pc
    /\ call'[u].args = call[u].args
    /\ call'[u].clean => call[u].clean /\ u \notin disturbed
    /\ call[u].op \in ParseOp =>
         /\ call'[u].todo = call[u].todo /\ call'[u].longs = call[u].longs
         /\ call'[u].long_addr = call[u].long_addr
    /\ call[u].op = "key_hash" => call'[u].seed = call[u].seed

Twos == [i \in 0 .. BITS |-> 2 ^ i]
OctetPowers == [i \in 0 .. OCTETS |-> OCTET ^ i]

LEMMA PowersOfTwo == PowersOf(Twos, 2, BITS)
<1>1. BITS \in Nat
  BY AddressAssumption
<1>2. PICK p : p = Twos
  OBVIOUS
<1>3. p[0] = 1 /\ \A i \in 0 .. BITS - 1 : p[i + 1] = 2 * p[i]
  <2>1. 0 \in 0 .. BITS /\ \A i \in 0 .. BITS - 1 : i \in 0 .. BITS /\ i + 1 \in 0 .. BITS
    BY <1>1
  <2>2. \A i \in 0 .. BITS : p[i] = 2 ^ i
    BY <1>2, Zenon DEF Twos
  <2> QED
    BY <2>1, <2>2, PowerAssumption, Zenon
<1>4. p = [i \in 0 .. BITS |-> p[i]]
  BY <1>2 DEF Twos
<1>5. 2 \in Nat \ {0}
  OBVIOUS
<1>6. PowersOf(p, 2, BITS)
  BY <1>1, <1>3, <1>4, <1>5, PowersAre
<1> QED
  BY <1>2, <1>6

LEMMA PowersOfOctet == PowersOf(OctetPowers, OCTET, OCTETS)
<1>1. OCTETS \in Nat /\ OCTET \in Nat \ {0}
  BY AddressAssumption
<1>2. PICK p : p = OctetPowers
  OBVIOUS
<1>3. p[0] = 1 /\ \A i \in 0 .. OCTETS - 1 : p[i + 1] = OCTET * p[i]
  BY <1>1, <1>2, PowerAssumption DEF OctetPowers
<1>4. p = [i \in 0 .. OCTETS |-> p[i]]
  BY <1>2 DEF OctetPowers
<1>5. PowersOf(p, OCTET, OCTETS)
  BY <1>1, <1>3, <1>4, PowersAre
<1> QED
  BY <1>2, <1>5

LEMMA Powers == FAILED \in Nat /\ 2 ^ BITS = FAILED + 1
<1>1. BITS \in 0 .. BITS
  BY AddressAssumption
<1>2. 2 ^ BITS \in Nat \ {0}
  BY <1>1, PowersOfTwo DEF PowersOf, Twos
<1> QED
  BY <1>2 DEF FAILED

LEMMA CallTypes ==
  ASSUME NEW c \in CallOrNull, c # NULL
  PROVE  /\ c.op \in ParseOp => c \in ParseCall
         /\ c.op = "ether_ntoa" => c \in EtherCall
         /\ c.op = "key_hash" => c \in SeedCall
         /\ c.op \in ParseOp \cup {"ether_ntoa", "key_hash"}
         /\ c.clean \in BOOLEAN
BY DEF CallOrNull, ParseCall, EtherCall, SeedCall, ParseOp

\* Being disturbed changes nothing else of a call.
LEMMA Disturbed ==
  ASSUME NEW c \in CallOrNull, c # NULL
  PROVE  /\ [c EXCEPT !.clean = FALSE] \in CallOrNull
         /\ ~[c EXCEPT !.clean = FALSE].clean
         /\ [c EXCEPT !.clean = FALSE].op = c.op
         /\ [c EXCEPT !.clean = FALSE].pc = c.pc
         /\ [c EXCEPT !.clean = FALSE].args = c.args
         /\ c.op \in ParseOp =>
              /\ [c EXCEPT !.clean = FALSE].todo = c.todo
              /\ [c EXCEPT !.clean = FALSE].longs = c.longs
              /\ [c EXCEPT !.clean = FALSE].long_addr = c.long_addr
         /\ c.op = "key_hash" => [c EXCEPT !.clean = FALSE].seed = c.seed
<1>1. CASE c \in ParseCall
  <2>1. [c EXCEPT !.clean = FALSE] \in ParseCall
    BY <1>1 DEF ParseCall
  <2> QED
    BY <1>1, <2>1 DEF ParseCall, ParseOp, CallOrNull
<1>2. CASE c \in EtherCall
  <2>1. [c EXCEPT !.clean = FALSE] \in EtherCall
    BY <1>2 DEF EtherCall
  <2> QED
    BY <1>2, <2>1 DEF EtherCall, ParseOp, CallOrNull
<1>3. CASE c \in SeedCall
  <2>1. [c EXCEPT !.clean = FALSE] \in SeedCall
    BY <1>3 DEF SeedCall
  <2> QED
    BY <1>3, <2>1 DEF SeedCall, ParseOp, CallOrNull
<1> QED
  BY <1>1, <1>2, <1>3 DEF CallOrNull

\* A step moves one call, and disturbs some of the others.
LEMMA MovesFacts ==
  ASSUME CallsOK, NEW t \in Thread, NEW c \in CallOrNull,
         NEW D, \A u \in D : u \in Thread /\ call[u] # NULL,
         Moves(t, c, D)
  PROVE  /\ call' \in [Thread -> CallOrNull] /\ call'[t] = c
         /\ \A u \in Thread \ {t} : Kept(u, D)
<1>1. \A u \in Thread : call[u] \in CallOrNull
  BY DEF CallsOK
<1>2. /\ call' \in [Thread -> CallOrNull] /\ call'[t] = c
      /\ \A u \in Thread \ {t} :
           call'[u] = IF u \in D THEN [call[u] EXCEPT !.clean = FALSE] ELSE call[u]
  <2>1. call' = [u \in Thread |->
                   IF u = t THEN c
                   ELSE IF u \in D THEN [call[u] EXCEPT !.clean = FALSE]
                   ELSE call[u]]
    BY DEF Moves
  <2>2. \A u \in D : [call[u] EXCEPT !.clean = FALSE] \in CallOrNull
    BY <1>1, Disturbed
  <2> QED
    BY <1>1, <2>1, <2>2
<1>3. ASSUME NEW u \in Thread \ {t}, u \in D PROVE Kept(u, D)
  <2>1. call'[u] = [call[u] EXCEPT !.clean = FALSE] /\ call[u] # NULL
        /\ call[u] \in CallOrNull
    BY <1>1, <1>2, <1>3
  <2> QED
    BY <2>1, Disturbed DEF Kept
<1>4. ASSUME NEW u \in Thread \ {t}, u \notin D PROVE Kept(u, D)
  BY <1>2, <1>4 DEF Kept
<1> QED
  BY <1>2, <1>3, <1>4, Powers
-----------------------------------------------------------------------------
(* Steps in which one call moves and strtok's position does not *)

LEMMA CallsKept ==
  ASSUME CallsOK, NEW t \in Thread, NEW c \in CallOrNull,
         NEW D, \A u \in D : u \in Thread /\ call[u] # NULL,
         Moves(t, c, D), UNCHANGED fault,
         c # NULL /\ c.op \in ParseOp => c.todo # <<>>
  PROVE  CallsOK'
<1>1. /\ call' \in [Thread -> CallOrNull] /\ call'[t] = c
      /\ \A u \in Thread \ {t} : Kept(u, D)
  BY MovesFacts
<1>2. ASSUME NEW u \in Thread, Parsing(u)' PROVE call'[u].todo # <<>>
  <2>1. CASE u = t
    BY <1>1, <1>2, <2>1 DEF Parsing
  <2>2. CASE u # t
    <3>1. Kept(u, D)
      BY <1>1, <2>2
    <3> QED
      BY <1>2, <3>1 DEF Kept, Parsing, CallsOK
  <2> QED
    BY <2>1, <2>2
<1> QED
  BY <1>1, <1>2 DEF CallsOK

\* A thread that does not hash leaves the seed as it was.
LEMMA SeedsKept ==
  ASSUME CallsOK, Seeded, OneSeed, NEW t \in Thread, NEW c \in CallOrNull,
         NEW D, \A u \in D : u \in Thread /\ call[u] # NULL,
         Moves(t, c, D), UNCHANGED hashing,
         c = NULL \/ c.op # "key_hash"
  PROVE  Seeded' /\ OneSeed'
<1>1. /\ call'[t] = c /\ \A u \in Thread \ {t} : Kept(u, D)
  BY MovesFacts
<1>2. ASSUME NEW u \in Thread, Hashing(u)'
      PROVE  Hashing(u) /\ call'[u].pc = call[u].pc /\ call'[u].seed = call[u].seed
  <2>1. u # t /\ Kept(u, D)
    BY <1>1, <1>2 DEF Hashing
  <2> QED
    BY <1>2, <2>1 DEF Kept, Hashing
<1>3. hash_seed' = hash_seed /\ seeds' = seeds /\ raced' = raced
  BY DEF hashing
<1>4. Seeded'
  BY <1>2, <1>3 DEF Seeded
<1>5. ASSUME ~raced
      PROVE  /\ \A u, v \in Thread :
                  /\ Hashing(u)' /\ call'[u].pc = "seed"
                  /\ Hashing(v)' /\ call'[v].pc = "seed"
                  => u = v
             /\ \A u \in Thread : Hashing(u)' =>
                  /\ call'[u].pc = "seed" => hash_seed' = UNSET
                  /\ call'[u].pc = "use" => call'[u].seed = hash_seed'
             /\ seeds' \subseteq {hash_seed'}
  BY <1>2, <1>3, <1>5 DEF OneSeed
<1>6. OneSeed'
  BY <1>3, <1>5 DEF OneSeed
<1> QED
  BY <1>4, <1>6

\* A thread that is not between two tokens leaves the others where they were.
LEMMA OwnedKept ==
  ASSUME CallsOK, Owned, NEW t \in Thread, NEW c \in CallOrNull,
         NEW D, \A u \in D : u \in Thread /\ call[u] # NULL,
         Moves(t, c, D), UNCHANGED position,
         c # NULL /\ c.op \in ParseOp => c.pc # "next"
  PROVE  Owned'
<1>1. /\ call'[t] = c /\ \A u \in Thread \ {t} : Kept(u, D)
  BY MovesFacts
<1>2. ASSUME NEW u \in Thread, Parsing(u)', call'[u].pc = "next"
      PROVE  /\ position.owner # NULL
             /\ call'[u].clean => position.owner = u /\ ~position.freed
  <2>1. u # t /\ Kept(u, D)
    BY <1>1, <1>2 DEF Parsing
  <2>2. Parsing(u) /\ call[u].pc = "next" /\ (call'[u].clean => call[u].clean)
    BY <1>2, <2>1 DEF Kept, Parsing
  <2> QED
    BY <2>2 DEF Owned
<1> QED
  BY <1>2 DEF Owned

LEMMA QuietSafe ==
  ASSUME Inv, NEW t \in Thread, NEW c \in CallOrNull,
         NEW D, \A u \in D : u \in Thread /\ call[u] # NULL,
         Moves(t, c, D), ~fault, UNCHANGED <<fault, position, hashing>>,
         addr_buf' \in Mac \cup {NULL},
         c = NULL \/ c.op # "key_hash",
         c # NULL /\ c.op \in ParseOp => c.todo # <<>> /\ c.pc # "next"
  PROVE  Inv'
<1>1. CallsOK'
  BY CallsKept DEF Inv
<1>2. Seeded' /\ OneSeed'
  BY SeedsKept DEF Inv
<1>3. Owned'
  BY OwnedKept DEF Inv
<1>4. StaticsOK'
  BY DEF Inv, StaticsOK, hashing
<1>5. FaultsOnlyShared'
  BY DEF FaultsOnlyShared
<1> QED
  BY <1>1, <1>2, <1>3, <1>4, <1>5 DEF Inv
-----------------------------------------------------------------------------
(* Parsing *)

\* A new call parses one string or two.
LEMMA ParseSafe ==
  ASSUME Inv, NEW t \in Thread, NEW op \in ParseOp,
         NEW args \in Seq(Seq(Nat) \cup Nat), NEW todo \in Seq(Seq(Nat)),
         todo # <<>>, Parse(t, op, args, todo), UNCHANGED hashing
  PROVE  Inv'
<1> DEFINE c == [op |-> op, args |-> args, clean |-> TRUE, pc |-> "strdup",
                 todo |-> todo, long_addr |-> 0, longs |-> <<>>]
<1>1. c \in ParseCall
  BY Powers DEF ParseCall
<1>2. c.op \in ParseOp /\ c.todo # <<>> /\ c.pc # "next" /\ c.op # "key_hash"
  BY DEF ParseOp
<1>3. Moves(t, c, {}) /\ ~fault /\ UNCHANGED <<fault, position, addr_buf>>
  BY DEF Parse, Goes, Idle, statics
<1> HIDE DEF c
<1>4. c \in CallOrNull /\ addr_buf' \in Mac \cup {NULL}
  BY <1>1, <1>3 DEF CallOrNull, Inv, StaticsOK
<1> QED
  BY <1>2, <1>3, <1>4, QuietSafe

\* A call that has parsed a string goes on with the next one, or ends.
LEMMA ParsedMoves ==
  ASSUME Inv, NEW t \in Thread, call[t] \in ParseCall, call[t].todo # <<>>,
         NEW long \in 0 .. FAILED, NEW clean \in BOOLEAN, NEW D,
         Parsed(t, long, clean, D)
  PROVE  \E c \in CallOrNull :
           /\ Moves(t, c, D) /\ UNCHANGED fault
           /\ c = NULL \/ c.op # "key_hash"
           /\ c # NULL /\ c.op \in ParseOp => c.todo # <<>> /\ c.pc # "next"
<1> DEFINE longs == Append(call[t].longs, long)
           c == [call[t] EXCEPT !.longs = longs, !.todo = Tail(@), !.pc = "strdup",
                                !.long_addr = 0, !.clean = @ /\ clean]
<1>1. longs \in Seq(0 .. FAILED) /\ Tail(call[t].todo) \in Seq(Seq(Nat))
  BY HeadTailProperties, AppendProperties DEF ParseCall
<1>2. c \in ParseCall /\ c.pc = "strdup" /\ c.op = call[t].op
  <2>1. (call[t].clean /\ clean) \in BOOLEAN
    OBVIOUS
  <2>2. 0 \in 0 .. FAILED
    BY Powers
  <2> HIDE DEF longs
  <2> QED
    BY <1>1, <2>1, <2>2 DEF ParseCall
<1>3. c \in CallOrNull /\ c.op # "key_hash" /\ NULL \in CallOrNull
  BY <1>2 DEF CallOrNull, ParseCall, ParseOp
<1>4. \/ c.todo # <<>> /\ Goes(t, c, D)
      \/ \E r : Ends(t, c, r, D)
  BY DEF Parsed
<1> HIDE DEF c
<1>5. CASE c.todo # <<>> /\ Goes(t, c, D)
  BY <1>2, <1>3, <1>5 DEF Goes
<1>6. CASE \E r : Ends(t, c, r, D)
  BY <1>3, <1>6 DEF Ends
<1> QED
  BY <1>4, <1>5, <1>6

\* What a thread that is at a step of a parsing function has.
LEMMA AtParse ==
  ASSUME Inv, NEW t \in Thread, NEW pc, At(t, ParseOp, pc)
  PROVE  /\ ~fault /\ Parsing(t) /\ call[t].pc = pc
         /\ call[t] \in ParseCall /\ call[t].todo # <<>>
<1>1. ~fault /\ Parsing(t) /\ call[t].pc = pc /\ call[t] \in CallOrNull
  BY DEF At, Parsing, Inv, CallsOK
<1> QED
  BY <1>1, CallTypes DEF Parsing, Inv, CallsOK

LEMMA StrdupSafe ==
  ASSUME Inv, NEW t \in Thread, Strdup(t), UNCHANGED hashing
  PROVE  Inv'
<1>1. /\ ~fault /\ Parsing(t) /\ call[t] \in ParseCall /\ call[t].todo # <<>>
      /\ UNCHANGED <<position, addr_buf>>
  BY AtParse DEF Strdup, statics
<1>2. addr_buf' \in Mac \cup {NULL}
  BY <1>1 DEF Inv, StaticsOK
<1>3. CASE Parsed(t, FAILED, FALSE, {})
  <2>1. FAILED \in 0 .. FAILED
    BY Powers
  <2>2. PICK c \in CallOrNull :
          /\ Moves(t, c, {}) /\ UNCHANGED fault
          /\ c = NULL \/ c.op # "key_hash"
          /\ c # NULL /\ c.op \in ParseOp => c.todo # <<>> /\ c.pc # "next"
    BY <1>1, <1>3, <2>1, ParsedMoves
  <2> QED
    BY <1>1, <1>2, <2>2, QuietSafe
<1>4. CASE Goes(t, [call[t] EXCEPT !.pc = "first"], {})
  <2>1. PICK c : c = [call[t] EXCEPT !.pc = "first"]
    OBVIOUS
  <2>2. c \in ParseCall /\ c.pc = "first" /\ c.todo = call[t].todo
    BY <1>1, <2>1 DEF ParseCall
  <2>3. c \in CallOrNull /\ c.op # "key_hash"
    BY <2>2 DEF CallOrNull, ParseCall, ParseOp
  <2>4. Moves(t, c, {}) /\ UNCHANGED fault
    BY <1>4, <2>1 DEF Goes
  <2> QED
    BY <1>1, <1>2, <2>2, <2>3, <2>4, QuietSafe
<1> QED
  BY <1>3, <1>4 DEF Strdup

\* The threads between two tokens are those a call of strtok disturbs.
LEMMA TokenizingFacts ==
  ASSUME NEW t \in Thread
  PROVE  /\ \A u \in Tokenizing(t) : u \in Thread /\ call[u] # NULL
         /\ \A u \in Thread \ {t} :
              ~fault /\ Parsing(u) /\ call[u].pc = "next" => u \in Tokenizing(t)
BY DEF Tokenizing, At, Parsing

\* A thread that moves strtok's position may leave no other clean at it.
LEMMA StealSafe ==
  ASSUME Inv, NEW t \in Thread, NEW c \in CallOrNull,
         Moves(t, c, Tokenizing(t)), ~fault, UNCHANGED <<fault, addr_buf, hashing>>,
         position' \in [owner : Thread \cup {NULL}, rest : Seq(Nat), freed : BOOLEAN],
         position'.owner # NULL,
         c = NULL \/ c.op # "key_hash",
         c # NULL /\ c.op \in ParseOp =>
           /\ c.todo # <<>>
           /\ c.pc = "next" /\ c.clean => position'.owner = t /\ ~position'.freed
  PROVE  Inv'
<1> DEFINE D == Tokenizing(t)
<1>1. \A u \in D : u \in Thread /\ call[u] # NULL
  BY TokenizingFacts
<1>2. \A u \in Thread \ {t} : Parsing(u) /\ call[u].pc = "next" => u \in D
  BY TokenizingFacts
<1> HIDE DEF D
<1>3. Moves(t, c, D)
  BY DEF D
<1>4. CallsOK'
  BY <1>1, <1>3, CallsKept DEF Inv
<1>5. Seeded' /\ OneSeed'
  BY <1>1, <1>3, SeedsKept DEF Inv
<1>6. /\ call'[t] = c /\ \A u \in Thread \ {t} : Kept(u, D)
  BY <1>1, <1>3, MovesFacts DEF Inv
<1>7. ASSUME NEW u \in Thread, Parsing(u)', call'[u].pc = "next"
      PROVE  call'[u].clean => position'.owner = u /\ ~position'.freed
  <2>1. CASE u = t
    BY <1>6, <1>7, <2>1 DEF Parsing
  <2>2. CASE u # t
    BY <1>2, <1>6, <1>7, <2>2 DEF Kept, Parsing
  <2> QED
    BY <2>1, <2>2
<1>8. Owned'
  BY <1>7 DEF Owned
<1>9. StaticsOK' /\ FaultsOnlyShared'
  BY DEF Inv, StaticsOK, FaultsOnlyShared, hashing
<1> QED
  BY <1>4, <1>5, <1>8, <1>9 DEF Inv

LEMMA ShiftedType ==
  ASSUME NEW long \in 0 .. FAILED, NEW token \in Nat
  PROVE  Shifted(long, token) \in 0 .. FAILED
<1>1. PICK n \in Nat : n = long * OCTET + (token % OCTET)
  BY Powers, AddressAssumption
<1>2. PICK m \in Nat \ {0} : m = 2 ^ BITS /\ m = FAILED + 1
  BY Powers
<1>3. n % m \in 0 .. m - 1
  BY <1>1, <1>2
<1>4. Shifted(long, token) = n % m
  BY <1>1, <1>2, Zenon DEF Shifted
<1> QED
  BY <1>2, <1>3, <1>4, Powers

\* Thread t takes a token from its own buffer or from that of another.
LEMMA WithTokenMoves ==
  ASSUME Inv, NEW t \in Thread, call[t] \in ParseCall, call[t].todo # <<>>,
         NEW token \in Nat, WithToken(t, token)
  PROVE  \E c \in ParseCall :
           /\ Moves(t, c, Tokenizing(t)) /\ UNCHANGED fault
           /\ c.todo # <<>> /\ c.pc = "next" /\ c.clean = call[t].clean
<1>1. PICK c : c = [call[t] EXCEPT !.pc = "next", !.long_addr = Shifted(@, token)]
  OBVIOUS
<1>2. Shifted(call[t].long_addr, token) \in 0 .. FAILED
  BY ShiftedType DEF ParseCall
<1>3. c \in ParseCall /\ c.pc = "next" /\ c.todo = call[t].todo
      /\ c.clean = call[t].clean
  BY <1>1, <1>2 DEF ParseCall
<1>4. Moves(t, c, Tokenizing(t)) /\ UNCHANGED fault
  BY <1>1 DEF WithToken, Goes
<1> QED
  BY <1>3, <1>4

LEMMA StrtokFirstSafe ==
  ASSUME Inv, NEW t \in Thread, StrtokFirst(t), UNCHANGED hashing
  PROVE  Inv'
<1> DEFINE ip == Head(call[t].todo)
<1>1. /\ ~fault /\ Parsing(t) /\ call[t] \in ParseCall /\ call[t].todo # <<>>
      /\ UNCHANGED addr_buf
  BY AtParse DEF StrtokFirst
<1>2. ip \in Seq(Nat)
  BY <1>1, HeadTailProperties DEF ParseCall
<1> HIDE DEF ip
<1>3. t # NULL
  BY ThreadAssumption
<1>4. CASE /\ position' = [owner |-> t, rest |-> <<>>, freed |-> FALSE]
           /\ Parsed(t, FAILED, TRUE, Tokenizing(t))
  <2>1. FAILED \in 0 .. FAILED
    BY Powers
  <2>2. PICK c \in CallOrNull :
          /\ Moves(t, c, Tokenizing(t)) /\ UNCHANGED fault
          /\ c = NULL \/ c.op # "key_hash"
          /\ c # NULL /\ c.op \in ParseOp => c.todo # <<>> /\ c.pc # "next"
    BY <1>1, <1>4, <2>1, ParsedMoves
  <2>3. position' \in [owner : Thread \cup {NULL}, rest : Seq(Nat), freed : BOOLEAN]
        /\ position'.owner = t
    BY <1>4
  <2> QED
    BY <1>1, <1>3, <2>2, <2>3, StealSafe
<1>5. CASE /\ ip # <<>>
           /\ position' = [owner |-> t, rest |-> Tail(ip), freed |-> FALSE]
           /\ WithToken(t, Head(ip))
  <2>1. Head(ip) \in Nat /\ Tail(ip) \in Seq(Nat)
    BY <1>2, <1>5, HeadTailProperties
  <2>2. PICK c \in ParseCall :
           /\ Moves(t, c, Tokenizing(t)) /\ UNCHANGED fault
           /\ c.todo # <<>> /\ c.pc = "next" /\ c.clean = call[t].clean
    BY <1>1, <1>5, <2>1, WithTokenMoves
  <2>3. /\ position' \in [owner : Thread \cup {NULL}, rest : Seq(Nat), freed : BOOLEAN]
        /\ position'.owner = t /\ ~position'.freed
    BY <1>5, <2>1
  <2>4. c \in CallOrNull /\ c.op # "key_hash"
    BY DEF CallOrNull, ParseCall, ParseOp
  <2> QED
    BY <1>1, <1>3, <2>2, <2>3, <2>4, StealSafe
<1> QED
  BY <1>4, <1>5 DEF StrtokFirst, ip

LEMMA StrtokNextSafe ==
  ASSUME Inv, NEW t \in Thread, StrtokNext(t), UNCHANGED hashing
  PROVE  Inv'
<1>1. /\ ~fault /\ Parsing(t) /\ call[t].pc = "next" /\ call[t] \in ParseCall
      /\ call[t].todo # <<>> /\ UNCHANGED addr_buf
  BY AtParse DEF StrtokNext
<1>2. position \in [owner : Thread \cup {NULL}, rest : Seq(Nat), freed : BOOLEAN]
  BY DEF Inv, StaticsOK
<1>3. /\ position.owner # NULL
      /\ call[t].clean => position.owner = t /\ ~position.freed
  BY <1>1 DEF Inv, Owned
<1>4. CASE position.freed /\ Crashes(call[t]) /\ UNCHANGED position
  <2>1. ~call[t].clean
    BY <1>3, <1>4
  <2>2. ret'.clean = call[t].clean
    BY <1>4 DEF Crashes, Result
  <2>3. FaultsOnlyShared'
    BY <2>1, <2>2 DEF FaultsOnlyShared
  <2>4. call' = call /\ fault' = TRUE
    BY <1>4 DEF Crashes
  <2>5. CallsOK' /\ Owned' /\ Seeded' /\ OneSeed' /\ StaticsOK'
    BY <1>1, <1>4, <2>4
       DEF Inv, CallsOK, Owned, Seeded, OneSeed, StaticsOK, Parsing, Hashing, hashing
  <2> QED
    BY <2>3, <2>5 DEF Inv
<1>5. CASE /\ ~position.freed /\ position.rest # <<>>
           /\ position' = NextPosition
           /\ WithToken(t, Head(position.rest))
  <2>1. Head(position.rest) \in Nat /\ Tail(position.rest) \in Seq(Nat)
    BY <1>2, <1>5, HeadTailProperties
  <2>2. PICK c \in ParseCall :
           /\ Moves(t, c, Tokenizing(t)) /\ UNCHANGED fault
           /\ c.todo # <<>> /\ c.pc = "next" /\ c.clean = call[t].clean
    BY <1>1, <1>5, <2>1, WithTokenMoves
  <2>3. /\ position' \in [owner : Thread \cup {NULL}, rest : Seq(Nat), freed : BOOLEAN]
        /\ position'.owner = position.owner /\ ~position'.freed
    BY <1>2, <1>5, <2>1 DEF NextPosition
  <2>4. c \in CallOrNull /\ c.op # "key_hash"
    BY DEF CallOrNull, ParseCall, ParseOp
  <2> QED
    BY <1>1, <1>3, <2>2, <2>3, <2>4, StealSafe
<1>6. CASE UNCHANGED position /\ Goes(t, [call[t] EXCEPT !.pc = "free"], {})
  <2>1. PICK c : c = [call[t] EXCEPT !.pc = "free"]
    OBVIOUS
  <2>2. c \in ParseCall /\ c.pc = "free" /\ c.todo = call[t].todo
    BY <1>1, <2>1 DEF ParseCall
  <2>3. c \in CallOrNull /\ c.op # "key_hash"
    BY <2>2 DEF CallOrNull, ParseCall, ParseOp
  <2>4. Moves(t, c, {}) /\ UNCHANGED fault
    BY <1>6, <2>1 DEF Goes
  <2>5. addr_buf' \in Mac \cup {NULL}
    BY <1>1 DEF Inv, StaticsOK
  <2> QED
    BY <1>1, <1>6, <2>2, <2>3, <2>4, <2>5, QuietSafe
<1> QED
  BY <1>4, <1>5, <1>6 DEF StrtokNext

\* A thread frees its own buffer, at which no other clean one is.
LEMMA FreeSafe ==
  ASSUME Inv, NEW t \in Thread, Free(t), UNCHANGED hashing
  PROVE  Inv'
<1>1. /\ ~fault /\ Parsing(t) /\ call[t].pc = "free" /\ call[t] \in ParseCall
      /\ call[t].todo # <<>> /\ UNCHANGED addr_buf
      /\ position' = [position EXCEPT !.freed = @ \/ position.owner = t]
  BY AtParse DEF Free
<1>2. position \in [owner : Thread \cup {NULL}, rest : Seq(Nat), freed : BOOLEAN]
  BY DEF Inv, StaticsOK
<1>3. PICK long \in 0 .. FAILED : long = call[t].long_addr
  BY <1>1 DEF ParseCall
<1>4. PICK c \in CallOrNull :
        /\ Moves(t, c, {}) /\ UNCHANGED fault
        /\ c = NULL \/ c.op # "key_hash"
        /\ c # NULL /\ c.op \in ParseOp => c.todo # <<>> /\ c.pc # "next"
  <2>1. PICK D : D = {}
    OBVIOUS
  <2>2. Parsed(t, long, TRUE, D)
    BY <1>3, <2>1 DEF Free
  <2> QED
    BY <1>1, <2>1, <2>2, ParsedMoves, ZenonT(30)
<1>5. CallsOK' /\ Seeded' /\ OneSeed'
  BY <1>4, CallsKept, SeedsKept DEF Inv
<1>6. /\ call'[t] = c /\ \A u \in Thread \ {t} : Kept(u, {})
  BY <1>4, MovesFacts DEF Inv
<1>7. /\ (position.freed \/ position.owner = t) \in BOOLEAN
      /\ position'.owner = position.owner
      /\ position'.freed = (position.freed \/ position.owner = t)
      /\ position' \in [owner : Thread \cup {NULL}, rest : Seq(Nat), freed : BOOLEAN]
  BY <1>1, <1>2
<1>8. ASSUME NEW u \in Thread, Parsing(u)', call'[u].pc = "next"
      PROVE  /\ position'.owner # NULL
             /\ call'[u].clean => position'.owner = u /\ ~position'.freed
  <2>1. u # t /\ Kept(u, {})
    BY <1>4, <1>6, <1>8 DEF Parsing
  <2>2. Parsing(u) /\ call[u].pc = "next" /\ (call'[u].clean => call[u].clean)
    BY <1>8, <2>1 DEF Kept, Parsing
  <2>3. /\ position.owner # NULL
        /\ call[u].clean => position.owner = u /\ ~position.freed
    BY <2>2 DEF Inv, Owned
  <2> QED
    BY <1>7, <2>1, <2>2, <2>3
<1>9. Owned'
  BY <1>8 DEF Owned
<1>10. StaticsOK' /\ FaultsOnlyShared'
  BY <1>1, <1>4, <1>7 DEF Inv, StaticsOK, FaultsOnlyShared, hashing
<1> QED
  BY <1>5, <1>9, <1>10 DEF Inv
-----------------------------------------------------------------------------
(* The other functions *)

\* An address is printed from a buffer that every thread writes to.
LEMMA EtherNtoaSafe ==
  ASSUME Inv, NEW t \in Thread, NEW mac \in Mac, EtherNtoa(t, mac), UNCHANGED hashing
  PROVE  Inv'
<1> DEFINE c == [op |-> "ether_ntoa", args |-> <<mac>>, clean |-> TRUE, pc |-> "read"]
<1>1. /\ c \in CallOrNull /\ c.op # "key_hash" /\ c.op \notin ParseOp
      /\ NULL \in CallOrNull
  BY DEF CallOrNull, EtherCall, ParseOp
<1>2. PICK D : D = Reading(t)
  OBVIOUS
<1>3. \A u \in D : u \in Thread /\ call[u] # NULL
  BY <1>2 DEF Reading, At
<1>4. /\ Moves(t, c, D) \/ Moves(t, NULL, D)
      /\ ~fault /\ UNCHANGED <<fault, position>>
  BY <1>2 DEF EtherNtoa, Goes, Ends, Idle
<1>5. addr_buf' \in Mac \cup {NULL}
  BY DEF EtherNtoa, Inv, StaticsOK
<1> HIDE DEF c
<1>6. CASE Moves(t, c, D)
  BY <1>1, <1>3, <1>4, <1>5, <1>6, QuietSafe
<1>7. CASE Moves(t, NULL, D)
  BY <1>1, <1>3, <1>4, <1>5, <1>7, QuietSafe
<1> QED
  BY <1>4, <1>6, <1>7

LEMMA ReadAddrSafe ==
  ASSUME Inv, NEW t \in Thread, ReadAddr(t), UNCHANGED hashing
  PROVE  Inv'
<1>1. /\ Moves(t, NULL, {}) /\ ~fault /\ UNCHANGED <<fault, position>>
      /\ addr_buf' \in Mac \cup {NULL} /\ NULL \in CallOrNull
  BY DEF ReadAddr, Ends, At, statics, Inv, StaticsOK, CallOrNull
<1> QED
  BY <1>1, QuietSafe

LEMMA NetCallSafe ==
  ASSUME Inv, NEW t \in Thread, NetCall(t), UNCHANGED hashing
  PROVE  Inv'
<1>1. ASSUME NEW ip \in Ip, ToLong(t, ip) PROVE Inv'
  <2>1. ip \in Seq(Nat)
    BY AddressAssumption
  <2>2. /\ <<ip>> \in Seq(Seq(Nat) \cup Nat) /\ <<ip>> \in Seq(Seq(Nat))
        /\ <<ip>> # <<>> /\ "ipv4_to_long" \in ParseOp
    BY <2>1 DEF ParseOp
  <2> QED
    BY <1>1, <2>2, ParseSafe DEF ToLong
<1>2. ASSUME NEW test \in Ip, NEW match \in Net, NEW net_bits \in Bits,
             Matches(t, test, match, net_bits)
      PROVE  Inv'
  <2>1. test \in Seq(Nat) /\ match \in Seq(Nat) /\ net_bits \in Nat
    BY AddressAssumption
  <2> DEFINE a == <<test, match, net_bits>>
  <2>2. CASE /\ ~fault /\ net_bits > BITS /\ UNCHANGED statics
             /\ Crashes([op |-> "ipv4_matches", args |-> a, clean |-> TRUE])
    <3>1. ret'.op = "ipv4_matches" /\ ret'.args[3] = net_bits
      BY <2>2 DEF Crashes, Result
    <3>2. FaultsOnlyShared'
      BY <2>2, <3>1 DEF FaultsOnlyShared
    <3>3. call' = call /\ fault' = TRUE
      BY <2>2 DEF Crashes
    <3>4. CallsOK' /\ Owned' /\ Seeded' /\ OneSeed' /\ StaticsOK'
      BY <2>2, <3>3
         DEF Inv, CallsOK, Owned, Seeded, OneSeed, StaticsOK, Parsing, Hashing,
             hashing, statics
    <3> QED
      BY <3>2, <3>4 DEF Inv
  <2>3. /\ a \in Seq(Seq(Nat) \cup Nat) /\ "ipv4_matches" \in ParseOp
        /\ <<test, match>> \in Seq(Seq(Nat)) /\ <<match, test>> \in Seq(Seq(Nat))
        /\ <<test, match>> # <<>> /\ <<match, test>> # <<>>
    BY <2>1 DEF ParseOp
  <2>4. CASE \/ Parse(t, "ipv4_matches", a, <<test, match>>)
             \/ Parse(t, "ipv4_matches", a, <<match, test>>)
    <3> HIDE DEF a
    <3> QED
      BY <2>3, <2>4, ParseSafe
  <2> QED
    BY <1>2, <2>2, <2>4 DEF Matches, Idle
<1>3. ASSUME NEW long \in Long, ToIpv4(t, long) PROVE Inv'
  <2>1. ~fault' /\ UNCHANGED <<call, fault, statics, hashing>>
    BY <1>3 DEF ToIpv4, Idle
  <2> QED
    BY <2>1
       DEF Inv, CallsOK, Owned, Seeded, OneSeed, StaticsOK, FaultsOnlyShared,
           Parsing, Hashing, hashing, statics
<1>4. ASSUME NEW mac \in Mac, EtherNtoa(t, mac) PROVE Inv'
  BY <1>4, EtherNtoaSafe
<1> QED
  BY <1>1, <1>2, <1>3, <1>4 DEF NetCall
-----------------------------------------------------------------------------
(* Hashing *)

\* A step of a thread that hashes leaves the other invariants.
LEMMA HashingKeeps ==
  ASSUME Inv, NEW t \in Thread, NEW c \in CallOrNull,
         Moves(t, c, {}), ~fault, UNCHANGED <<fault, statics>>,
         c = NULL \/ c.op = "key_hash",
         hash_seed' \in Seed \cup {UNSET}, seeds' \subseteq Seed
  PROVE  CallsOK' /\ StaticsOK' /\ Owned' /\ FaultsOnlyShared'
<1>1. c # NULL => c.op \notin ParseOp
  BY DEF ParseOp
<1>2. CallsOK'
  BY <1>1, CallsKept DEF Inv
<1>3. Owned'
  BY <1>1, OwnedKept DEF Inv, statics
<1>4. StaticsOK' /\ FaultsOnlyShared'
  BY DEF Inv, StaticsOK, FaultsOnlyShared, statics
<1> QED
  BY <1>2, <1>3, <1>4, Powers

\* What it leaves of the other calls that hash.
LEMMA OtherHashing ==
  ASSUME Inv, NEW t \in Thread, NEW c \in CallOrNull, Moves(t, c, {})
  PROVE  /\ call'[t] = c
         /\ \A u \in Thread \ {t} : Hashing(u)' =>
              Hashing(u) /\ call'[u].pc = call[u].pc /\ call'[u].seed = call[u].seed
<1>1. /\ call'[t] = c /\ \A u \in Thread \ {t} : Kept(u, {})
  BY MovesFacts DEF Inv
<1> QED
  BY <1>1 DEF Kept, Hashing

\* A first call that finds another one under way is a race.
LEMMA HashKeySafe ==
  ASSUME Inv, NEW t \in Thread, HashKey(t), UNCHANGED statics
  PROVE  Inv'
<1> DEFINE c == [op |-> "key_hash", args |-> <<>>, clean |-> TRUE, seed |-> hash_seed,
                 pc |-> IF hash_seed = UNSET THEN "seed" ELSE "use"]
<1>1. hash_seed \in Seed \cup {UNSET} /\ seeds \subseteq Seed
  BY DEF Inv, StaticsOK
<1>2. c \in SeedCall
  BY <1>1 DEF SeedCall
<1>3. /\ c.op = "key_hash" /\ c.seed = hash_seed
      /\ c.pc = IF hash_seed = UNSET THEN "seed" ELSE "use"
  OBVIOUS
<1>4. /\ Moves(t, c, {}) /\ ~fault /\ call[t] = NULL
      /\ UNCHANGED <<fault, hash_seed, seeds>>
      /\ raced' = (raced \/ (hash_seed = UNSET
                             /\ \E u \in Thread : At(u, {"key_hash"}, "seed")))
  BY DEF HashKey, Goes, Idle
<1> HIDE DEF c
<1>5. c \in CallOrNull
  BY <1>2 DEF CallOrNull
<1>6. CallsOK' /\ StaticsOK' /\ Owned' /\ FaultsOnlyShared'
  BY <1>1, <1>3, <1>4, <1>5, HashingKeeps
<1>7. /\ call'[t] = c
      /\ \A u \in Thread \ {t} : Hashing(u)' =>
           Hashing(u) /\ call'[u].pc = call[u].pc /\ call'[u].seed = call[u].seed
  BY <1>4, <1>5, OtherHashing
<1>8. Seeded'
  BY <1>1, <1>3, <1>4, <1>7 DEF Inv, Seeded
<1>9. ASSUME ~raced' PROVE ~raced /\ (hash_seed = UNSET =>
        \A u \in Thread : ~(Hashing(u) /\ call[u].pc = "seed"))
  BY <1>4, <1>9 DEF At, Hashing
<1>10. OneSeed'
  <2>1. ASSUME ~raced', NEW u \in Thread, Hashing(u)'
        PROVE  /\ call'[u].pc = "seed" => hash_seed = UNSET
               /\ call'[u].pc = "use" => call'[u].seed = hash_seed
               /\ u # t => call'[u].pc # "seed"
    BY <1>3, <1>7, <1>9, <2>1 DEF Inv, OneSeed
  <2>2. ~raced' => seeds \subseteq {hash_seed}
    BY <1>9 DEF Inv, OneSeed
  <2> QED
    BY <1>4, <2>1, <2>2 DEF OneSeed
<1> QED
  BY <1>6, <1>8, <1>10 DEF Inv

LEMMA AtHash ==
  ASSUME Inv, NEW t \in Thread, NEW pc, At(t, {"key_hash"}, pc)
  PROVE  ~fault /\ Hashing(t) /\ call[t].pc = pc /\ call[t] \in SeedCall
<1>1. ~fault /\ Hashing(t) /\ call[t].pc = pc /\ call[t] \in CallOrNull
  BY DEF At, Hashing, Inv, CallsOK
<1> QED
  BY <1>1, CallTypes DEF Hashing

\* The thread that sets the seed is the only one, unless there was a race.
LEMMA SetSeedSafe ==
  ASSUME Inv, NEW t \in Thread, SetSeed(t), UNCHANGED statics
  PROVE  Inv'
<1>1. /\ ~fault /\ Hashing(t) /\ call[t].pc = "seed" /\ call[t] \in SeedCall
      /\ UNCHANGED <<seeds, raced>>
  BY AtHash DEF SetSeed
<1>2. PICK s \in Seed : /\ hash_seed' = s
                        /\ Goes(t, [call[t] EXCEPT !.pc = "use", !.seed = s], {})
  BY DEF SetSeed
<1>3. PICK c : c = [call[t] EXCEPT !.pc = "use", !.seed = s]
  OBVIOUS
<1>4. c \in SeedCall /\ c.op = "key_hash" /\ c.pc = "use" /\ c.seed = s
  BY <1>1, <1>3 DEF SeedCall
<1>5. c \in CallOrNull
  BY <1>4 DEF CallOrNull
<1>6. Moves(t, c, {}) /\ UNCHANGED fault
  BY <1>2, <1>3 DEF Goes
<1>7. seeds' \subseteq Seed
  BY <1>1 DEF Inv, StaticsOK
<1>8. CallsOK' /\ StaticsOK' /\ Owned' /\ FaultsOnlyShared'
  BY <1>1, <1>2, <1>4, <1>5, <1>6, <1>7, HashingKeeps
<1>9. /\ call'[t] = c
      /\ \A u \in Thread \ {t} : Hashing(u)' =>
           Hashing(u) /\ call'[u].pc = call[u].pc /\ call'[u].seed = call[u].seed
  BY <1>5, <1>6, OtherHashing
<1>10. Seeded'
  BY <1>2, <1>4, <1>9 DEF Inv, Seeded
<1>11. UNSET \notin Seed
  BY SeedAssumption DEF UNSET
<1>12. ASSUME ~raced
       PROVE  /\ hash_seed = UNSET /\ seeds = {}
              /\ \A u \in Thread \ {t} : Hashing(u) => call[u].pc # "seed"
              /\ \A u \in Thread : Hashing(u) => call[u].pc # "use"
  <2>1. hash_seed = UNSET
    BY <1>1, <1>12 DEF Inv, OneSeed
  <2>2. seeds = {}
    BY <1>11, <1>12, <2>1 DEF Inv, OneSeed, StaticsOK
  <2> QED
    BY <1>1, <1>11, <1>12, <2>1, <2>2 DEF Inv, OneSeed, Seeded
<1>13. ASSUME ~raced', NEW u \in Thread, Hashing(u)'
       PROVE  /\ call'[u].pc # "seed"
              /\ call'[u].pc = "use" => call'[u].seed = s
  BY <1>1, <1>4, <1>9, <1>12, <1>13
<1>14. ~raced' => seeds' \subseteq {s}
  BY <1>1, <1>12
<1>15. OneSeed'
  BY <1>2, <1>13, <1>14 DEF OneSeed
<1> QED
  BY <1>8, <1>10, <1>15 DEF Inv

LEMMA UseSeedSafe ==
  ASSUME Inv, NEW t \in Thread, UseSeed(t), UNCHANGED statics
  PROVE  Inv'
<1>1. /\ ~fault /\ Hashing(t) /\ call[t].pc = "use" /\ call[t] \in SeedCall
      /\ UNCHANGED <<hash_seed, raced>>
  BY AtHash DEF UseSeed
<1>2. PICK s \in {hash_seed, call[t].seed} :
        seeds' = seeds \cup {s} /\ Ends(t, call[t], s, {})
  BY DEF UseSeed
<1>3. hash_seed \in Seed /\ call[t].seed \in Seed
  BY <1>1 DEF Inv, Seeded
<1>4. Moves(t, NULL, {}) /\ UNCHANGED fault /\ NULL \in CallOrNull
  BY <1>2 DEF Ends, CallOrNull
<1>5. hash_seed' \in Seed \cup {UNSET} /\ seeds' \subseteq Seed
  BY <1>1, <1>2, <1>3 DEF Inv, StaticsOK
<1>6. CallsOK' /\ StaticsOK' /\ Owned' /\ FaultsOnlyShared'
  BY <1>1, <1>4, <1>5, HashingKeeps
<1>7. /\ call'[t] = NULL
      /\ \A u \in Thread \ {t} : Hashing(u)' =>
           Hashing(u) /\ call'[u].pc = call[u].pc /\ call'[u].seed = call[u].seed
  BY <1>4, OtherHashing
<1>8. Seeded'
  BY <1>1, <1>7 DEF Inv, Seeded, Hashing
<1>9. ASSUME ~raced' PROVE ~raced /\ s = hash_seed /\ seeds \subseteq {hash_seed}
  BY <1>1, <1>2, <1>9 DEF Inv, OneSeed
<1>10. \A u \in Thread : Hashing(u)' =>
         u # t /\ Hashing(u) /\ call'[u].pc = call[u].pc /\ call'[u].seed = call[u].seed
  BY <1>7 DEF Hashing
<1>11. ASSUME ~raced', NEW u \in Thread, Hashing(u)'
       PROVE  /\ call'[u].pc = "seed" => hash_seed' = UNSET
              /\ call'[u].pc = "use" => call'[u].seed = hash_seed'
              /\ \A v \in Thread :
                   /\ call'[u].pc = "seed" /\ Hashing(v)' /\ call'[v].pc = "seed"
                   => u = v
  BY <1>1, <1>9, <1>10, <1>11 DEF Inv, OneSeed
<1>12. ~raced' => seeds' \subseteq {hash_seed'}
  BY <1>1, <1>2, <1>9
<1>13. OneSeed'
  BY <1>11, <1>12 DEF OneSeed
<1> QED
  BY <1>6, <1>8, <1>13 DEF Inv
-----------------------------------------------------------------------------
(* The theorems *)

LEMMA InitInv == Init => Inv
<1> SUFFICES ASSUME Init PROVE Inv
  OBVIOUS
<1>1. call = [t \in Thread |-> NULL] /\ fault = FALSE
  BY DEF Init, CallsInit
<1>2. CallsOK /\ Owned /\ Seeded
  BY <1>1 DEF CallsOK, Owned, Seeded, Parsing, Hashing, CallOrNull
<1>3. StaticsOK
  BY DEF Init, StrtokInit, NetInit, SeedInit, StaticsOK
<1>4. OneSeed
  BY <1>1 DEF Init, SeedInit, OneSeed, Hashing
<1> QED
  BY <1>1, <1>2, <1>3, <1>4 DEF Inv, FaultsOnlyShared

LEMMA NextInv == Inv /\ [Next]_vars => Inv'
<1> SUFFICES ASSUME Inv, [Next]_vars PROVE Inv'
  OBVIOUS
<1>1. ASSUME NEW t \in Thread, Begin(t) PROVE Inv'
  BY <1>1, NetCallSafe, HashKeySafe DEF Begin
<1>2. ASSUME NEW t \in Thread, NetStep(t), UNCHANGED hashing PROVE Inv'
  BY <1>2, StrdupSafe, StrtokFirstSafe, StrtokNextSafe, FreeSafe, ReadAddrSafe
     DEF NetStep
<1>3. ASSUME NEW t \in Thread, HashStep(t), UNCHANGED statics PROVE Inv'
  BY <1>3, SetSeedSafe, UseSeedSafe DEF HashStep
<1>4. CASE UNCHANGED vars
  BY <1>4
     DEF vars, calls, statics, hashing, Inv, CallsOK, Owned, Seeded, OneSeed,
         StaticsOK, FaultsOnlyShared, Parsing, Hashing
<1> QED
  BY <1>1, <1>2, <1>3, <1>4 DEF Next, Step

LEMMA InvAlways == Spec => []Inv
<1> QED
  BY InitInv, NextInv, PTL DEF Spec

\* What the threads share and what each has got to is what the code expects,
\* however many there are: long_addr fits in 32 bits, and a thread between two
\* tokens finds strtok at some string.
THEOREM TypeCorrect == Spec => []TypeOK
<1>1. Inv => TypeOK
  <2> SUFFICES ASSUME Inv PROVE TypeOK
    OBVIOUS
  <2>1. ASSUME NEW t \in Thread, call[t] # NULL
        PROVE  call[t].op \in {"ipv4_to_long", "ipv4_matches", "ether_ntoa", "key_hash"}
    BY <2>1, CallTypes DEF Inv, CallsOK, ParseOp
  <2>2. ASSUME NEW t \in Thread, call[t] # NULL, call[t].op \in ParseOp
        PROVE  /\ call[t].long_addr \in 0 .. FAILED
               /\ call[t].pc = "next" => position.owner # NULL
    <3>1. call[t] \in ParseCall
      BY <2>2, CallTypes DEF Inv, CallsOK
    <3> QED
      BY <2>2, <3>1 DEF ParseCall, Parsing, Inv, Owned
  <2> QED
    BY <2>1, <2>2 DEF Inv, CallsOK, StaticsOK, TypeOK
<1> QED
  BY <1>1, InvAlways, PTL

\* strtok (net_utils.c) reads a freed buffer only in a call whose position
\* another thread has taken: no other undefined behaviour is met, but for the
\* shift by more bits than there are.
THEOREM FaultsOnlySharedCorrect == Spec => []FaultsOnlyShared
<1>1. Inv => FaultsOnlyShared
  BY DEF Inv
<1> QED
  BY <1>1, InvAlways, PTL

\* The keys of all tables are hashed with one seed (default_key_hash), unless
\* two first calls overlapped.
THEOREM SeedsAgreeCorrect == Spec => []SeedsAgree
<1>1. Inv => SeedsAgree
  <2> SUFFICES ASSUME Inv, ~raced PROVE Cardinality(seeds) =< 1
    BY DEF SeedsAgree
  <2>1. seeds \subseteq {hash_seed}
    BY DEF Inv, OneSeed
  <2>2. IsFiniteSet({hash_seed}) /\ Cardinality({hash_seed}) = 1
    BY FS_Singleton
  <2> QED
    BY <2>1, <2>2, FS_Subset
<1> QED
  BY <1>1, InvAlways, PTL
-----------------------------------------------------------------------------
(* A call that nobody disturbs answers as it would alone *)

\* long is what the first n tokens of ip make, shifted in one after the other.
Makes(ip, n, long) ==
  \E w \in [0 .. n -> 0 .. FAILED] :
    /\ w[0] = 0 /\ w[n] = long
    /\ \A i \in 1 .. n : w[i] = Shifted(w[i - 1], ip[i])
Alone(ip, long) == IF ip = <<>> THEN long = FAILED ELSE Makes(ip, Len(ip), long)

AnswerAlone(r) ==
  /\ r.op = "ipv4_to_long" => r.args[1] \in Seq(Nat) /\ Alone(r.args[1], r.answer)
  /\ r.op = "ipv4_matches" =>
       /\ r.args[1] \in Seq(Nat) /\ r.args[2] \in Seq(Nat) /\ r.args[3] \in 0 .. BITS
       /\ \E l, m \in 0 .. FAILED :
            /\ Alone(r.args[1], l) /\ Alone(r.args[2], m)
            /\ r.answer = (Masked(l, r.args[3]) = Masked(m, r.args[3]))
  /\ r.op = "long_to_ipv4" => r.args[1] \in Long /\ r.answer = Octets(r.args[1])
  /\ r.op = "ether_ntoa" => r.answer = r.args[1]

AnswersAlone == ret # NULL /\ ~fault /\ ret.clean => AnswerAlone(ret)

\* The strings that call c still parses, and what those before have become
StringsOf(op, args, todo, longs) ==
  /\ op = "ipv4_to_long" => longs = <<>> /\ todo = <<args[1]>>
  /\ op = "ipv4_matches" =>
       \E a, b \in Seq(Nat), net_bits \in 0 .. BITS :
         /\ args = <<a, b, net_bits>>
         /\ \/ longs = <<>> /\ todo \in {<<a, b>>, <<b, a>>}
            \/ \E l \in 0 .. FAILED :
                 /\ longs = <<l>>
                 /\ \/ todo = <<b>> /\ Alone(a, l)
                    \/ todo = <<a>> /\ Alone(b, l)
Strings(c) == StringsOf(c.op, c.args, c.todo, c.longs)

\* The n tokens before rest have been shifted into long
Taken(ip, rest, long) ==
  \E n \in 1 .. Len(ip) :
    /\ Len(rest) = Len(ip) - n
    /\ \A i \in 1 .. Len(ip) - n : rest[i] = ip[n + i]
    /\ Makes(ip, n, long)

\* How far call c is in the string it parses, given what strtok has left
Progress(c, rest) ==
  /\ c.pc \in {"strdup", "first"} => c.long_addr = 0
  /\ c.pc = "next" => Head(c.todo) # <<>> /\ Taken(Head(c.todo), rest, c.long_addr)
  /\ c.pc = "free" => Alone(Head(c.todo), c.long_addr)

Undisturbed ==
  \A t \in Thread :
    /\ Parsing(t) /\ call[t].clean =>
         Strings(call[t]) /\ Progress(call[t], position.rest)
    /\ Printing(t) /\ call[t].clean => addr_buf = call[t].args[1]

AInv == Inv /\ Undisturbed /\ AnswersAlone

\* A string makes one number.
LEMMA MakesOne ==
  ASSUME NEW ip, NEW n \in Nat, NEW l, NEW m, Makes(ip, n, l), Makes(ip, n, m)
  PROVE  l = m
<1>1. PICK v \in [0 .. n -> 0 .. FAILED] :
        /\ v[0] = 0 /\ v[n] = l
        /\ \A i \in 1 .. n : v[i] = Shifted(v[i - 1], ip[i])
  BY DEF Makes
<1>2. PICK w \in [0 .. n -> 0 .. FAILED] :
        /\ w[0] = 0 /\ w[n] = m
        /\ \A i \in 1 .. n : w[i] = Shifted(w[i - 1], ip[i])
  BY DEF Makes
<1> DEFINE T == {i \in 0 .. n : v[i] # w[i]}
<1>3. T = {}
  <2>1. SUFFICES ASSUME T # {} PROVE FALSE
    OBVIOUS
  <2>2. PICK i \in T : \A j \in T : i =< j
    <3>1. T \in SUBSET Nat
      OBVIOUS
    <3> HIDE DEF T
    <3> QED
      BY <2>1, <3>1, LeastNatural
  <2>3. i \in 1 .. n /\ i - 1 \in 0 .. n /\ i - 1 \notin T
    BY <1>1, <1>2, <2>2
  <2>4. v[i - 1] = w[i - 1]
    BY <2>3
  <2>5. v[i] = w[i]
    BY <1>1, <1>2, <2>3, <2>4
  <2> QED
    BY <2>2, <2>5
<1>4. v[n] = w[n]
  <2>1. n \in 0 .. n
    OBVIOUS
  <2> QED
    BY <1>3, <2>1
<1> QED
  BY <1>1, <1>2, <1>4

\* One more token is shifted in.
LEMMA MakesNext ==
  ASSUME NEW ip \in Seq(Nat), NEW n \in 0 .. Len(ip) - 1, NEW l, Makes(ip, n, l)
  PROVE  l \in 0 .. FAILED /\ Makes(ip, n + 1, Shifted(l, ip[n + 1]))
<1>1. Len(ip) \in Nat /\ n \in Nat
  BY LenProperties
<1>2. PICK w \in [0 .. n -> 0 .. FAILED] :
        /\ w[0] = 0 /\ w[n] = l
        /\ \A i \in 1 .. n : w[i] = Shifted(w[i - 1], ip[i])
  BY DEF Makes
<1>3. l \in 0 .. FAILED
  BY <1>1, <1>2
<1>4. PICK token \in Nat : token = ip[n + 1]
  BY <1>1, LenProperties
<1>5. PICK m \in 0 .. FAILED : m = Shifted(l, token)
  BY <1>3, ShiftedType
<1> DEFINE v == [i \in 0 .. n + 1 |-> IF i = n + 1 THEN m ELSE w[i]]
<1>6. v \in [0 .. n + 1 -> 0 .. FAILED]
  BY <1>1, <1>2
<1>7. v[0] = 0 /\ v[n + 1] = m /\ \A i \in 0 .. n : v[i] = w[i]
  BY <1>1, <1>2
<1> HIDE DEF v
<1>8. ASSUME NEW i \in 1 .. n + 1 PROVE v[i] = Shifted(v[i - 1], ip[i])
  <2>1. CASE i = n + 1
    <3>1. i - 1 = n /\ v[i - 1] = l
      BY <1>1, <1>2, <1>7, <2>1
    <3> QED
      BY <1>4, <1>5, <1>7, <2>1, <3>1
  <2>2. CASE i # n + 1
    <3>1. i \in 1 .. n /\ i \in 0 .. n /\ i - 1 \in 0 .. n
      BY <1>1, <2>2
    <3> QED
      BY <1>2, <1>7, <3>1
  <2> QED
    BY <2>1, <2>2
<1>9. Makes(ip, n + 1, m)
  BY <1>6, <1>7, <1>8 DEF Makes
<1> QED
  BY <1>3, <1>4, <1>5, <1>9

\* Before the first token nothing has been.
LEMMA MakesNothing == \A ip : Makes(ip, 0, 0)
<1>1. PICK w : w = [i \in 0 .. 0 |-> 0]
  OBVIOUS
<1>2. w \in [0 .. 0 -> 0 .. FAILED] /\ w[0] = 0
  BY <1>1, Powers
<1> QED
  BY <1>2 DEF Makes

\* A step of thread t leaves the others undisturbed, or no longer clean.
LEMMA UndisturbedKept ==
  ASSUME Inv, Undisturbed, NEW t \in Thread, NEW c \in CallOrNull,
         NEW D, \A u \in D : u \in Thread /\ call[u] # NULL,
         Moves(t, c, D),
         \/ position'.rest = position.rest
         \/ \A u \in Thread \ {t} : Parsing(u) /\ call[u].pc = "next" => u \in D,
         UNCHANGED addr_buf \/ \A u \in Thread \ {t} : Printing(u) => u \in D,
         c # NULL /\ c.op \in ParseOp /\ c.clean => Strings(c) /\ Progress(c, position'.rest),
         c # NULL /\ c.op = "ether_ntoa" /\ c.clean => addr_buf' = c.args[1]
  PROVE  Undisturbed'
<1>1. /\ call'[t] = c /\ \A u \in Thread \ {t} : Kept(u, D)
  BY MovesFacts DEF Inv
<1>2. ASSUME NEW u \in Thread \ {t}, Parsing(u)', call'[u].clean
      PROVE  Strings(call'[u]) /\ Progress(call'[u], position'.rest)
  <2>1. /\ Parsing(u) /\ call[u].clean /\ u \notin D
        /\ call'[u].op = call[u].op /\ call'[u].pc = call[u].pc
        /\ call'[u].args = call[u].args
        /\ call'[u].todo = call[u].todo /\ call'[u].longs = call[u].longs
        /\ call'[u].long_addr = call[u].long_addr
    BY <1>1, <1>2 DEF Kept, Parsing
  <2>2. Strings(call[u]) /\ Progress(call[u], position.rest)
    BY <2>1 DEF Undisturbed
  <2>3. call[u].pc = "next" => position'.rest = position.rest
    BY <2>1
  <2>4. Strings(call'[u])
    BY <2>1, <2>2 DEF Strings
  <2>5. Progress(call'[u], position'.rest)
    BY <2>1, <2>2, <2>3 DEF Progress
  <2> QED
    BY <2>4, <2>5
<1>3. ASSUME NEW u \in Thread \ {t}, Printing(u)', call'[u].clean
      PROVE  addr_buf' = call'[u].args[1]
  <2>1. /\ Printing(u) /\ call[u].clean /\ u \notin D /\ call'[u].args = call[u].args
    BY <1>1, <1>3 DEF Kept, Printing
  <2> QED
    BY <2>1 DEF Undisturbed
<1>4. /\ Parsing(t)' /\ call'[t].clean =>
           Strings(call'[t]) /\ Progress(call'[t], position'.rest)
      /\ Printing(t)' /\ call'[t].clean => addr_buf' = call'[t].args[1]
  BY <1>1 DEF Parsing, Printing
<1>5. ASSUME NEW u \in Thread
      PROVE  /\ Parsing(u)' /\ call'[u].clean =>
                  Strings(call'[u]) /\ Progress(call'[u], position'.rest)
             /\ Printing(u)' /\ call'[u].clean => addr_buf' = call'[u].args[1]
  BY <1>2, <1>3, <1>4
<1> QED
  BY <1>5 DEF Undisturbed

LEMMA AppendOne ==
  ASSUME NEW S, NEW l \in S, NEW m \in S
  PROVE  Append(<<l>>, m) = <<l, m>>
<1>1. PICK s : s = Append(<<l>>, m)
  OBVIOUS
<1>2. PICK u : u = <<l, m>>
  OBVIOUS
<1>3. s \in Seq(S) /\ Len(s) = 2 /\ s[1] = l /\ s[2] = m
  <2>1. <<l>> \in Seq(S) /\ Len(<<l>>) = 1 /\ <<l>>[1] = l
    OBVIOUS
  <2> QED
    BY <1>1, <2>1, AppendProperties
<1>4. u \in Seq(S) /\ Len(u) = 2 /\ u[1] = l /\ u[2] = m
  BY <1>2
<1>5. \A i \in 1 .. 2 : s[i] = u[i]
  BY <1>3, <1>4
<1>6. s = u
  BY <1>3, <1>4, <1>5, SeqEqual
<1> QED
  BY <1>1, <1>2, <1>6

\* A call that has parsed a string as it would alone goes on so, or ends so.
LEMMA ParsedAlone ==
  ASSUME Inv, NEW t \in Thread, call[t] \in ParseCall, call[t].todo # <<>>,
         NEW long \in 0 .. FAILED, NEW clean \in BOOLEAN, NEW D,
         call[t].clean /\ clean =>
           Strings(call[t]) /\ Alone(Head(call[t].todo), long),
         Parsed(t, long, clean, D)
  PROVE  /\ AnswersAlone'
         /\ \E c \in CallOrNull :
              /\ Moves(t, c, D) /\ UNCHANGED fault
              /\ c # NULL => c.op \in ParseOp
              /\ \A rest : c # NULL /\ c.clean => Strings(c) /\ Progress(c, rest)
<1>1. PICK c : c = [call[t] EXCEPT !.longs = Append(call[t].longs, long),
                      !.todo = Tail(@), !.pc = "strdup",
                      !.long_addr = 0, !.clean = @ /\ clean]
  OBVIOUS
<1>2. /\ Append(call[t].longs, long) \in Seq(0 .. FAILED)
      /\ Tail(call[t].todo) \in Seq(Seq(Nat)) /\ Head(call[t].todo) \in Seq(Nat)
  BY HeadTailProperties, AppendProperties DEF ParseCall
<1>3. /\ c \in ParseCall /\ c.pc = "strdup" /\ c.op = call[t].op
      /\ c.args = call[t].args /\ c.longs = Append(call[t].longs, long)
      /\ c.todo = Tail(call[t].todo) /\ c.long_addr = 0
      /\ c.clean <=> call[t].clean /\ clean
  <2>1. (call[t].clean /\ clean) \in BOOLEAN
    OBVIOUS
  <2>2. 0 \in 0 .. FAILED
    BY Powers
  <2> QED
    BY <1>1, <1>2, <2>1, <2>2 DEF ParseCall
<1>4. c \in CallOrNull /\ c.op \in ParseOp /\ NULL \in CallOrNull
  BY <1>3 DEF CallOrNull, ParseCall
<1>5. \/ c.todo # <<>> /\ Goes(t, c, D)
      \/ c.todo = <<>> /\ c.op = "ipv4_to_long" /\ Ends(t, c, long, D)
      \/ /\ c.todo = <<>> /\ c.op = "ipv4_matches"
         /\ Ends(t, c, Masked(c.longs[1], c.args[3]) = Masked(c.longs[2], c.args[3]), D)
  BY <1>1, <1>3 DEF Parsed
<1>6. ASSUME c.clean, c.op = "ipv4_to_long"
      PROVE  c.todo = <<>> /\ c.args[1] \in Seq(Nat) /\ Alone(c.args[1], long)
  <2>1. call[t].todo = <<c.args[1]>> /\ Alone(Head(call[t].todo), long)
    BY <1>3, <1>6 DEF Strings, StringsOf
  <2> QED
    BY <1>2, <1>3, <2>1
<1>7. ASSUME c.clean, c.op = "ipv4_matches"
      PROVE  \E a, b \in Seq(Nat), net_bits \in 0 .. BITS :
               /\ c.args = <<a, b, net_bits>>
               /\ \/ /\ c.longs = <<long>>
                     /\ \/ c.todo = <<b>> /\ Alone(a, long)
                        \/ c.todo = <<a>> /\ Alone(b, long)
                  \/ \E l \in 0 .. FAILED :
                       /\ c.longs = <<l, long>> /\ c.todo = <<>>
                       /\ \/ Alone(a, l) /\ Alone(b, long)
                          \/ Alone(b, l) /\ Alone(a, long)
  <2>1. Strings(call[t]) /\ Alone(Head(call[t].todo), long) /\ call[t].op = "ipv4_matches"
    BY <1>3, <1>7
  <2>2. PICK a \in Seq(Nat), b \in Seq(Nat), net_bits \in 0 .. BITS :
          /\ c.args = <<a, b, net_bits>>
          /\ \/ call[t].longs = <<>> /\ call[t].todo \in {<<a, b>>, <<b, a>>}
             \/ \E l \in 0 .. FAILED :
                  /\ call[t].longs = <<l>>
                  /\ \/ call[t].todo = <<b>> /\ Alone(a, l)
                     \/ call[t].todo = <<a>> /\ Alone(b, l)
    BY <1>3, <2>1 DEF Strings, StringsOf
  <2>3. CASE call[t].longs = <<>> /\ call[t].todo \in {<<a, b>>, <<b, a>>}
    <3>1. c.longs = <<long>>
      BY <1>3, <2>3
    <3>2. CASE call[t].todo = <<a, b>>
      <4>1. c.todo = <<b>> /\ Head(call[t].todo) = a
        BY <1>3, <3>2
      <4> QED
        BY <2>1, <2>2, <3>1, <4>1
    <3>3. CASE call[t].todo = <<b, a>>
      <4>1. c.todo = <<a>> /\ Head(call[t].todo) = b
        BY <1>3, <3>3
      <4> QED
        BY <2>1, <2>2, <3>1, <4>1
    <3> QED
      BY <2>3, <3>2, <3>3
  <2>4. ASSUME NEW l \in 0 .. FAILED, call[t].longs = <<l>>,
               \/ call[t].todo = <<b>> /\ Alone(a, l)
               \/ call[t].todo = <<a>> /\ Alone(b, l)
        PROVE  /\ c.longs = <<l, long>> /\ c.todo = <<>>
               /\ \/ Alone(a, l) /\ Alone(b, long)
                  \/ Alone(b, l) /\ Alone(a, long)
    <3>1. c.longs = <<l, long>>
      <4>1. Append(<<l>>, long) = <<l, long>>
        BY AppendOne
      <4> QED
        BY <1>3, <2>4, <4>1
    <3>2. c.todo = <<>>
      <4>1. Tail(<<a>>) = <<>> /\ Tail(<<b>>) = <<>>
        OBVIOUS
      <4> QED
        BY <1>3, <2>4, <4>1
    <3>3. Head(call[t].todo) \in {a, b}
      BY <2>4
    <3>4. CASE call[t].todo = <<b>> /\ Alone(a, l)
      <4>1. Head(call[t].todo) = b
        BY <3>4
      <4> QED
        BY <2>1, <3>1, <3>2, <3>4, <4>1
    <3>5. CASE call[t].todo = <<a>> /\ Alone(b, l)
      <4>1. Head(call[t].todo) = a
        BY <3>5
      <4> QED
        BY <2>1, <3>1, <3>2, <3>5, <4>1
    <3> QED
      BY <2>4, <3>4, <3>5
  <2> QED
    BY <2>2, <2>3, <2>4
<1>8. CASE c.todo # <<>> /\ Goes(t, c, D)
  <2>1. Moves(t, c, D) /\ UNCHANGED fault /\ ret' = NULL
    BY <1>8 DEF Goes
  <2>2. ASSUME c.clean PROVE Strings(c)
    BY <1>6, <1>7, <1>8, <2>2 DEF Strings, StringsOf
  <2>3. \A rest : Progress(c, rest)
    BY <1>3 DEF Progress
  <2> QED
    BY <1>4, <2>1, <2>2, <2>3 DEF AnswersAlone
<1>9. CASE c.todo = <<>> /\ c.op = "ipv4_to_long" /\ Ends(t, c, long, D)
  <2>1. /\ Moves(t, NULL, D) /\ UNCHANGED fault
        /\ ret'.op = c.op /\ ret'.args = c.args /\ ret'.clean = c.clean
        /\ ret'.answer = long
    BY <1>9 DEF Ends, Result
  <2>2. AnswersAlone'
    BY <1>6, <1>9, <2>1 DEF AnswersAlone, AnswerAlone
  <2> QED
    BY <1>4, <2>1, <2>2
<1>10. CASE /\ c.todo = <<>> /\ c.op = "ipv4_matches"
            /\ Ends(t, c, Masked(c.longs[1], c.args[3]) = Masked(c.longs[2], c.args[3]), D)
  <2>1. /\ Moves(t, NULL, D) /\ UNCHANGED fault
        /\ ret'.op = c.op /\ ret'.args = c.args /\ ret'.clean = c.clean
    BY <1>10 DEF Ends, Result
  <2>2. ret'.answer = (Masked(c.longs[1], c.args[3]) = Masked(c.longs[2], c.args[3]))
    BY <1>10 DEF Ends, Result
  <2>3. ASSUME c.clean
        PROVE  /\ c.args[1] \in Seq(Nat) /\ c.args[2] \in Seq(Nat) /\ c.args[3] \in 0 .. BITS
               /\ \E l, m \in 0 .. FAILED :
                    /\ Alone(c.args[1], l) /\ Alone(c.args[2], m)
                    /\ ret'.answer = (Masked(l, c.args[3]) = Masked(m, c.args[3]))
    <3>1. PICK a, b \in Seq(Nat), net_bits \in 0 .. BITS :
            /\ c.args = <<a, b, net_bits>>
            /\ \/ /\ c.longs = <<long>>
                  /\ \/ c.todo = <<b>> /\ Alone(a, long)
                     \/ c.todo = <<a>> /\ Alone(b, long)
               \/ \E l \in 0 .. FAILED :
                    /\ c.longs = <<l, long>> /\ c.todo = <<>>
                    /\ \/ Alone(a, l) /\ Alone(b, long)
                       \/ Alone(b, l) /\ Alone(a, long)
      BY <1>7, <1>10, <2>3, Zenon
    <3>2. c.todo # <<a>> /\ c.todo # <<b>>
      <4>1. <<a>> # <<>> /\ <<b>> # <<>>
        OBVIOUS
      <4> QED
        BY <1>10, <4>1
    <3>3. PICK l \in 0 .. FAILED :
            /\ c.args = <<a, b, net_bits>> /\ c.longs = <<l, long>>
            /\ \/ Alone(a, l) /\ Alone(b, long)
               \/ Alone(b, l) /\ Alone(a, long)
      BY <3>1, <3>2, Zenon
    <3>4. c.args[1] = a /\ c.args[2] = b /\ c.longs[1] = l /\ c.longs[2] = long
      BY <3>3
    <3>5. \/ ret'.answer = (Masked(l, c.args[3]) = Masked(long, c.args[3]))
             /\ Alone(c.args[1], l) /\ Alone(c.args[2], long)
          \/ ret'.answer = (Masked(long, c.args[3]) = Masked(l, c.args[3]))
             /\ Alone(c.args[1], long) /\ Alone(c.args[2], l)
      <4>1. PICK f, g, i : /\ f = Masked(l, c.args[3]) /\ g = Masked(long, c.args[3])
                           /\ i = ret'.answer
        OBVIOUS
      <4>2. i = (f = g)
        BY <2>2, <3>4, <4>1
      <4>3. (f = g) = (g = f)
        OBVIOUS
      <4>4. \/ Alone(c.args[1], l) /\ Alone(c.args[2], long)
            \/ Alone(c.args[1], long) /\ Alone(c.args[2], l)
        BY <3>3, <3>4, Zenon
      <4> QED
        BY <4>1, <4>2, <4>3, <4>4, Zenon
    <3>6. c.args[1] \in Seq(Nat) /\ c.args[2] \in Seq(Nat) /\ c.args[3] \in 0 .. BITS
      BY <3>3
    <3> QED
      BY <3>3, <3>5, <3>6, Zenon
  <2>4. AnswersAlone'
    BY <1>10, <2>1, <2>3 DEF AnswersAlone, AnswerAlone
  <2> QED
    BY <1>4, <2>1, <2>4
<1> QED
  BY <1>5, <1>8, <1>9, <1>10

\* What is known of a thread at a step of a parsing function, while it is clean
LEMMA AtAlone ==
  ASSUME AInv, NEW t \in Thread, NEW pc, At(t, ParseOp, pc)
  PROVE  /\ ~fault /\ Parsing(t) /\ call[t].pc = pc
         /\ call[t] \in ParseCall /\ call[t].todo # <<>>
         /\ Head(call[t].todo) \in Seq(Nat) /\ call[t].clean \in BOOLEAN
         /\ call[t].clean => Strings(call[t]) /\ Progress(call[t], position.rest)
<1>1. /\ ~fault /\ Parsing(t) /\ call[t].pc = pc
      /\ call[t] \in ParseCall /\ call[t].todo # <<>>
  BY AtParse DEF AInv
<1>2. Head(call[t].todo) \in Seq(Nat) /\ call[t].clean \in BOOLEAN
  BY <1>1, HeadTailProperties DEF ParseCall
<1> QED
  BY <1>1, <1>2 DEF AInv, Undisturbed

\* A step of a call that goes on answers nothing.
LEMMA GoesAlone ==
  ASSUME AInv, NEW t \in Thread, NEW c \in CallOrNull,
         NEW D, \A u \in D : u \in Thread /\ call[u] # NULL,
         Goes(t, c, D),
         \/ UNCHANGED position
         \/ \A u \in Thread \ {t} : Parsing(u) /\ call[u].pc = "next" => u \in D,
         UNCHANGED addr_buf \/ \A u \in Thread \ {t} : Printing(u) => u \in D,
         c # NULL /\ c.op \in ParseOp /\ c.clean => Strings(c) /\ Progress(c, position'.rest),
         c # NULL /\ c.op = "ether_ntoa" /\ c.clean => addr_buf' = c.args[1]
  PROVE  Undisturbed' /\ AnswersAlone'
<1>1. Moves(t, c, D) /\ ret' = NULL
  BY DEF Goes
<1>2. Undisturbed'
  BY <1>1, UndisturbedKept DEF AInv
<1> QED
  BY <1>1, <1>2 DEF AnswersAlone

LEMMA ParseAlone ==
  ASSUME AInv, NEW t \in Thread, NEW op \in ParseOp,
         NEW args \in Seq(Seq(Nat) \cup Nat), NEW todo \in Seq(Seq(Nat)),
         \/ op = "ipv4_to_long" /\ todo = <<args[1]>>
         \/ /\ op = "ipv4_matches"
            /\ \E a, b \in Seq(Nat), net_bits \in 0 .. BITS :
                 args = <<a, b, net_bits>> /\ todo \in {<<a, b>>, <<b, a>>},
         Parse(t, op, args, todo)
  PROVE  Undisturbed' /\ AnswersAlone'
<1>1. PICK c : c = [op |-> op, args |-> args, clean |-> TRUE, pc |-> "strdup",
                    todo |-> todo, long_addr |-> 0, longs |-> <<>>]
  OBVIOUS
<1>2. c \in ParseCall
  BY <1>1, Powers DEF ParseCall
<1>3. c \in CallOrNull
  BY <1>2 DEF CallOrNull
<1>4. /\ c.op = op /\ c.args = args /\ c.todo = todo /\ c.longs = <<>>
      /\ c.pc = "strdup" /\ c.long_addr = 0 /\ c.op # "ether_ntoa"
  BY <1>1 DEF ParseOp
<1>5. Strings(c)
  BY <1>4 DEF Strings, StringsOf
<1>6. \A rest : Progress(c, rest)
  BY <1>4 DEF Progress
<1>7. Goes(t, c, {}) /\ UNCHANGED <<position, addr_buf>>
  BY <1>1 DEF Parse, statics
<1> QED
  BY <1>3, <1>4, <1>5, <1>6, <1>7, GoesAlone

LEMMA StrdupAlone ==
  ASSUME AInv, NEW t \in Thread, Strdup(t)
  PROVE  Undisturbed' /\ AnswersAlone'
<1>1. /\ ~fault /\ Parsing(t) /\ call[t] \in ParseCall /\ call[t].todo # <<>>
      /\ call[t].pc = "strdup"
      /\ call[t].clean => Strings(call[t]) /\ Progress(call[t], position.rest)
      /\ UNCHANGED <<position, addr_buf>>
  BY AtAlone DEF Strdup, statics
<1>2. CASE Parsed(t, FAILED, FALSE, {})
  <2>1. FAILED \in 0 .. FAILED
    BY Powers
  <2>2. PICK c \in CallOrNull :
          /\ Moves(t, c, {}) /\ UNCHANGED fault
          /\ c # NULL => c.op \in ParseOp
          /\ \A rest : c # NULL /\ c.clean => Strings(c) /\ Progress(c, rest)
    BY <1>1, <1>2, <2>1, ParsedAlone DEF AInv
  <2>3. AnswersAlone'
    BY <1>1, <1>2, <2>1, ParsedAlone DEF AInv
  <2>4. c # NULL => c.op # "ether_ntoa"
    BY <2>2 DEF ParseOp
  <2> QED
    BY <1>1, <2>2, <2>3, <2>4, UndisturbedKept DEF AInv
<1>3. CASE Goes(t, [call[t] EXCEPT !.pc = "first"], {})
  <2>1. PICK c : c = [call[t] EXCEPT !.pc = "first"]
    OBVIOUS
  <2>2. /\ c \in ParseCall /\ c.pc = "first" /\ c.todo = call[t].todo
        /\ c.op = call[t].op /\ c.args = call[t].args /\ c.longs = call[t].longs
        /\ c.long_addr = call[t].long_addr /\ c.clean = call[t].clean
    BY <1>1, <2>1 DEF ParseCall
  <2>3. c \in CallOrNull /\ c.op # "ether_ntoa"
    BY <2>2 DEF CallOrNull, ParseCall, ParseOp
  <2>4. c.clean => Strings(c)
    BY <1>1, <2>2 DEF Strings
  <2>5. c.clean => Progress(c, position'.rest)
    BY <1>1, <2>2 DEF Progress
  <2>6. Goes(t, c, {})
    BY <1>3, <2>1
  <2> QED
    BY <1>1, <2>3, <2>4, <2>5, <2>6, GoesAlone
<1> QED
  BY <1>2, <1>3 DEF Strdup

\* A token of the thread's own string is shifted into what it has.
LEMMA WithTokenAlone ==
  ASSUME AInv, NEW t \in Thread, ~fault, call[t] \in ParseCall, call[t].todo # <<>>,
         call[t].clean => Strings(call[t]),
         NEW token, WithToken(t, token), UNCHANGED addr_buf,
         call[t].clean =>
           /\ Head(call[t].todo) # <<>>
           /\ Taken(Head(call[t].todo), position'.rest, Shifted(call[t].long_addr, token)),
         token \in Nat
  PROVE  Undisturbed' /\ AnswersAlone'
<1>1. PICK c : c = [call[t] EXCEPT !.pc = "next", !.long_addr = Shifted(@, token)]
  OBVIOUS
<1>2. Shifted(call[t].long_addr, token) \in 0 .. FAILED
  BY ShiftedType DEF ParseCall
<1>3. /\ c \in ParseCall /\ c.pc = "next" /\ c.todo = call[t].todo
      /\ c.op = call[t].op /\ c.args = call[t].args /\ c.longs = call[t].longs
      /\ c.long_addr = Shifted(call[t].long_addr, token) /\ c.clean = call[t].clean
  BY <1>1, <1>2 DEF ParseCall
<1>4. c \in CallOrNull /\ c.op # "ether_ntoa"
  BY <1>3 DEF CallOrNull, ParseCall, ParseOp
<1>5. c.clean => Strings(c)
  BY <1>3 DEF Strings
<1>6. c.clean => Progress(c, position'.rest)
  BY <1>3 DEF Progress
<1>7. Goes(t, c, Tokenizing(t))
  BY <1>1 DEF WithToken
<1>8. /\ \A u \in Tokenizing(t) : u \in Thread /\ call[u] # NULL
      /\ \A u \in Thread \ {t} : Parsing(u) /\ call[u].pc = "next" => u \in Tokenizing(t)
  BY TokenizingFacts
<1> QED
  BY <1>4, <1>5, <1>6, <1>7, <1>8, GoesAlone

LEMMA StrtokFirstAlone ==
  ASSUME AInv, NEW t \in Thread, StrtokFirst(t)
  PROVE  Undisturbed' /\ AnswersAlone'
<1>1. PICK ip \in Seq(Nat) : ip = Head(call[t].todo)
  BY AtAlone DEF StrtokFirst
<1>2. /\ ~fault /\ Parsing(t) /\ call[t] \in ParseCall /\ call[t].todo # <<>>
      /\ call[t].pc = "first" /\ call[t].clean \in BOOLEAN
      /\ call[t].clean => Strings(call[t]) /\ Progress(call[t], position.rest)
      /\ UNCHANGED addr_buf
  BY AtAlone DEF StrtokFirst
<1>3. CASE /\ ip = <<>>
           /\ Parsed(t, FAILED, TRUE, Tokenizing(t))
  <2>1. FAILED \in 0 .. FAILED /\ Alone(ip, FAILED)
    BY <1>3, Powers DEF Alone
  <2>2. PICK c \in CallOrNull :
          /\ Moves(t, c, Tokenizing(t)) /\ UNCHANGED fault
          /\ c # NULL => c.op \in ParseOp
          /\ \A rest : c # NULL /\ c.clean => Strings(c) /\ Progress(c, rest)
    BY <1>1, <1>2, <1>3, <2>1, ParsedAlone DEF AInv
  <2>3. AnswersAlone'
    BY <1>1, <1>2, <1>3, <2>1, ParsedAlone DEF AInv
  <2>4. c # NULL => c.op # "ether_ntoa"
    BY <2>2 DEF ParseOp
  <2>5. /\ \A u \in Tokenizing(t) : u \in Thread /\ call[u] # NULL
        /\ \A u \in Thread \ {t} :
             Parsing(u) /\ call[u].pc = "next" => u \in Tokenizing(t)
    BY <1>2, TokenizingFacts
  <2> QED
    BY <1>2, <2>2, <2>3, <2>4, <2>5, UndisturbedKept DEF AInv
<1>4. CASE /\ ip # <<>>
           /\ position' = [owner |-> t, rest |-> Tail(ip), freed |-> FALSE]
           /\ WithToken(t, Head(ip))
  <2>1. PICK n \in Nat : n = Len(ip) /\ n >= 1
    BY <1>4, EmptySeq
  <2>2. /\ Head(ip) \in Nat /\ Head(ip) = ip[1] /\ Len(Tail(ip)) = n - 1
        /\ \A i \in 1 .. n - 1 : Tail(ip)[i] = ip[1 + i]
    BY <1>4, <2>1, HeadTailProperties
  <2>3. ASSUME call[t].clean
        PROVE  Taken(ip, position'.rest, Shifted(call[t].long_addr, Head(ip)))
    <3>1. call[t].long_addr = 0
      BY <1>2, <2>3 DEF Progress
    <3>2. Makes(ip, 0 + 1, Shifted(0, ip[0 + 1]))
      <4>1. Makes(ip, 0, 0) /\ 0 \in 0 .. Len(ip) - 1
        BY <2>1, MakesNothing
      <4> QED
        BY <4>1, MakesNext
    <3>3. Makes(ip, 1, Shifted(call[t].long_addr, Head(ip)))
      BY <2>2, <3>1, <3>2
    <3>4. position'.rest = Tail(ip)
      BY <1>4
    <3> QED
      BY <2>1, <2>2, <3>3, <3>4 DEF Taken
  <2> QED
    BY <1>1, <1>2, <1>4, <2>2, <2>3, WithTokenAlone
<1> QED
  BY <1>1, <1>3, <1>4 DEF StrtokFirst

LEMMA StrtokNextAlone ==
  ASSUME AInv, NEW t \in Thread, StrtokNext(t)
  PROVE  Undisturbed' /\ AnswersAlone'
<1>1. PICK ip \in Seq(Nat) : ip = Head(call[t].todo)
  BY AtAlone DEF StrtokNext
<1>2. /\ ~fault /\ Parsing(t) /\ call[t] \in ParseCall /\ call[t].todo # <<>>
      /\ call[t].pc = "next" /\ call[t].clean \in BOOLEAN
      /\ call[t].clean => Strings(call[t]) /\ Progress(call[t], position.rest)
      /\ UNCHANGED addr_buf
  BY AtAlone DEF StrtokNext
<1>3. PICK rest \in Seq(Nat) : rest = position.rest
  BY DEF AInv, Inv, StaticsOK
<1>4. ASSUME call[t].clean PROVE ip # <<>> /\ Taken(ip, rest, call[t].long_addr)
  BY <1>1, <1>2, <1>3, <1>4 DEF Progress
<1>5. CASE Crashes(call[t]) /\ UNCHANGED position
  <2>1. call' = call /\ fault' = TRUE
    BY <1>5 DEF Crashes
  <2> QED
    BY <1>2, <1>5, <2>1 DEF AInv, Undisturbed, AnswersAlone, Parsing, Printing
<1>6. CASE /\ rest # <<>> /\ position' = NextPosition
           /\ WithToken(t, Head(rest))
  <2>1. PICK m \in Nat : m = Len(rest) /\ m >= 1
    BY <1>6, EmptySeq
  <2>2. /\ Head(rest) \in Nat /\ Head(rest) = rest[1] /\ Len(Tail(rest)) = m - 1
        /\ \A i \in 1 .. m - 1 : Tail(rest)[i] = rest[1 + i]
    BY <1>6, <2>1, HeadTailProperties
  <2>3. position'.rest = Tail(rest)
    BY <1>3, <1>6 DEF NextPosition, AInv, Inv, StaticsOK
  <2>4. ASSUME call[t].clean
        PROVE  ip # <<>> /\ Taken(ip, Tail(rest), Shifted(call[t].long_addr, Head(rest)))
    <3>1. PICK n \in 1 .. Len(ip) :
            /\ m = Len(ip) - n
            /\ \A i \in 1 .. Len(ip) - n : rest[i] = ip[n + i]
            /\ Makes(ip, n, call[t].long_addr)
      BY <1>4, <2>1, <2>4 DEF Taken
    <3>2. PICK k \in Nat : k = Len(ip)
      BY LenProperties
    <3>3. rest[1] = ip[n + 1] /\ n \in 0 .. Len(ip) - 1 /\ n + 1 \in 1 .. Len(ip)
      BY <2>1, <3>1, <3>2
    <3>4. Makes(ip, n + 1, Shifted(call[t].long_addr, ip[n + 1]))
      BY <3>1, <3>3, MakesNext
    <3>5. \A i \in 1 .. k - (n + 1) : Tail(rest)[i] = ip[(n + 1) + i]
      <4>1. ASSUME NEW i \in 1 .. k - (n + 1) PROVE Tail(rest)[i] = ip[(n + 1) + i]
        <5>0. m = k - n /\ i \in 1 .. m - 1
          BY <2>1, <3>1, <3>2
        <5>1. Tail(rest)[i] = rest[1 + i] /\ 1 + i \in 1 .. k - n
          BY <2>1, <2>2, <5>0
        <5>2. rest[1 + i] = ip[n + (1 + i)]
          BY <3>1, <3>2, <5>1
        <5>3. n + (1 + i) = (n + 1) + i
          BY <3>1, <3>2
        <5> QED
          BY <5>1, <5>2, <5>3
      <4> QED
        BY <4>1
    <3>6. Len(Tail(rest)) = Len(ip) - (n + 1)
      BY <2>1, <2>2, <3>1, <3>2
    <3> QED
      BY <1>4, <2>2, <2>4, <3>2, <3>3, <3>4, <3>5, <3>6 DEF Taken
  <2> QED
    BY <1>1, <1>2, <1>6, <2>2, <2>3, <2>4, WithTokenAlone
<1>7. CASE /\ rest = <<>> /\ UNCHANGED position
           /\ Goes(t, [call[t] EXCEPT !.pc = "free"], {})
  <2>1. PICK c : c = [call[t] EXCEPT !.pc = "free"]
    OBVIOUS
  <2>2. /\ c \in ParseCall /\ c.pc = "free" /\ c.todo = call[t].todo
        /\ c.op = call[t].op /\ c.args = call[t].args /\ c.longs = call[t].longs
        /\ c.long_addr = call[t].long_addr /\ c.clean = call[t].clean
    BY <1>2, <2>1 DEF ParseCall
  <2>3. c \in CallOrNull /\ c.op # "ether_ntoa"
    BY <2>2 DEF CallOrNull, ParseCall, ParseOp
  <2>4. c.clean => Strings(c)
    BY <1>2, <2>2 DEF Strings
  <2>5. ASSUME c.clean PROVE Alone(ip, c.long_addr)
    <3>1. PICK n \in 1 .. Len(ip) : Len(rest) = Len(ip) - n
                                   /\ Makes(ip, n, call[t].long_addr)
      BY <1>4, <2>2, <2>5 DEF Taken
    <3>2. n = Len(ip)
      BY <1>7, <3>1, LenProperties
    <3> QED
      BY <1>4, <2>2, <2>5, <3>1, <3>2 DEF Alone
  <2>6. c.clean => Progress(c, position'.rest)
    BY <1>1, <2>2, <2>5 DEF Progress
  <2>7. Goes(t, c, {})
    BY <1>7, <2>1
  <2> QED
    BY <1>2, <1>7, <2>3, <2>4, <2>6, <2>7, GoesAlone
<1> QED
  BY <1>3, <1>5, <1>6, <1>7 DEF StrtokNext

LEMMA FreeAlone ==
  ASSUME AInv, NEW t \in Thread, Free(t)
  PROVE  Undisturbed' /\ AnswersAlone'
<1>1. /\ ~fault /\ Parsing(t) /\ call[t] \in ParseCall /\ call[t].todo # <<>>
      /\ call[t].pc = "free" /\ call[t].clean \in BOOLEAN
      /\ call[t].clean => Strings(call[t]) /\ Progress(call[t], position.rest)
      /\ UNCHANGED addr_buf
  BY AtAlone DEF Free
<1>2. PICK long \in 0 .. FAILED : long = call[t].long_addr
  BY <1>1 DEF ParseCall
<1>3. /\ call[t].clean => Strings(call[t]) /\ Alone(Head(call[t].todo), long)
      /\ Parsed(t, long, TRUE, {})
  BY <1>1, <1>2 DEF Progress, Free
<1>4. PICK c \in CallOrNull :
        /\ Moves(t, c, {}) /\ UNCHANGED fault
        /\ c # NULL => c.op \in ParseOp
        /\ \A rest : c # NULL /\ c.clean => Strings(c) /\ Progress(c, rest)
  BY <1>1, <1>3, ParsedAlone DEF AInv
<1>5. AnswersAlone'
  BY <1>1, <1>3, ParsedAlone DEF AInv
<1>6. c # NULL => c.op # "ether_ntoa"
  BY <1>4 DEF ParseOp
<1>7. position'.rest = position.rest
  BY DEF Free, AInv, Inv, StaticsOK
<1> QED
  BY <1>1, <1>4, <1>5, <1>6, <1>7, UndisturbedKept DEF AInv

\* A MAC address is read as it was printed, unless another was printed since.
LEMMA EtherAlone ==
  ASSUME AInv, NEW t \in Thread, NEW mac \in Mac, EtherNtoa(t, mac)
  PROVE  Undisturbed' /\ AnswersAlone'
<1>1. PICK c : c = [op |-> "ether_ntoa", args |-> <<mac>>, clean |-> TRUE, pc |-> "read"]
  OBVIOUS
<1>2. c \in EtherCall /\ c.op \notin ParseOp /\ c.args[1] = mac
  BY <1>1 DEF EtherCall, ParseOp
<1>3. c \in CallOrNull
  BY <1>2 DEF CallOrNull
<1>4. PICK D : D = Reading(t)
  OBVIOUS
<1>5. /\ \A u \in D : u \in Thread /\ call[u] # NULL
      /\ \A u \in Thread \ {t} : Printing(u) => u \in D
  <2>1. ASSUME NEW u \in Thread \ {t}, Printing(u) PROVE At(u, {"ether_ntoa"}, "read")
    <3>1. call[u] \in EtherCall /\ ~fault
      BY <2>1, CallTypes DEF Printing, AInv, Inv, CallsOK, EtherNtoa, Idle
    <3> QED
      BY <2>1, <3>1 DEF At, Printing, EtherCall
  <2> QED
    BY <1>4, <2>1 DEF Reading, At
<1>6. CASE Goes(t, c, D) /\ addr_buf' = mac /\ UNCHANGED position
  BY <1>2, <1>3, <1>5, <1>6, GoesAlone
<1>7. CASE /\ Moves(t, NULL, D) /\ ~ret'.clean /\ UNCHANGED position
  <2>1. NULL \in CallOrNull
    BY DEF CallOrNull
  <2>2. Undisturbed'
    BY <1>5, <1>7, <2>1, UndisturbedKept DEF AInv
  <2> QED
    BY <1>7, <2>2 DEF AnswersAlone
<1>8. \/ Goes(t, c, D) /\ addr_buf' = mac /\ UNCHANGED position
      \/ Moves(t, NULL, D) /\ ~ret'.clean /\ UNCHANGED position
  BY <1>1, <1>4 DEF EtherNtoa, Ends, Result
<1> QED
  BY <1>6, <1>7, <1>8

LEMMA ReadAlone ==
  ASSUME AInv, NEW t \in Thread, ReadAddr(t)
  PROVE  Undisturbed' /\ AnswersAlone'
<1>1. Printing(t) /\ UNCHANGED <<position, addr_buf>> /\ NULL \in CallOrNull
  BY DEF ReadAddr, At, Printing, statics, CallOrNull
<1>2. /\ Moves(t, NULL, {}) /\ ret'.op = call[t].op /\ ret'.args = call[t].args
      /\ ret'.clean = call[t].clean /\ ret'.answer = addr_buf
  BY DEF ReadAddr, Ends, Result
<1>3. call[t].clean => addr_buf = call[t].args[1]
  BY <1>1 DEF AInv, Undisturbed
<1>4. AnswersAlone'
  BY <1>1, <1>2, <1>3 DEF AnswersAlone, AnswerAlone, Printing
<1>5. Undisturbed'
  BY <1>1, <1>2, UndisturbedKept DEF AInv
<1> QED
  BY <1>4, <1>5

LEMMA NetCallAlone ==
  ASSUME AInv, NEW t \in Thread, NetCall(t)
  PROVE  Undisturbed' /\ AnswersAlone'
<1>1. ASSUME NEW ip \in Ip, ToLong(t, ip) PROVE Undisturbed' /\ AnswersAlone'
  <2>1. ip \in Seq(Nat)
    BY AddressAssumption
  <2>2. PICK a : a = <<ip>>
    OBVIOUS
  <2>3. /\ a \in Seq(Seq(Nat) \cup Nat) /\ a \in Seq(Seq(Nat)) /\ a = <<a[1]>>
        /\ "ipv4_to_long" \in ParseOp
    BY <2>1, <2>2 DEF ParseOp
  <2>4. Parse(t, "ipv4_to_long", a, a)
    BY <1>1, <2>2 DEF ToLong
  <2> QED
    BY <2>3, <2>4, ParseAlone
<1>2. ASSUME NEW test \in Ip, NEW match \in Net, NEW net_bits \in Bits,
             Matches(t, test, match, net_bits)
      PROVE  Undisturbed' /\ AnswersAlone'
  <2>1. test \in Seq(Nat) /\ match \in Seq(Nat) /\ net_bits \in Nat
    BY AddressAssumption
  <2>2. PICK a : a = <<test, match, net_bits>>
    OBVIOUS
  <2>3. CASE UNCHANGED statics /\ fault' = TRUE /\ call' = call
    BY <2>3 DEF AInv, Undisturbed, AnswersAlone, Parsing, Printing, statics
  <2>4. ASSUME NEW todo \in {<<test, match>>, <<match, test>>}, net_bits =< BITS,
               Parse(t, "ipv4_matches", a, todo)
        PROVE  Undisturbed' /\ AnswersAlone'
    <3>1. a \in Seq(Seq(Nat) \cup Nat) /\ "ipv4_matches" \in ParseOp
      BY <2>1, <2>2 DEF ParseOp
    <3>2. <<test, match>> \in Seq(Seq(Nat)) /\ <<match, test>> \in Seq(Seq(Nat))
      BY <2>1
    <3>3. todo \in Seq(Seq(Nat))
      BY <3>2
    <3>4. net_bits \in 0 .. BITS
      BY <2>1, <2>4, AddressAssumption
    <3> QED
      BY <2>1, <2>2, <2>4, <3>1, <3>3, <3>4, ParseAlone
  <2> QED
    BY <1>2, <2>2, <2>3, <2>4 DEF Matches, Crashes
<1>3. ASSUME NEW long \in Long, ToIpv4(t, long) PROVE Undisturbed' /\ AnswersAlone'
  <2>1. UNCHANGED <<call, statics>>
    BY <1>3 DEF ToIpv4
  <2>2. PICK printed \in BOOLEAN :
          ret' = Result([op |-> "long_to_ipv4", args |-> <<long>>, clean |-> printed],
                        IF printed THEN Octets(long) ELSE NULL)
    BY <1>3, Zenon DEF ToIpv4
  <2>3. PICK answer : answer = IF printed THEN Octets(long) ELSE NULL
    OBVIOUS
  <2>4. ret' = [op |-> "long_to_ipv4", args |-> <<long>>, clean |-> printed,
                answer |-> answer]
    BY <2>2, <2>3, Zenon DEF Result
  <2>5. ret'.op = "long_to_ipv4" /\ ret'.args[1] = long
        /\ ret'.clean = printed /\ ret'.answer = answer
    BY <2>4
  <2>6. ret'.clean => ret'.answer = Octets(long)
    BY <2>3, <2>5, Zenon
  <2> QED
    BY <2>1, <2>5, <2>6
       DEF AInv, Undisturbed, AnswersAlone, AnswerAlone, Parsing, Printing, statics
<1>4. ASSUME NEW mac \in Mac, EtherNtoa(t, mac) PROVE Undisturbed' /\ AnswersAlone'
  BY <1>4, EtherAlone
<1> QED
  BY <1>1, <1>2, <1>3, <1>4 DEF NetCall

\* Hashing disturbs nobody.
LEMMA HashAlone ==
  ASSUME AInv, NEW t \in Thread, HashKey(t) \/ HashStep(t), UNCHANGED statics
  PROVE  Undisturbed' /\ AnswersAlone'
<1>1. CASE HashKey(t)
  <2>1. PICK c : c = [op |-> "key_hash", args |-> <<>>, clean |-> TRUE, seed |-> hash_seed,
                      pc |-> IF hash_seed = UNSET THEN "seed" ELSE "use"]
    OBVIOUS
  <2>2. hash_seed \in Seed \cup {UNSET}
    BY DEF AInv, Inv, StaticsOK
  <2>3. c \in SeedCall /\ c.op \notin ParseOp /\ c.op # "ether_ntoa"
    BY <2>1, <2>2 DEF SeedCall, ParseOp
  <2>4. c \in CallOrNull /\ Goes(t, c, {})
    BY <1>1, <2>1, <2>3 DEF CallOrNull, HashKey
  <2> QED
    BY <2>3, <2>4, GoesAlone DEF statics
<1>2. CASE SetSeed(t)
  <2>1. call[t] \in SeedCall
    BY <1>2, AtHash DEF AInv, SetSeed
  <2>2. PICK s \in Seed : Goes(t, [call[t] EXCEPT !.pc = "use", !.seed = s], {})
    BY <1>2 DEF SetSeed
  <2>3. PICK c : c = [call[t] EXCEPT !.pc = "use", !.seed = s]
    OBVIOUS
  <2>4. c \in SeedCall /\ c.op \notin ParseOp /\ c.op # "ether_ntoa"
    BY <2>1, <2>3 DEF SeedCall, ParseOp
  <2>5. c \in CallOrNull /\ Goes(t, c, {})
    BY <2>2, <2>3, <2>4 DEF CallOrNull
  <2> QED
    BY <2>4, <2>5, GoesAlone DEF statics
<1>3. CASE UseSeed(t)
  <2>1. call[t] \in SeedCall
    BY <1>3, AtHash DEF AInv, UseSeed
  <2>2. PICK s : Ends(t, call[t], s, {})
    BY <1>3 DEF UseSeed
  <2>3. Moves(t, NULL, {}) /\ ret'.op = "key_hash" /\ NULL \in CallOrNull
    BY <2>1, <2>2 DEF Ends, Result, SeedCall, CallOrNull
  <2>4. AnswersAlone'
    BY <2>3 DEF AnswersAlone, AnswerAlone
  <2>5. Undisturbed'
    BY <2>3, UndisturbedKept DEF AInv, statics
  <2> QED
    BY <2>4, <2>5
<1> QED
  BY <1>1, <1>2, <1>3 DEF HashStep

LEMMA NextAlone == AInv /\ [Next]_vars => AInv'
<1> SUFFICES ASSUME AInv, [Next]_vars PROVE AInv'
  OBVIOUS
<1>1. Inv'
  BY NextInv DEF AInv
<1>2. ASSUME NEW t \in Thread, Begin(t) \/ Step(t)
      PROVE  Undisturbed' /\ AnswersAlone'
  <2>1. CASE NetCall(t)
    BY <2>1, NetCallAlone
  <2>2. CASE NetStep(t)
    BY <2>2, StrdupAlone, StrtokFirstAlone, StrtokNextAlone, FreeAlone, ReadAlone
       DEF NetStep
  <2>3. CASE (HashKey(t) \/ HashStep(t)) /\ UNCHANGED statics
    BY <2>3, HashAlone
  <2> QED
    BY <1>2, <2>1, <2>2, <2>3 DEF Begin, Step
<1>3. ASSUME UNCHANGED vars PROVE Undisturbed' /\ AnswersAlone'
  BY <1>3
     DEF vars, calls, statics, AInv, Undisturbed, AnswersAlone, Parsing, Printing
<1> QED
  BY <1>1, <1>2, <1>3 DEF Next, AInv

\* However many threads there are and whatever they call between its steps, a
\* call that none has disturbed (none has called strtok while it was between
\* two tokens, or printed an address before it read its own) answers what its
\* own strings make, token by token.
THEOREM AnswersAloneCorrect == Spec => []AnswersAlone
<1>1. Init => AInv
  <2> SUFFICES ASSUME Init PROVE AInv
    OBVIOUS
  <2>1. Undisturbed /\ AnswersAlone
    BY DEF Init, CallsInit, Undisturbed, AnswersAlone, Parsing, Printing
  <2> QED
    BY <2>1, InitInv DEF AInv
<1>2. AInv => AnswersAlone
  BY DEF AInv
<1> QED
  BY <1>1, <1>2, NextAlone, PTL DEF Spec
-----------------------------------------------------------------------------
(* What a call answers alone is what its arguments are worth *)

Digits(ip) == [i \in DOMAIN ip |-> ip[i] % OCTET]
\* How many of its octets a string is worth
Counted(ip) == IF Len(ip) < OCTETS THEN Len(ip) ELSE OCTETS

LEMMA OctetPower ==
  /\ \A i \in 0 .. OCTETS : OctetPowers[i] = OCTET ^ i
  /\ OctetPowers[OCTETS] = FAILED + 1 /\ FAILED \in Nat
<1>1. \A i \in 0 .. OCTETS : OctetPowers[i] = OCTET ^ i
  BY Zenon DEF OctetPowers
<1>2. OCTETS \in 0 .. OCTETS
  BY AddressAssumption
<1>3. OctetPowers[OCTETS] = 2 ^ BITS
  BY <1>1, <1>2, AddressAssumption, Zenon
<1> QED
  BY <1>1, <1>3, Powers

\* The octets that count are the last ones, each worth its power.
LEMMA ValueSum ==
  ASSUME NEW ip \in Seq(Nat), ip # <<>>, NEW n, n = Len(ip), NEW q, q = Counted(ip)
  PROVE  /\ Value(ip) = SumFunctionOnSet(Worth(ip), n - q + 1 .. n)
         /\ Weighs(Worth(ip), Digits(ip), OctetPowers, OCTET, n, q)
         /\ q =< OCTETS /\ (q = OCTETS \/ q = n)
<1>1. /\ n \in Nat /\ q \in 0 .. n /\ q =< OCTETS /\ (q = OCTETS \/ q = n)
      /\ OCTETS \in Nat /\ OCTET \in Nat \ {0} /\ DOMAIN ip = 1 .. n
      /\ \A i \in 1 .. n : ip[i] \in Nat
  BY LenProperties, AddressAssumption DEF Counted
<1>2. PICK w, d : w = Worth(ip) /\ d = Digits(ip)
  OBVIOUS
<1>3. {i \in DOMAIN ip : Len(ip) - i < OCTETS} = n - q + 1 .. n
  <2>1. \A i : i \in 1 .. n /\ n - i < OCTETS <=> i \in n - q + 1 .. n
    BY <1>1
  <2>2. PICK S : S = n - q + 1 .. n
    OBVIOUS
  <2>3. {i \in 1 .. n : n - i < OCTETS} = S
    BY <2>1, <2>2
  <2> QED
    BY <1>1, <2>2, <2>3, Zenon
<1>4. Value(ip) = SumFunctionOnSet(w, n - q + 1 .. n)
  BY <1>2, <1>3, Zenon DEF Value
<1>5. ASSUME NEW j \in n - q + 1 .. n
      PROVE  d[j] \in 0 .. OCTET - 1 /\ w[j] = d[j] * OctetPowers[n - j]
  <2>1. j \in 1 .. n /\ n - j \in 0 .. OCTETS /\ ip[j] \in Nat
    BY <1>1
  <2>2. d[j] = ip[j] % OCTET
    BY <1>1, <1>2, <2>1, Zenon DEF Digits
  <2>3. w[j] = (ip[j] % OCTET) * OCTET ^ (n - j)
    BY <1>1, <1>2, <2>1, Zenon DEF Worth
  <2>4. OctetPowers[n - j] = OCTET ^ (n - j)
    BY <2>1, OctetPower, Zenon
  <2>5. ip[j] % OCTET \in 0 .. OCTET - 1
    BY <1>1, <2>1, Division
  <2> QED
    BY <2>2, <2>3, <2>4, <2>5, Zenon
<1>6. Weighs(w, d, OctetPowers, OCTET, n, q)
  BY <1>1, <1>5 DEF Weighs
<1> QED
  BY <1>1, <1>2, <1>4, <1>6

\* Shifting its tokens in one by one gives a string its value.
LEMMA AloneValue ==
  ASSUME NEW ip \in Seq(Nat), NEW l, Alone(ip, l)
  PROVE  l = Value(ip)
<1>1. CASE ip = <<>>
  BY <1>1, Zenon DEF Alone, Value
<1>2. CASE ip # <<>>
  <2>1. PICK n, q : n = Len(ip) /\ q = Counted(ip)
    OBVIOUS
  <2>2. PICK w, d, p, m : w = Worth(ip) /\ d = Digits(ip) /\ p = OctetPowers /\ m = OCTETS
    OBVIOUS
  <2>3. /\ Value(ip) = SumFunctionOnSet(w, n - q + 1 .. n)
        /\ Weighs(w, d, p, OCTET, n, q) /\ q =< m /\ (q = m \/ q = n)
    BY <1>2, <2>1, <2>2, ValueSum
  <2>4. PowersOf(p, OCTET, m) /\ p[m] = FAILED + 1 /\ FAILED \in Nat
    BY <2>2, PowersOfOctet, OctetPower
  <2>5. PICK v \in [0 .. n -> 0 .. FAILED] :
          /\ v[0] = 0 /\ v[n] = l
          /\ \A i \in 1 .. n : v[i] = Shifted(v[i - 1], ip[i])
    BY <1>2, <2>1 DEF Alone, Makes
  <2>6. n \in Nat /\ q \in 0 .. n /\ DOMAIN ip = 1 .. n
    BY <2>1, <2>3, LenProperties DEF Weighs
  <2>7. \A j \in n - q .. n : v[j] \in 0 .. p[m] - 1
    <3>1. \A j \in n - q .. n : j \in 0 .. n
      BY <2>6
    <3>2. 0 .. p[m] - 1 = 0 .. FAILED
      BY <2>4
    <3> QED
      BY <2>5, <3>1, <3>2
  <2>8. ASSUME NEW j \in n - q + 1 .. n
        PROVE  v[j] = (v[j - 1] * OCTET + d[j]) % p[m]
    <3>1. j \in 1 .. n
      BY <2>6
    <3>2. d[j] = ip[j] % OCTET
      BY <2>2, <2>6, <3>1, Zenon DEF Digits
    <3>3. p[m] = 2 ^ BITS
      BY <2>4, Powers, Zenon
    <3> QED
      BY <2>5, <3>1, <3>2, <3>3, Zenon DEF Shifted
  <2>9. q = m \/ v[n - q] = 0
    <3>1. q = n => n - q = 0
      BY <2>6
    <3> QED
      BY <2>3, <2>5, <3>1
  <2>10. Takes(v, d, p, OCTET, m, n, q)
    BY <2>7, <2>8, <2>9 DEF Takes
  <2>11. v[n] = SumFunctionOnSet(w, n - q + 1 .. n)
    BY <2>3, <2>4, <2>10, DigitsTaken
  <2> QED
    BY <2>3, <2>5, <2>11
<1> QED
  BY <1>1, <1>2

\* The string an address is printed as is worth the address.
LEMMA OctetsValue ==
  ASSUME NEW long \in Long
  PROVE  Value(Octets(long)) = long
<1>1. /\ OCTETS \in Nat \ {0} /\ OCTET \in Nat \ {0} /\ FAILED \in Nat
      /\ long \in 0 .. FAILED
  BY AddressAssumption, Powers, Zenon DEF FAILED
<1>2. PICK ip, n : ip = Octets(long) /\ n = OCTETS
  OBVIOUS
<1>3. PICK p : p = OctetPowers
  OBVIOUS
<1>4. PowersOf(p, OCTET, n) /\ p[n] = FAILED + 1
  BY <1>2, <1>3, PowersOfOctet, OctetPower
<1>5. DOMAIN ip = 1 .. n /\ \A i \in 1 .. n : ip[i] = (long \div p[n - i]) % OCTET
  <2>1. \A i \in 1 .. n : ip[i] = (long \div OCTET ^ (n - i)) % OCTET
    BY <1>2, Zenon DEF Octets
  <2>2. \A i \in 1 .. n : n - i \in 0 .. n
    BY <1>1, <1>2
  <2>3. \A i \in 1 .. n : p[n - i] = OCTET ^ (n - i)
    BY <1>2, <1>3, <2>2, OctetPower, Zenon
  <2>4. DOMAIN ip = 1 .. n
    BY <1>2, Zenon DEF Octets
  <2> QED
    BY <2>1, <2>3, <2>4, Zenon
<1>6. \A i \in 1 .. n : ip[i] \in 0 .. OCTET - 1
  <2> TAKE i \in 1 .. n
  <2>1. n - i \in 0 .. n
    BY <1>1, <1>2
  <2>2. PICK a \in Nat \ {0} : a = p[n - i]
    BY <1>4, <2>1 DEF PowersOf
  <2>3. PICK b \in Nat : b = long \div a
    <3>1. long \in Nat
      BY <1>1
    <3> QED
      BY <3>1, Division
  <2>4. b % OCTET \in 0 .. OCTET - 1
    BY <1>1, Division
  <2> QED
    BY <1>5, <2>2, <2>3, <2>4
<1>7. ip \in Seq(Nat) /\ Len(ip) = n /\ ip # <<>>
  <2>1. ip \in [1 .. n -> Nat]
    <3>1. ip = [i \in 1 .. n |-> ip[i]]
      BY <1>2, Zenon DEF Octets
    <3>2. \A i \in 1 .. n : ip[i] \in Nat
      BY <1>1, <1>6
    <3> QED
      BY <3>1, <3>2, Zenon
  <2> QED
    BY <1>1, <1>2, <2>1
<1>8. Counted(ip) = n
  BY <1>2, <1>7 DEF Counted
<1>9. PICK w, d : w = Worth(ip) /\ d = Digits(ip)
  OBVIOUS
<1>10. /\ Value(ip) = SumFunctionOnSet(w, n - n + 1 .. n)
       /\ Weighs(w, d, p, OCTET, n, n)
  BY <1>3, <1>7, <1>8, <1>9, ValueSum
<1>11. \A j \in n - n + 1 .. n : d[j] = (long \div p[n - j]) % OCTET
  <2> TAKE j \in n - n + 1 .. n
  <2>1. j \in 1 .. n
    BY <1>1, <1>2
  <2>2. d[j] = ip[j] % OCTET
    BY <1>5, <1>9, <2>1, Zenon DEF Digits
  <2>3. PICK x \in 0 .. OCTET - 1 : x = ip[j]
    BY <1>6, <2>1
  <2>4. x % OCTET = x
    BY <1>1
  <2> QED
    BY <1>5, <2>1, <2>2, <2>3, <2>4
<1>12. long \in Nat /\ n =< n
  BY <1>1, <1>2
<1>13. SumFunctionOnSet(w, n - n + 1 .. n) = long % p[n]
  BY <1>4, <1>10, <1>11, <1>12, DigitsOf
<1>14. long % (FAILED + 1) = long
  BY <1>1
<1> QED
  BY <1>2, <1>4, <1>10, <1>13, <1>14

\* The first b bits of an address
Leading(long, b) == long \div Twos[BITS - b]

LEMMA TwosFacts ==
  ASSUME NEW b \in 0 .. BITS
  PROVE  /\ BITS - b \in 0 .. BITS /\ Twos[BITS - b] \in Nat \ {0}
         /\ Twos[BITS - b] = 2 ^ (BITS - b)
         /\ b > 0 => Twos[BITS - (b - 1)] = Twos[BITS - b] * 2
<1>1. BITS \in Nat /\ BITS - b \in 0 .. BITS
  BY AddressAssumption
<1>2. Twos[BITS - b] \in Nat \ {0}
  BY <1>1, PowersOfTwo DEF PowersOf
<1>3. Twos[BITS - b] = 2 ^ (BITS - b)
  BY <1>1, Zenon DEF Twos
<1>4. ASSUME b > 0 PROVE Twos[BITS - (b - 1)] = Twos[BITS - b] * 2
  <2>1. BITS - b \in 0 .. BITS - 1 /\ (BITS - b) + 1 = BITS - (b - 1)
    BY <1>1, <1>4
  <2>2. Twos[(BITS - b) + 1] = 2 * Twos[BITS - b]
    BY <2>1, PowersOfTwo DEF PowersOf
  <2>3. 2 * Twos[BITS - b] = Twos[BITS - b] * 2
    BY <1>2
  <2> QED
    BY <2>1, <2>2, <2>3
<1> QED
  BY <1>1, <1>2, <1>3, <1>4, Zenon

\* Each bit more doubles them and adds itself.
LEMMA LeadingNext ==
  ASSUME NEW long \in Nat, NEW b \in 1 .. BITS
  PROVE  /\ Leading(long, b) \in Nat /\ Leading(long, b - 1) \in Nat
         /\ BitOf(long, b) \in 0 .. 1
         /\ Leading(long, b) = 2 * Leading(long, b - 1) + BitOf(long, b)
<1>1. b \in 0 .. BITS /\ b > 0
  OBVIOUS
<1>2. PICK a \in Nat \ {0} : /\ a = Twos[BITS - b] /\ a = 2 ^ (BITS - b)
                             /\ Twos[BITS - (b - 1)] = a * 2
  BY <1>1, TwosFacts, Zenon
<1>3. PICK x \in Nat : x = long \div a
  BY Division
<1>4. (long \div a) \div 2 = long \div (a * 2)
  <2>1. PICK two \in Nat \ {0} : two = 2
    OBVIOUS
  <2>2. (long \div a) \div two = long \div (a * two)
    BY DivisionTwice
  <2> QED
    BY <2>1, <2>2
<1>5. x \div 2 \in Nat /\ x % 2 \in 0 .. 1 /\ x = 2 * (x \div 2) + (x % 2)
  OBVIOUS
<1>6. Leading(long, b) = x
  BY <1>2, <1>3, Zenon DEF Leading
<1>7. BitOf(long, b) = x % 2
  BY <1>2, <1>3, Zenon DEF BitOf
<1>8. Leading(long, b - 1) = x \div 2
  BY <1>2, <1>3, <1>4, Zenon DEF Leading
<1> QED
  BY <1>5, <1>6, <1>7, <1>8

\* Two addresses start with the same bits if each of those bits is the same.
LEMMA SameLeading ==
  ASSUME NEW l \in 0 .. FAILED, NEW m \in 0 .. FAILED, NEW b \in 0 .. BITS
  PROVE  Leading(l, b) = Leading(m, b) <=> \A i \in 1 .. b : BitOf(l, i) = BitOf(m, i)
<1> DEFINE T == {c \in 0 .. BITS : Leading(l, c) = Leading(m, c) <=>
                                     \A i \in 1 .. c : BitOf(l, i) = BitOf(m, i)}
<1>1. BITS \in Nat /\ FAILED \in Nat /\ l \in Nat /\ m \in Nat
  BY AddressAssumption, Powers
<1>2. 0 \in T
  <2>1. BITS - 0 = BITS /\ 0 \in 0 .. BITS
    BY <1>1
  <2>2. Twos[BITS - 0] = FAILED + 1
    BY <2>1, TwosFacts, Powers, Zenon
  <2>3. l \div (FAILED + 1) = 0 /\ m \div (FAILED + 1) = 0
    BY <1>1
  <2>4. Leading(l, 0) = 0 /\ Leading(m, 0) = 0
    BY <2>2, <2>3, Zenon DEF Leading
  <2> QED
    BY <2>1, <2>4
<1>3. ASSUME NEW c \in 1 .. BITS, c - 1 \in T PROVE c \in T
  <2>1. PICK x, y, f, g, h, k :
          /\ x = Leading(l, c) /\ y = Leading(m, c)
          /\ f = Leading(l, c - 1) /\ g = Leading(m, c - 1)
          /\ h = BitOf(l, c) /\ k = BitOf(m, c)
    OBVIOUS
  <2>2. /\ f \in Nat /\ g \in Nat /\ h \in 0 .. 1 /\ k \in 0 .. 1
        /\ x = 2 * f + h /\ y = 2 * g + k
    BY <1>1, <2>1, LeadingNext
  <2>3. x = y <=> f = g /\ h = k
    BY <2>2
  <2>4. f = g <=> \A i \in 1 .. c - 1 : BitOf(l, i) = BitOf(m, i)
    BY <1>3, <2>1
  <2>5. 1 .. c = (1 .. c - 1) \cup {c}
    OBVIOUS
  <2>6. x = y <=> \A i \in 1 .. c : BitOf(l, i) = BitOf(m, i)
    BY <2>1, <2>3, <2>4, <2>5, Zenon
  <2>7. c \in 0 .. BITS
    OBVIOUS
  <2> QED
    BY <2>1, <2>6, <2>7
<1>4. \A c \in 0 .. BITS : c \in T
  <2> HIDE DEF T
  <2> QED
    BY <1>1, <1>2, <1>3, UpTo
<1> QED
  BY <1>4

\* The mask keeps those bits, so it tells addresses apart by nothing else.
LEMMA MaskedSame ==
  ASSUME NEW l \in 0 .. FAILED, NEW m \in 0 .. FAILED, NEW b \in 0 .. BITS
  PROVE  (Masked(l, b) = Masked(m, b)) = \A i \in 1 .. b : BitOf(l, i) = BitOf(m, i)
<1>1. FAILED \in Nat /\ l \in Nat /\ m \in Nat
  BY Powers
<1>2. PICK a \in Nat \ {0} : a = Twos[BITS - b] /\ a = 2 ^ (BITS - b)
  BY TwosFacts, Zenon
<1>3. PICK x \in Nat, y \in Nat : x = l \div a /\ y = m \div a
  BY <1>1, Division
<1>4. l - (l % a) = a * x /\ m - (m % a) = a * y
  BY <1>1, <1>3, Division
<1>5. Masked(l, b) = a * x /\ Masked(m, b) = a * y
  BY <1>2, <1>4, Zenon DEF Masked
<1>6. ASSUME a * x = a * y PROVE x = y
  <2>1. (x - y) * a = a * x - a * y
    OBVIOUS
  <2>2. (x - y) * a = 0 /\ x - y \in Int
    BY <1>6, <2>1
  <2>3. x - y = 0
    BY <2>2, NoMultiple
  <2> QED
    BY <2>3
<1>7. Leading(l, b) = x /\ Leading(m, b) = y
  BY <1>2, <1>3, Zenon DEF Leading
<1>8. Masked(l, b) = Masked(m, b) <=> \A i \in 1 .. b : BitOf(l, i) = BitOf(m, i)
  BY <1>5, <1>6, <1>7, SameLeading, Zenon
<1> QED
  BY <1>8, Zenon

LEMMA AloneRight ==
  ASSUME NEW r, r # NULL, AnswerAlone(r)
  PROVE  Right(r)
<1>1. CASE r.op = "ipv4_to_long"
  <2>1. r.answer = Value(r.args[1])
    BY <1>1, AloneValue, Zenon DEF AnswerAlone
  <2> QED
    BY <1>1, <2>1 DEF Right
<1>2. CASE r.op = "ipv4_matches"
  <2>1. PICK x, y, b : x = r.args[1] /\ y = r.args[2] /\ b = r.args[3]
    OBVIOUS
  <2>2. /\ x \in Seq(Nat) /\ y \in Seq(Nat) /\ b \in 0 .. BITS
        /\ \E l, m \in 0 .. FAILED :
             /\ Alone(x, l) /\ Alone(y, m)
             /\ r.answer = (Masked(l, b) = Masked(m, b))
    BY <1>2, <2>1, Zenon DEF AnswerAlone
  <2>3. PICK l \in 0 .. FAILED, m \in 0 .. FAILED :
          /\ Alone(x, l) /\ Alone(y, m)
          /\ r.answer = (Masked(l, b) = Masked(m, b))
    BY <2>2, Zenon
  <2>4. l = Value(x) /\ m = Value(y)
    BY <2>2, <2>3, AloneValue
  <2>5. r.answer = \A i \in 1 .. b : BitOf(l, i) = BitOf(m, i)
    <3>1. PICK f, g : f = Masked(l, b) /\ g = Masked(m, b)
      OBVIOUS
    <3>2. (f = g) = \A i \in 1 .. b : BitOf(l, i) = BitOf(m, i)
      <4>1. b \in 0 .. BITS
        BY <2>2
      <4> QED
        BY <3>1, <4>1, MaskedSame
    <3> QED
      BY <2>3, <3>1, <3>2, Zenon
  <2>6. r.answer = \A i \in 1 .. r.args[3] :
                     BitOf(Value(r.args[1]), i) = BitOf(Value(r.args[2]), i)
    BY <2>1, <2>4, <2>5, Zenon
  <2> QED
    BY <1>2, <2>6 DEF Right
<1>3. CASE r.op = "long_to_ipv4"
  <2>1. Value(r.answer) = r.args[1]
    BY <1>3, OctetsValue, Zenon DEF AnswerAlone
  <2> QED
    BY <1>3, <2>1 DEF Right
<1>4. CASE r.op = "ether_ntoa"
  BY <1>4 DEF Right, AnswerAlone
<1>5. CASE r.op \notin {"ipv4_to_long", "ipv4_matches", "long_to_ipv4", "ether_ntoa"}
  BY <1>5 DEF Right
<1> QED
  BY <1>1, <1>2, <1>3, <1>4, <1>5

\* The number is the one the string writes, whatever its length and however
\* great its tokens, a match is of the first bits one by one, and an address is
\* printed as a string that is parsed back as it: so it answers, for any number
\* of threads, unless another has disturbed the call or its strdup has failed.
THEOREM AnswersRightCorrect == Spec => []AnswersRight
<1>1. AnswersAlone => AnswersRight
  BY AloneRight DEF AnswersAlone, AnswersRight
<1> QED
  BY <1>1, AnswersAloneCorrect, PTL
=============================================================================
