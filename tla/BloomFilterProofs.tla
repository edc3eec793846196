------------------------- MODULE BloomFilterProofs -------------------------
(***************************************************************************)
(* Proofs about BitArray and BloomFilter, for words of any width, any size *)
(* and any hashes.                                                         *)
(***************************************************************************)
EXTENDS BloomFilter, SequenceTheorems, TLAPS

BitWord == SUBSET (0 .. W - 1)

\* All bits below size_bits are in the first word, and it holds those that were
\* set and not cleared since.
FirstWord ==
  words # NULL /\ size_bits > 0 => words[1] = UNION {Mask(k) : k \in kept}

\* No bit of a key that was added has been cleared.
AddedKept == bit_array = "live" => \A key \in added : Hashes(key) \subseteq kept

\* The inductive invariant.
Inv == TypeOK /\ FirstWord /\ AddedKept /\ FaultsOutside /\ FilterFaults

-----------------------------------------------------------------------------
(* Words and positions *)

\* Division by any size.
LEMMA DivMod ==
  ASSUME NEW k \in Nat, NEW m \in Nat, m > 0
  PROVE  /\ k % m \in 0 .. m - 1 /\ k \div m \in Nat
         /\ k = m * (k \div m) + (k % m)
         /\ k < m => k \div m = 0 /\ k % m = k
         /\ k >= m => k \div m >= 1
<1>1. k % m \in 0 .. m - 1 /\ k \div m \in Int /\ k = m * (k \div m) + (k % m)
  OBVIOUS
<1> DEFINE q == k \div m  r == k % m
<1> HIDE DEF q, r
<1>2. r \in 0 .. m - 1 /\ q \in Int /\ k = m * q + r
  BY <1>1 DEF q, r
<1>3. q >= 0
  <2>1. CASE q =< -1
    <3>1. m * q =< m * (-1)
      BY <1>2, <2>1
    <3> QED
      BY <1>2, <3>1
  <2> QED
    BY <1>2, <2>1
<1>4. ASSUME k < m PROVE q = 0
  <2>1. CASE q >= 1
    <3>1. m * q >= m
      BY <1>2, <2>1
    <3> QED
      BY <1>2, <1>4, <3>1
  <2> QED
    BY <1>2, <1>3, <2>1
<1>5. k >= m => q >= 1
  <2>1. CASE q = 0
    BY <1>2, <2>1
  <2> QED
    BY <1>2, <1>3, <2>1
<1>6. k < m => r = k
  BY <1>2, <1>4
<1> QED
  BY <1>1, <1>3, <1>4, <1>5, <1>6 DEF q, r

\* A multiple of the width is as many words.
LEMMA Multiple ==
  ASSUME NEW q \in Nat, NEW m \in Nat, m > 0
  PROVE  (q * m) \div m = q /\ q * m \in Nat
<1>1. q * m \in Nat
  OBVIOUS
<1>2. PICK k \in Nat : k = q * m
  BY <1>1
<1>3. k \div m \in Nat /\ k % m \in 0 .. m - 1 /\ k = m * (k \div m) + (k % m)
  BY DivMod
<1> DEFINE d == k \div m  r == k % m
<1> HIDE DEF d, r
<1>4. d \in Nat /\ r \in 0 .. m - 1 /\ q * m = m * d + r
  BY <1>2, <1>3 DEF d, r
<1>5. m * (q - d) = r
  BY <1>4
<1>6. CASE q - d >= 1
  <2>1. m * (q - d) >= m
    BY <1>4, <1>6
  <2> QED
    BY <1>4, <1>5, <2>1
<1>7. CASE q - d =< -1
  <2>1. m * (q - d) =< m * (-1)
    BY <1>4, <1>7
  <2> QED
    BY <1>4, <1>5, <2>1
<1>8. d = q
  BY <1>4, <1>6, <1>7
<1> QED
  BY <1>1, <1>2, <1>8 DEF d

\* bit_array_init rounds to whole words, and to a size_t.
LEMMA RoundedFacts ==
  ASSUME NEW size \in 0 .. SIZE_MAX
  PROVE  /\ Rounded(size) \in 0 .. SIZE_MAX
         /\ Rounded(size) \div W \in Nat
         /\ Rounded(size) = W * (Rounded(size) \div W)
<1>1. W \in Nat /\ W > 0 /\ SIZE_MAX \in Nat /\ size \in Nat
  BY BitAssumption
<1>2. PICK n \in Nat : n = (size + W - 1) % (SIZE_MAX + 1) /\ n =< SIZE_MAX
  BY <1>1, DivMod
<1>3. PICK q \in Nat : q = n \div W /\ n = W * q + (n % W) /\ n % W \in Nat
  BY <1>1, DivMod
<1>4. Rounded(size) = q * W
  BY <1>2, <1>3 DEF Rounded
<1>5. (q * W) \div W = q /\ q * W \in Nat
  BY <1>1, Multiple
<1>6. q * W = W * q
  BY <1>1
<1>7. q * W =< n
  BY <1>1, <1>3, <1>5, <1>6
<1> QED
  BY <1>1, <1>2, <1>4, <1>5, <1>6, <1>7

\* An array with bits has words, and one without words has no bits.
LEMMA WordsFacts ==
  ASSUME BitTypeOK, words # NULL
  PROVE  /\ words \in Seq(BitWord) /\ Len(words) \in Nat /\ size_bits \in Nat
         /\ DOMAIN words = 1 .. Len(words)
         /\ \A w \in 1 .. Len(words) : words[w] \in BitWord
         /\ size_bits > 0 => Len(words) >= 1
         /\ size_bits = 0 => Len(words) = 0
<1>1. /\ words \in Seq(BitWord) /\ size_bits = W * Len(words) /\ size_bits \in 0 .. SIZE_MAX
  BY DEF BitTypeOK, BitWord
<1>2. PICK n \in Nat : n = Len(words)
  BY <1>1, LenProperties
<1>3. W \in Nat /\ W > 0 /\ size_bits = W * n /\ size_bits \in Nat
  BY <1>1, <1>2, BitAssumption
<1>4. n >= 1 => W * n >= W
  BY <1>3
<1>5. n = 0 => W * n = 0
  BY <1>3
<1> QED
  BY <1>1, <1>2, <1>3, <1>4, <1>5, LenProperties

\* The bits below size_bits have their masks in the first word, those of bits
\* from W on as wide shifts make them; the others are not in that word.
LEMMA MaskFacts ==
  ASSUME BitTypeOK, size_bits > 0, NEW k \in Nat
  PROVE  /\ Mask(k) \in BitWord /\ Word(k) \in Nat
         /\ k < size_bits =>
              /\ Word(k) = 0
              /\ Mask(k) = IF wide = "wraps" THEN {k % W} ELSE IF k < W THEN {k} ELSE {}
         /\ k >= size_bits => Word(k) >= 1
<1>1. W \in Nat /\ W > 0 /\ size_bits \in Nat
  BY BitAssumption DEF BitTypeOK
<1>2. PICK s \in Nat : s = k % size_bits /\ (k < size_bits => s = k)
  BY <1>1, DivMod
<1>3. Mask(k) = IF s < W THEN {s} ELSE IF wide = "wraps" THEN {s % W} ELSE {}
  BY <1>2 DEF Mask
<1>4. s % W \in 0 .. W - 1 /\ (s < W => s % W = s)
  BY <1>1, DivMod
<1>5. Mask(k) \in BitWord
  BY <1>1, <1>3, <1>4 DEF BitWord
<1>6. /\ Word(k) \in Nat /\ (k < size_bits => Word(k) = 0)
      /\ (k >= size_bits => Word(k) >= 1)
  BY <1>1, DivMod DEF Word
<1>7. k < size_bits =>
        Mask(k) = IF wide = "wraps" THEN {k % W} ELSE IF k < W THEN {k} ELSE {}
  BY <1>2, <1>3, <1>4
<1> QED
  BY <1>5, <1>6, <1>7

\* Bits below size_bits that are the same share their mask, others no position.
LEMMA SameMask ==
  ASSUME BitTypeOK, size_bits > 0, NEW j \in 0 .. size_bits - 1, NEW k \in 0 .. size_bits - 1
  PROVE  IF Same(j, k) THEN Mask(j) = Mask(k) ELSE Mask(j) \cap Mask(k) = {}
<1>1. j \in Nat /\ k \in Nat /\ j < size_bits /\ k < size_bits
  BY DEF BitTypeOK
<1>2. /\ Mask(j) = IF wide = "wraps" THEN {j % W} ELSE IF j < W THEN {j} ELSE {}
      /\ Mask(k) = IF wide = "wraps" THEN {k % W} ELSE IF k < W THEN {k} ELSE {}
  BY <1>1, MaskFacts
<1> QED
  BY <1>2 DEF Same

\* A bit leads out of an array with words only when it is not below size_bits.
LEMMA InsideFacts ==
  ASSUME BitTypeOK, words # NULL, NEW k \in Nat, ~Inside(k)
  PROVE  k >= size_bits
<1>1. size_bits \in Nat /\ Len(words) \in Nat /\ (size_bits > 0 => Len(words) >= 1)
  BY WordsFacts
<1>2. CASE size_bits = 0
  BY <1>2
<1>3. CASE size_bits > 0
  <2>1. ~(Word(k) < Len(words))
    BY <1>3 DEF Inside
  <2> QED
    BY <1>1, <1>3, <2>1, MaskFacts
<1> QED
  BY <1>1, <1>2, <1>3

\* Setting bits adds their masks to their words, and so the masks of those below
\* size_bits to the first.
LEMMA WithFacts ==
  ASSUME BitTypeOK, words # NULL, size_bits > 0, NEW K \in SUBSET Nat
  PROVE  /\ With(K) \in Seq(BitWord) /\ Len(With(K)) = Len(words) /\ With(K) # NULL
         /\ With(K)[1] = words[1] \cup UNION {Mask(k) : k \in {j \in K : j < size_bits}}
<1>1. PICK n \in Nat : /\ n = Len(words) /\ DOMAIN words = 1 .. n /\ n >= 1
                       /\ \A w \in 1 .. n : words[w] \in BitWord
  BY WordsFacts
<1>2. \A k \in K : Mask(k) \in BitWord
  BY MaskFacts
<1>3. With(K) \in [1 .. n -> BitWord]
  <2>1. \A w \in 1 .. n :
          words[w] \cup UNION {Mask(k) : k \in {j \in K : Word(j) + 1 = w}} \in BitWord
    BY <1>1, <1>2 DEF BitWord
  <2> QED
    BY <1>1, <2>1 DEF With
<1>4. With(K) \in Seq(BitWord) /\ Len(With(K)) = n
  BY <1>3, IsASeq, LenProperties
<1>5. With(K) # NULL
  BY <1>4, BitAssumption DEF BitWord
<1>6. {j \in K : Word(j) + 1 = 1} = {j \in K : j < size_bits}
  <2>1. size_bits \in Nat
    BY DEF BitTypeOK
  <2>2. ASSUME NEW k \in K PROVE Word(k) + 1 = 1 <=> k < size_bits
    BY <2>1, MaskFacts
  <2> QED
    BY <2>2
<1>7. With(K)[1] = words[1] \cup UNION {Mask(k) : k \in {j \in K : Word(j) + 1 = 1}}
  BY <1>1 DEF With
<1> QED
  BY <1>1, <1>4, <1>5, <1>6, <1>7

-----------------------------------------------------------------------------
(* The operations of the bit array *)

BitInv == BitTypeOK /\ FirstWord

LEMMA AnswerFacts ==
  ASSUME NEW op, NEW r, Answer(op, r), BitTypeOK
  PROVE  ~fault /\ ~fault' /\ fault' \in BOOLEAN /\ wide' = wide
BY DEF Answer, BitTypeOK

\* A step that leaves the bits alone.
LEMMA BitsIdle ==
  ASSUME BitInv, UNCHANGED <<bits, wide, kept>>, fault' \in BOOLEAN
  PROVE  BitInv'
BY DEF BitInv, BitTypeOK, FirstWord, Mask, bits

LEMMA CrashFacts ==
  ASSUME BitInv, NEW op, Crash(op)
  PROVE  BitInv' /\ fault' /\ ret'[1] = op /\ UNCHANGED <<bits, wide, kept>>
<1>1. UNCHANGED <<bits, wide, kept>> /\ fault' = TRUE /\ ret' = <<op, NULL>>
  BY DEF Crash
<1> QED
  BY <1>1, BitsIdle

\* An array just made has no bit set.
LEMMA SetupInv ==
  ASSUME BitInv, NEW size \in Size, Setup(size)
  PROVE  /\ BitInv' /\ ~fault'
         /\ IF words' # NULL THEN ret' = <<"init", TRUE>> ELSE ret' = <<"init", FALSE>>
<1>1. size \in 0 .. SIZE_MAX
  BY BitAssumption
<1>2. PICK q \in Nat : /\ q = Rounded(size) \div W /\ Rounded(size) = W * q
                       /\ Rounded(size) \in 0 .. SIZE_MAX
  BY <1>1, RoundedFacts
<1>3. size_bits' = W * q /\ size_bits' \in 0 .. SIZE_MAX /\ kept' = {}
  BY <1>2 DEF Setup
<1>4. CASE words' = [i \in 1 .. q |-> {}] /\ Answer("init", TRUE)
  <2>1. words' \in [1 .. q -> BitWord]
    BY <1>4 DEF BitWord
  <2>2. words' \in Seq(BitWord) /\ Len(words') = q
    BY <2>1, IsASeq, LenProperties
  <2>3. words' # NULL /\ ret' = <<"init", TRUE>>
    BY <1>4, <2>2, BitAssumption DEF BitWord, Answer
  <2>4. ~fault' /\ fault' \in BOOLEAN /\ wide' = wide
    BY <1>4, AnswerFacts DEF BitInv
  <2>5. BitTypeOK'
    BY <1>3, <2>2, <2>4 DEF BitTypeOK, BitInv, BitWord
  <2>6. FirstWord'
    <3>1. ASSUME size_bits' > 0 PROVE words'[1] = {}
      <4>1. W \in Nat /\ W * 0 = 0
        BY BitAssumption
      <4>2. q >= 1
        BY <1>2, <1>3, <3>1, <4>1
      <4> QED
        BY <1>4, <4>2
    <3> QED
      BY <1>3, <3>1 DEF FirstWord
  <2> QED
    BY <2>3, <2>4, <2>5, <2>6 DEF BitInv
<1>5. CASE words' = NULL /\ Answer("init", FALSE)
  <2>1. ~fault' /\ fault' \in BOOLEAN /\ wide' = wide /\ ret' = <<"init", FALSE>>
    BY <1>5, AnswerFacts DEF BitInv, Answer
  <2> QED
    BY <1>3, <1>5, <2>1 DEF BitTypeOK, BitInv, FirstWord
<1> QED
  BY <1>2, <1>4, <1>5 DEF Setup

\* Setting bits below size_bits, and one bit from there on, which is in another word.
LEMMA WithInv ==
  ASSUME BitInv, words # NULL, size_bits > 0, NEW K \in SUBSET Nat,
         words' = With(K), UNCHANGED <<size_bits, wide>>, fault' \in BOOLEAN,
         kept' = kept \cup {k \in K : k < size_bits}
  PROVE  BitInv' /\ words' # NULL
<1>1. /\ words' \in Seq(BitWord) /\ Len(words') = Len(words) /\ words' # NULL
      /\ words'[1] = words[1] \cup UNION {Mask(k) : k \in {j \in K : j < size_bits}}
  BY WithFacts DEF BitInv
<1>2. size_bits \in Nat
  BY DEF BitInv, BitTypeOK
<1>3. BitTypeOK'
  <2>1. kept' \subseteq 0 .. size_bits - 1
    <3>1. kept \subseteq 0 .. size_bits - 1
      BY DEF BitInv, BitTypeOK
    <3>2. ASSUME NEW k \in K, k < size_bits PROVE k \in 0 .. size_bits - 1
      <4>1. k \in Nat
        OBVIOUS
      <4> QED
        BY <1>2, <3>2, <4>1
    <3> QED
      BY <3>1, <3>2
  <2> QED
    BY <1>1, <2>1 DEF BitInv, BitTypeOK, BitWord
<1>4. FirstWord'
  <2>1. words[1] = UNION {Mask(k) : k \in kept}
    BY DEF BitInv, FirstWord
  <2>2. \A k : Mask(k)' = Mask(k)
    BY DEF Mask
  <2>3. words'[1] = UNION {Mask(k) : k \in kept'}
    BY <1>1, <2>1
  <2> QED
    BY <2>2, <2>3 DEF FirstWord
<1> QED
  BY <1>1, <1>3, <1>4 DEF BitInv

\* A bit array that some bit leads into has words, and bits.
LEMMA InsideSize ==
  ASSUME BitTypeOK, NEW k, Inside(k)
  PROVE  words # NULL /\ size_bits > 0 /\ Word(k) < Len(words)
BY DEF Inside, BitTypeOK

LEMMA SetBitInv ==
  ASSUME BitInv, NEW k \in Nat, SetBit(k)
  PROVE  BitInv' /\ (fault' => words = NULL \/ k >= size_bits)
                 /\ UNCHANGED size_bits /\ (words' = NULL <=> words = NULL) /\ ret'[1] = "set"
<1>1. CASE ~Inside(k) /\ Crash("set")
  BY <1>1, CrashFacts, InsideFacts DEF BitInv, bits
<1>2. CASE /\ Inside(k) /\ words' = With({k}) /\ UNCHANGED size_bits
           /\ kept' = IF k < size_bits THEN kept \cup {k} ELSE kept
           /\ Answer("set", TRUE)
  <2>1. words # NULL /\ size_bits > 0
    BY <1>2, InsideSize DEF BitInv
  <2>2. ~fault' /\ fault' \in BOOLEAN /\ wide' = wide /\ ret'[1] = "set"
    BY <1>2, AnswerFacts DEF BitInv, Answer
  <2>3. kept' = kept \cup {j \in {k} : j < size_bits}
    BY <1>2
  <2> QED
    BY <1>2, <2>1, <2>2, <2>3, WithInv
<1> QED
  BY <1>1, <1>2 DEF SetBit

\* Clearing a bit takes its position from its word; that of another bit of the
\* first word stays.
LEMMA ClearBitInv ==
  ASSUME BitInv, NEW k \in Nat, ClearBit(k)
  PROVE  BitInv' /\ (fault' => words = NULL \/ k >= size_bits)
                 /\ UNCHANGED size_bits /\ (words' = NULL <=> words = NULL) /\ ret'[1] = "clear"
<1>1. CASE ~Inside(k) /\ Crash("clear")
  BY <1>1, CrashFacts, InsideFacts DEF BitInv, bits
<1>2. CASE /\ Inside(k) /\ words' = Without(k) /\ UNCHANGED size_bits
           /\ kept' = {j \in kept : k < size_bits => ~Same(j, k)}
           /\ Answer("clear", TRUE)
  <2>1. words # NULL /\ size_bits > 0 /\ Word(k) < Len(words) /\ BitTypeOK /\ size_bits \in Nat
    BY <1>2, InsideSize DEF BitInv, BitTypeOK
  <2>2. ~fault' /\ fault' \in BOOLEAN /\ wide' = wide /\ ret'[1] = "clear"
    BY <1>2, AnswerFacts DEF BitInv, Answer
  <2>3. PICK n \in Nat : /\ n = Len(words) /\ DOMAIN words = 1 .. n /\ n >= 1
                         /\ \A w \in 1 .. n : words[w] \in BitWord
    BY <2>1, WordsFacts
  <2>4. Word(k) \in Nat /\ Word(k) + 1 \in 1 .. n /\ (k >= size_bits => Word(k) >= 1)
        /\ (k < size_bits => Word(k) = 0)
    BY <2>1, <2>3, MaskFacts, SMTT(30)
  <2>5. words' = [w \in 1 .. n |-> IF w = Word(k) + 1 THEN words[w] \ Mask(k) ELSE words[w]]
    BY <1>2, <2>3, <2>4 DEF Without
  <2>6. words' \in [1 .. n -> BitWord]
    BY <2>3, <2>5 DEF BitWord
  <2>7. words' \in Seq(BitWord) /\ Len(words') = n
    BY <2>6, IsASeq, LenProperties
  <2>8. words' # NULL
    BY <2>7, BitAssumption DEF BitWord
  <2>9. BitTypeOK'
    <3>1. kept' \subseteq 0 .. size_bits - 1
      BY <1>2, <2>1 DEF BitTypeOK
    <3> QED
      BY <1>2, <2>1, <2>2, <2>3, <2>7, <3>1 DEF BitTypeOK, BitWord
  <2>10. FirstWord'
    <3>1. words[1] = UNION {Mask(j) : j \in kept}
      BY <2>1 DEF BitInv, FirstWord
    <3>2. \A j : Mask(j)' = Mask(j)
      BY <1>2, <2>2 DEF Mask
    <3>3. CASE k >= size_bits
      <4>1. words'[1] = words[1] /\ kept' = kept
        BY <1>2, <2>1, <2>3, <2>4, <2>5, <3>3
      <4> QED
        BY <3>1, <3>2, <4>1 DEF FirstWord
    <3>4. CASE k < size_bits
      <4>1. words'[1] = words[1] \ Mask(k)
        BY <2>3, <2>4, <2>5, <3>4
      <4>2. \A j \in kept : IF Same(j, k) THEN Mask(j) = Mask(k) ELSE Mask(j) \cap Mask(k) = {}
        <5>1. k \in 0 .. size_bits - 1 /\ kept \subseteq 0 .. size_bits - 1
          BY <2>1, <3>4 DEF BitTypeOK
        <5> QED
          BY <2>1, <5>1, SameMask
      <4>3. kept' = {j \in kept : ~Same(j, k)}
        BY <1>2, <3>4
      <4>4. words'[1] = UNION {Mask(j) : j \in kept'}
        BY <3>1, <4>1, <4>2, <4>3
      <4> QED
        BY <3>2, <4>4 DEF FirstWord
    <3> QED
      BY <2>1, <3>3, <3>4
  <2> QED
    BY <1>2, <2>1, <2>2, <2>8, <2>9, <2>10 DEF BitInv
<1> QED
  BY <1>1, <1>2 DEF ClearBit

LEMMA TestBitInv ==
  ASSUME BitInv, NEW k \in Nat, TestBit(k)
  PROVE  BitInv' /\ (fault' => words = NULL \/ k >= size_bits)
                 /\ UNCHANGED size_bits /\ (words' = NULL <=> words = NULL) /\ ret'[1] = "test"
<1>1. CASE ~Inside(k) /\ Crash("test")
  BY <1>1, CrashFacts, InsideFacts DEF BitInv, bits
<1>2. CASE Answer("test", IsSet(k)) /\ UNCHANGED <<bits, kept>>
  <2>1. ~fault' /\ fault' \in BOOLEAN /\ wide' = wide /\ ret'[1] = "test"
    BY <1>2, AnswerFacts DEF BitInv, Answer
  <2> QED
    BY <1>2, <2>1, BitsIdle DEF bits
<1> QED
  BY <1>1, <1>2 DEF TestBit

LEMMA DestroyBitsInv ==
  ASSUME BitInv, DestroyBits
  PROVE  BitInv' /\ ~fault' /\ ret'[1] = "destroy" /\ words' = NULL
<1>1. ~fault' /\ fault' \in BOOLEAN /\ wide' = wide /\ ret'[1] = "destroy"
  BY AnswerFacts DEF BitInv, Answer, DestroyBits
<1>2. 0 \in 0 .. SIZE_MAX
  BY BitAssumption
<1> QED
  BY <1>1, <1>2 DEF DestroyBits, BitInv, BitTypeOK, FirstWord

-----------------------------------------------------------------------------
(* The operations of the filter *)

\* The hashes of a key are bits below size_bits.
LEMMA HashFacts ==
  ASSUME TypeOK, Modulus # 0, NEW key \in Key
  PROVE  Hashes(key) \subseteq 0 .. size_bits - 1 /\ size_bits > 0
<1>1. size_bits \in Nat /\ UINT_MAX + 1 \in Nat /\ UINT_MAX + 1 > 0
  BY HashAssumption DEF TypeOK, BitTypeOK
<1>2. PICK m \in Nat : m = Modulus /\ m =< size_bits /\ m > 0
  <2>1. PICK q \in Nat : size_bits = (UINT_MAX + 1) * q + (size_bits % (UINT_MAX + 1))
    BY <1>1, DivMod
  <2>2. size_bits % (UINT_MAX + 1) \in Nat
    BY <1>1, DivMod
  <2>3. (UINT_MAX + 1) * q \in Nat
    BY <1>1, <2>1
  <2>4. Modulus = size_bits % (UINT_MAX + 1)
    BY DEF Modulus
  <2> QED
    BY <1>1, <2>1, <2>2, <2>3, <2>4
<1>3. Hash1[key] \in Nat /\ Hash2[key] \in Nat
  BY HashAssumption
<1>4. ASSUME NEW i \in 0 .. hash_count - 1
      PROVE  ((Hash1[key] + i * Hash2[key]) % (UINT_MAX + 1)) % Modulus \in 0 .. size_bits - 1
  <2>1. i \in Nat
    BY DEF TypeOK
  <2>2. PICK x \in Nat : x = Hash1[key] + i * Hash2[key]
    BY <1>3, <2>1
  <2>3. PICK y \in Nat : y = x % (UINT_MAX + 1)
    BY <1>1, <2>2, DivMod
  <2>4. y % m \in 0 .. m - 1
    BY <1>2, <2>3, DivMod
  <2> QED
    BY <1>1, <1>2, <2>2, <2>3, <2>4
<1>5. Hashes(key) \subseteq 0 .. size_bits - 1
  BY <1>4 DEF Hashes
<1> QED
  BY <1>1, <1>2, <1>5

\* A bit that is kept is found set, if shifts have not dropped its mask.
LEMMA KeptIsSet ==
  ASSUME BitInv, words # NULL, size_bits > 0, NEW k \in 0 .. size_bits - 1
  PROVE  IsSet(k) <=> (k < W \/ wide = "wraps") /\ \E j \in kept : Same(j, k)
<1>1. k \in Nat /\ k < size_bits /\ kept \subseteq 0 .. size_bits - 1 /\ BitTypeOK
  BY DEF BitInv, BitTypeOK
<1>2. Word(k) = 0 /\ Mask(k) = IF wide = "wraps" THEN {k % W} ELSE IF k < W THEN {k} ELSE {}
  BY <1>1, MaskFacts
<1>3. IsSet(k) <=> Mask(k) \cap words[1] # {}
  BY <1>2 DEF IsSet
<1>4. words[1] = UNION {Mask(j) : j \in kept}
  BY DEF BitInv, FirstWord
<1>5. \A j \in kept : IF Same(j, k) THEN Mask(j) = Mask(k) ELSE Mask(j) \cap Mask(k) = {}
  BY <1>1, SameMask
<1>6. Mask(k) # {} <=> k < W \/ wide = "wraps"
  BY <1>2
<1>7. Mask(k) \cap words[1] # {} <=> Mask(k) # {} /\ \E j \in kept : Same(j, k)
  BY <1>4, <1>5
<1> QED
  BY <1>3, <1>6, <1>7

\* A step of the bit array's client while there is no filter.
LEMMA ClientInv ==
  ASSUME Inv, bit_array # "live", BitNext, UNCHANGED filter
  PROVE  Inv'
<1>1. BitInv
  BY DEF Inv, BitInv, TypeOK
<1>2. BitInv' /\ FaultsOutside' /\ (fault' => ret'[1] \notin {"add", "check", "bloom_destroy"})
  <2>1. ASSUME NEW size \in Size, Setup(size)
        PROVE  BitInv' /\ FaultsOutside' /\ (fault' => ret'[1] \notin {"add", "check", "bloom_destroy"})
    BY <1>1, <2>1, SetupInv DEF FaultsOutside
  <2>2. ASSUME NEW k \in Bit, args' = <<k>>, SetBit(k) \/ ClearBit(k) \/ TestBit(k)
        PROVE  BitInv' /\ FaultsOutside' /\ (fault' => ret'[1] \notin {"add", "check", "bloom_destroy"})
    <3>1. k \in Nat
      BY BitAssumption
    <3>2. /\ BitInv' /\ (fault' => words = NULL \/ k >= size_bits)
          /\ UNCHANGED size_bits /\ (words' = NULL <=> words = NULL)
          /\ ret'[1] \in {"set", "clear", "test"}
      BY <1>1, <2>2, <3>1, SetBitInv, ClearBitInv, TestBitInv
    <3>3. args'[1] = k
      BY <2>2
    <3>4. FaultsOutside'
      BY <3>2, <3>3 DEF FaultsOutside
    <3> QED
      BY <3>2, <3>4
  <2>3. CASE DestroyBits
    BY <1>1, <2>3, DestroyBitsInv DEF FaultsOutside
  <2> QED
    BY <2>1, <2>2, <2>3 DEF BitNext
<1>3. TypeOK'
  BY <1>2 DEF Inv, TypeOK, BitInv, filter
<1>4. FilterFaults'
  BY <1>2 DEF FilterFaults
<1>5. AddedKept'
  BY DEF AddedKept, filter
<1> QED
  BY <1>2, <1>3, <1>4, <1>5 DEF Inv, BitInv

LEMMA SetupFilterInv ==
  ASSUME Inv, NEW size \in Size, SetupFilter(size)
  PROVE  Inv'
<1>1. BitInv /\ hash_count' = 2 /\ added' = {}
  BY DEF Inv, BitInv, TypeOK, SetupFilter
<1>2. AddedKept'
  BY <1>1 DEF AddedKept
<1>3. CASE bit_array' = "null" /\ Answer("init", FALSE) /\ UNCHANGED <<bits, kept>>
  <2>1. ~fault' /\ fault' \in BOOLEAN /\ wide' = wide
    BY <1>1, <1>3, AnswerFacts DEF BitInv
  <2>2. BitInv'
    BY <1>1, <1>3, <2>1, BitsIdle
  <2> QED
    BY <1>1, <1>2, <1>3, <2>1, <2>2 DEF Inv, TypeOK, BitInv, FaultsOutside, FilterFaults
<1>4. CASE Setup(size) /\ bit_array' = IF ret'[2] THEN "live" ELSE "freed"
  <2>1. /\ BitInv' /\ ~fault'
        /\ IF words' # NULL THEN ret' = <<"init", TRUE>> ELSE ret' = <<"init", FALSE>>
    BY <1>1, <1>4, SetupInv
  <2>2. /\ bit_array' \in {"live", "freed"}
        /\ bit_array' = "live" => words' # NULL
    <3>1. CASE words' # NULL
      BY <1>4, <2>1, <3>1
    <3>2. CASE words' = NULL
      <4>1. ret' = <<"init", FALSE>>
        BY <2>1, <3>2
      <4>2. ~ret'[2]
        BY <4>1
      <4>3. bit_array' = "freed"
        BY <1>4, <4>2
      <4> QED
        BY <3>2, <4>3
    <3> QED
      BY <3>1, <3>2
  <2> QED
    BY <1>1, <1>2, <2>1, <2>2 DEF Inv, TypeOK, BitInv, FaultsOutside, FilterFaults
<1> QED
  BY <1>3, <1>4 DEF SetupFilter

\* add and check go wrong only without a filter, or in one of size 0.
LEMMA ThereFacts ==
  ASSUME Inv, NEW key \in Key, ~There(key), bit_array = "live"
  PROVE  Modulus = 0
<1>1. ASSUME Modulus # 0 PROVE FALSE
  <2>1. Hashes(key) \subseteq 0 .. size_bits - 1 /\ size_bits \in Nat
    BY <1>1, HashFacts DEF Inv, TypeOK, BitTypeOK
  <2>2. PICK k \in Hashes(key) : ~Inside(k)
    BY <1>1 DEF There
  <2>3. words # NULL /\ BitTypeOK
    BY DEF Inv, TypeOK
  <2>4. k >= size_bits
    BY <2>1, <2>2, <2>3, InsideFacts
  <2> QED
    BY <2>1, <2>2, <2>4
<1> QED
  BY <1>1

LEMMA FilterCrash ==
  ASSUME Inv, NEW op, Crash(op), UNCHANGED filter, op \in {"add", "check", "bloom_destroy"},
         op = "bloom_destroy" => bit_array = "freed",
         op # "bloom_destroy" => bit_array # "live" \/ Modulus = 0
  PROVE  Inv'
<1>1. BitInv
  BY DEF Inv, BitInv, TypeOK
<1>2. BitInv' /\ fault' /\ ret'[1] = op /\ UNCHANGED <<bits, wide, kept>>
  BY <1>1, CrashFacts
<1>3. TypeOK'
  BY <1>2 DEF Inv, TypeOK, BitInv, bits, filter
<1>4. AddedKept'
  BY <1>2 DEF Inv, AddedKept, Hashes, Modulus, bits, filter
<1>5. FilterFaults'
  BY <1>2 DEF FilterFaults, Modulus, bits, filter
<1>6. FaultsOutside'
  BY <1>2 DEF FaultsOutside
<1> QED
  BY <1>2, <1>3, <1>4, <1>5, <1>6 DEF Inv, BitInv

LEMMA AddInv ==
  ASSUME Inv, NEW key \in Key, Add(key)
  PROVE  Inv'
<1>1. CASE ~There(key) /\ Crash("add") /\ UNCHANGED filter
  BY <1>1, ThereFacts, FilterCrash
<1>2. CASE /\ There(key)
           /\ words' = With(Hashes(key)) /\ UNCHANGED <<size_bits, hash_count, bit_array>>
           /\ kept' = kept \cup Hashes(key) /\ added' = added \cup {key}
           /\ Answer("add", TRUE)
  <2>1. BitInv /\ TypeOK /\ Modulus # 0 /\ bit_array = "live" /\ words # NULL /\ size_bits \in Nat
    BY <1>2 DEF Inv, BitInv, TypeOK, There, BitTypeOK
  <2>2. Hashes(key) \subseteq 0 .. size_bits - 1 /\ size_bits > 0
    BY <2>1, HashFacts
  <2>3. ~fault' /\ fault' \in BOOLEAN /\ wide' = wide
    BY <1>2, <2>1, AnswerFacts DEF BitInv
  <2>4. Hashes(key) \in SUBSET Nat /\ {k \in Hashes(key) : k < size_bits} = Hashes(key)
    BY <2>1, <2>2
  <2>5. BitInv' /\ words' # NULL
    BY <1>2, <2>1, <2>2, <2>3, <2>4, WithInv
  <2>6. \A other : Hashes(other)' = Hashes(other)
    BY <1>2 DEF Hashes, Modulus
  <2>7. AddedKept'
    BY <1>2, <2>1, <2>6 DEF Inv, AddedKept
  <2>8. TypeOK'
    BY <1>2, <2>1, <2>5 DEF TypeOK, BitInv
  <2> QED
    BY <2>3, <2>5, <2>7, <2>8 DEF Inv, BitInv, FaultsOutside, FilterFaults
<1> QED
  BY <1>1, <1>2 DEF Add

\* A step that only answers.
LEMMA FilterIdle ==
  ASSUME Inv, UNCHANGED <<bits, wide, kept, filter>>, ~fault', fault' \in BOOLEAN
  PROVE  Inv'
<1>1. BitInv'
  BY BitsIdle DEF Inv, BitInv, TypeOK
<1>2. TypeOK'
  BY <1>1 DEF Inv, TypeOK, BitInv, bits, filter
<1>3. AddedKept'
  BY DEF Inv, AddedKept, Hashes, Modulus, bits, filter
<1> QED
  BY <1>1, <1>2, <1>3 DEF Inv, BitInv, FaultsOutside, FilterFaults

LEMMA CheckInv ==
  ASSUME Inv, NEW key \in Key, Check(key)
  PROVE  Inv'
<1>1. CASE ~There(key) /\ Crash("check") /\ UNCHANGED filter
  BY <1>1, ThereFacts, FilterCrash
<1>2. CASE Answer("check", Contains(key)) /\ UNCHANGED <<bits, kept>> /\ UNCHANGED filter
  <2>1. ~fault' /\ fault' \in BOOLEAN /\ wide' = wide
    BY <1>2, AnswerFacts DEF Inv, TypeOK
  <2> QED
    BY <1>2, <2>1, FilterIdle
<1> QED
  BY <1>1, <1>2 DEF Check

LEMMA DestroyFilterInv ==
  ASSUME Inv, DestroyFilter
  PROVE  Inv'
<1>1. CASE bit_array = "freed" /\ Crash("bloom_destroy") /\ UNCHANGED filter
  BY <1>1, FilterCrash
<1>2. CASE /\ hash_count' = 0 /\ bit_array' = "null" /\ added' = {}
           /\ DestroyBits \/ (Answer("destroy", TRUE) /\ UNCHANGED <<bits, kept>>)
  <2>1. BitInv
    BY DEF Inv, BitInv, TypeOK
  <2>2. BitInv' /\ ~fault'
    <3>1. CASE DestroyBits
      BY <2>1, <3>1, DestroyBitsInv
    <3>2. CASE Answer("destroy", TRUE) /\ UNCHANGED <<bits, kept>>
      <4>1. ~fault' /\ fault' \in BOOLEAN /\ wide' = wide
        BY <2>1, <3>2, AnswerFacts DEF BitInv
      <4> QED
        BY <2>1, <3>2, <4>1, BitsIdle
    <3> QED
      BY <1>2, <3>1, <3>2
  <2> QED
    BY <1>2, <2>2 DEF Inv, TypeOK, BitInv, AddedKept, FaultsOutside, FilterFaults
<1> QED
  BY <1>1, <1>2 DEF DestroyFilter

-----------------------------------------------------------------------------
(* The theorems *)

LEMMA InitInv == Init => Inv
<1> SUFFICES ASSUME Init PROVE Inv
  OBVIOUS
<1>1. 0 \in 0 .. SIZE_MAX
  BY BitAssumption
<1>2. TypeOK
  BY <1>1 DEF Init, BitInit, TypeOK, BitTypeOK
<1> QED
  BY <1>2 DEF Init, BitInit, Inv, FirstWord, AddedKept, FaultsOutside, FilterFaults

LEMMA NextInv == Inv /\ [Next]_vars => Inv'
<1> SUFFICES ASSUME Inv, [Next]_vars PROVE Inv'
  OBVIOUS
<1>1. CASE bit_array # "live" /\ BitNext /\ UNCHANGED filter
  BY <1>1, ClientInv
<1>2. ASSUME NEW size \in Size, SetupFilter(size) PROVE Inv'
  BY <1>2, SetupFilterInv
<1>3. ASSUME NEW key \in Key, Add(key) \/ Check(key) PROVE Inv'
  BY <1>3, AddInv, CheckInv
<1>4. CASE DestroyFilter
  BY <1>4, DestroyFilterInv
<1>5. CASE UNCHANGED vars
  <2>1. UNCHANGED <<bits, wide, kept, filter>> /\ UNCHANGED <<fault, ret, args>>
    BY <1>5 DEF vars, bvars
  <2>2. TypeOK'
    BY <2>1 DEF Inv, TypeOK, BitTypeOK, bits, filter
  <2>3. FirstWord' /\ AddedKept'
    BY <2>1 DEF Inv, FirstWord, Mask, AddedKept, Hashes, Modulus, bits, filter
  <2>4. FaultsOutside' /\ FilterFaults'
    BY <2>1 DEF Inv, FaultsOutside, FilterFaults, Modulus, bits, filter
  <2> QED
    BY <2>2, <2>3, <2>4 DEF Inv
<1> QED
  BY <1>1, <1>2, <1>3, <1>4, <1>5 DEF Next

LEMMA InvCorrect == Spec => []Inv
BY InitInv, NextInv, PTL DEF Spec

\* A filter that is live has a bit array of whole words.
THEOREM TypeCorrect == Spec => []TypeOK
<1>1. Inv => TypeOK
  BY DEF Inv
<1> QED
  BY <1>1, InvCorrect, PTL

\* Words of any width, arrays of any size: the bits below size_bits are kept
\* apart as far as one word can.
THEOREM OneWordCorrect == Spec => []OneWordOfBits
<1>1. ASSUME Inv PROVE OneWordOfBits
  <2>1. ASSUME words # NULL, NEW k \in Bit, k < size_bits
        PROVE  IsSet(k) <=> (k < W \/ wide = "wraps") /\ \E j \in kept : Same(j, k)
    <3>1. k \in Nat /\ size_bits \in Nat /\ BitInv
      BY <1>1, BitAssumption DEF Inv, TypeOK, BitTypeOK, BitInv
    <3>2. k \in 0 .. size_bits - 1 /\ size_bits > 0
      BY <2>1, <3>1
    <3> QED
      BY <2>1, <3>1, <3>2, KeptIsSet
  <2> QED
    BY <2>1 DEF OneWordOfBits
<1> QED
  BY <1>1, InvCorrect, PTL

\* No bit below size_bits leads out of the array, whatever was done to it.
THEOREM FaultsOutsideCorrect == Spec => []FaultsOutside
<1>1. Inv => FaultsOutside
  BY DEF Inv
<1> QED
  BY <1>1, InvCorrect, PTL

\* A filter of one word, or of any size where shifts wrap, has no false negatives
\* for any keys and hashes.
THEOREM NoFalseNegativesCorrect == Spec => []NoFalseNegatives
<1>1. ASSUME Inv PROVE NoFalseNegatives
  <2>1. ASSUME bit_array = "live", wide = "wraps" \/ size_bits =< W, NEW key \in added,
               NEW k \in Hashes(key)
        PROVE  IsSet(k)
    <3>1. /\ BitInv /\ words # NULL /\ size_bits \in Nat /\ W \in Nat
          /\ kept \subseteq 0 .. size_bits - 1
      BY <1>1, <2>1, BitAssumption DEF Inv, TypeOK, BitTypeOK, BitInv
    <3>2. k \in kept
      BY <1>1, <2>1 DEF Inv, AddedKept
    <3>3. k \in 0 .. size_bits - 1 /\ size_bits > 0
      <4>1. k \in 0 .. size_bits - 1
        BY <3>1, <3>2
      <4> QED
        BY <3>1, <4>1
    <3>4. Same(k, k) /\ (k < W \/ wide = "wraps")
      BY <2>1, <3>1, <3>3 DEF Same
    <3> QED
      BY <3>1, <3>2, <3>3, <3>4, KeptIsSet
  <2> QED
    BY <2>1 DEF NoFalseNegatives, Contains
<1> QED
  BY <1>1, InvCorrect, PTL

\* A filter that was initialised goes wrong only when its size is 0 as a uint32_t.
THEOREM FilterFaultsCorrect == Spec => []FilterFaults
<1>1. Inv => FilterFaults
  BY DEF Inv
<1> QED
  BY <1>1, InvCorrect, PTL
=============================================================================
