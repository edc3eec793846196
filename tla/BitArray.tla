------------------------------ MODULE BitArray ------------------------------
(***************************************************************************)
(* src/src/structs/bit_array.c: bits in an array of words.                 *)
(*                                                                         *)
(* A word is the set of the positions that are 1.  The code finds the word *)
(* of bit k by k / size_bits and its position by k % size_bits, which may  *)
(* be as wide as the array and not the word.  To shift by the width of a   *)
(* word or more is undefined: processors either take the amount modulo the *)
(* width or shift everything out, and wide tells which one this is.        *)
(* A division by 0, or a word the array does not have, sets fault, after   *)
(* which the program makes no further step.                                *)
(***************************************************************************)
EXTENDS Integers, Sequences

CONSTANTS
  NULL,
  W,        \* the bits of a word
  SIZE_MAX, \* the greatest size_t
  Size,     \* the sizes a client asks for
  Bit       \* the bits a client passes, any uint32_t

ASSUME BitAssumption ==
  /\ W \in Nat \ {0} /\ SIZE_MAX \in Nat /\ SIZE_MAX >= W
  /\ Size \subseteq 0 .. SIZE_MAX /\ Bit \subseteq Nat
  /\ NULL \notin Seq(SUBSET (0 .. W - 1))

VARIABLES
  size_bits, words, \* words is NULL when there is no array
  wide,
  fault, ret, args,
  kept              \* history: the bits below size_bits set and not cleared since
bits == <<size_bits, words>>
bvars == <<bits, wide, fault, ret, args, kept>>

\* Bits k and j are the same bit of the same word
Same(j, k) == j = k \/ (wide = "wraps" /\ j % W = k % W)

\* A bit array as destroy leaves it
BitInit ==
  /\ size_bits = 0 /\ words = NULL /\ wide \in {"wraps", "drops"}
  /\ fault = FALSE /\ ret = <<"destroy", TRUE>> /\ args = <<>> /\ kept = {}

\* How a call ends; there are no calls after a fault
Answer(op, r) == ~fault /\ ret' = <<op, r>> /\ UNCHANGED <<fault, wide>>
Crash(op) ==
  /\ ~fault /\ fault' = TRUE /\ ret' = <<op, NULL>>
  /\ UNCHANGED <<bits, wide, kept>>

NotRounded(size) == size   \* mutant
Rounded(size) == (((size + W - 1) % (SIZE_MAX + 1)) \div W) * W

\* bit_array_init, when there is no array
Setup(size) ==
  /\ words = NULL
  /\ size_bits' = Rounded(size) /\ kept' = {}
  /\ \/ words' = [i \in 1 .. Rounded(size) \div W |-> {}] /\ Answer("init", TRUE)
     \/ words' = NULL /\ Answer("init", FALSE)

WordSwapped(k) == k % size_bits   \* mutant
Word(k) == k \div size_bits
Mask(k) ==
  LET shift == k % size_bits IN
  IF shift < W THEN {shift} ELSE IF wide = "wraps" THEN {shift % W} ELSE {}

Inside(k) == size_bits # 0 /\ words # NULL /\ Word(k) < Len(words)
IsSet(k) == Mask(k) \cap words[Word(k) + 1] # {}

\* The array with bits K set, |= by |=, and with bit k cleared
ReplacedBy(K) ==   \* mutant
  [w \in DOMAIN words |->
     IF \E k \in K : Word(k) + 1 = w THEN UNION {Mask(k) : k \in K} ELSE words[w]]
With(K) ==
  [w \in DOMAIN words |->
     words[w] \cup UNION {Mask(k) : k \in {j \in K : Word(j) + 1 = w}}]
OnlyBit(k) == [words EXCEPT ![Word(k) + 1] = @ \cap Mask(k)]   \* mutant
Without(k) == [words EXCEPT ![Word(k) + 1] = @ \ Mask(k)]

SetBit(k) ==
  \/ ~Inside(k) /\ Crash("set")
  \/ /\ Inside(k) /\ words' = With({k}) /\ UNCHANGED size_bits
     /\ kept' = IF k < size_bits THEN kept \cup {k} ELSE kept
     /\ Answer("set", TRUE)

ClearBit(k) ==
  \/ ~Inside(k) /\ Crash("clear")
  \/ /\ Inside(k) /\ words' = Without(k) /\ UNCHANGED size_bits
     /\ kept' = {j \in kept : k < size_bits => ~Same(j, k)}
     /\ Answer("clear", TRUE)

TestBit(k) ==
  \/ ~Inside(k) /\ Crash("test")
  \/ Inside(k) /\ Answer("test", IsSet(k)) /\ UNCHANGED <<bits, kept>>

DestroyBits ==
  /\ size_bits' = 0 /\ words' = NULL /\ kept' = {}
  /\ Answer("destroy", TRUE)

BitNext ==
  \/ \E size \in Size : args' = <<size>> /\ Setup(size)
  \/ \E k \in Bit : args' = <<k>> /\ (SetBit(k) \/ ClearBit(k) \/ TestBit(k))
  \/ args' = <<>> /\ DestroyBits
-----------------------------------------------------------------------------
(* Properties *)

BitTypeOK ==
  /\ size_bits \in 0 .. SIZE_MAX /\ wide \in {"wraps", "drops"}
  /\ words # NULL => words \in Seq(SUBSET (0 .. W - 1)) /\ size_bits = W * Len(words)
  /\ fault \in BOOLEAN /\ (words # NULL => kept \subseteq 0 .. size_bits - 1)

\* An array of any size keeps as many bits below size_bits apart as one word
\* has, and no more (BitsAsDocumented): where shifts wrap, two bits are the same
\* when they are so modulo W; where they drop, bits from W on are never set.
\* No other bit is lost, and none appears.
OneWordOfBits ==
  words # NULL => \A k \in Bit : k < size_bits =>
    (IsSet(k) <=> (k < W \/ wide = "wraps")
                    /\ \E j \in kept : Same(j, k))

\* A bit below size_bits never leads out of the array
FaultsOutside ==
  fault /\ ret[1] \in {"set", "clear", "test"} => words = NULL \/ args[1] >= size_bits

\* bit_array.h calls size_bits the "Max items that can be stored in the bit
\* array (measured in bits)", and says of k that it "will wrap w/ modulo
\* size_bits": in an array that has words no bit leads out of it, and setting or
\* clearing one changes that bit and none of the size_bits - 1 others.
BitsAsDocumented ==
  [][ words # NULL /\ size_bits # 0 /\ ret'[1] \in {"set", "clear"} =>
      /\ ~fault'
      /\ \A j \in Bit : j < size_bits =>
           (IsSet(j)' <=> IF j = args'[1] % size_bits THEN ret'[1] = "set" ELSE IsSet(j))
    ]_bvars
=============================================================================
