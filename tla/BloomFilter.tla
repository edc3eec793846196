----------------------------- MODULE BloomFilter -----------------------------
(***************************************************************************)
(* src/src/structs/bloom_filter.c over the bit array of BitArray.          *)
(*                                                                         *)
(* The model has one bit array.  It is a client's while there is no        *)
(* filter, and the filter's from bloom_filter_init to                      *)
(* bloom_filter_destroy.  bit_array is the filter's pointer to it: a       *)
(* failed initialisation frees what it points at and leaves it there.      *)
(***************************************************************************)
EXTENDS BitArray

CONSTANTS
  Key,          \* the keys a client adds
  Hash1, Hash2, \* murmur3 of a key with either seed
  UINT_MAX      \* the greatest uint32_t

ASSUME HashAssumption ==
  /\ UINT_MAX \in Nat /\ Bit \subseteq 0 .. UINT_MAX
  /\ Hash1 \in [Key -> 0 .. UINT_MAX] /\ Hash2 \in [Key -> 0 .. UINT_MAX]

VARIABLES
  hash_count,
  bit_array, \* "null", "live", or "freed" (dangling)
  added      \* history: the keys added since the filter was initialised
filter == <<hash_count, bit_array, added>>
vars == <<bvars, filter>>

\* A filter as destroy leaves it
Init == BitInit /\ hash_count = 0 /\ bit_array = "null" /\ added = {}

\* bloom_filter_init
SetupUnchecked(size) ==   \* mutant
  /\ bit_array # "live" /\ words = NULL
  /\ hash_count' = 2 /\ added' = {}
  /\ bit_array' = "live" /\ Setup(size)
SetupFilter(size) ==
  /\ bit_array # "live" /\ words = NULL
  /\ hash_count' = 2 /\ added' = {}
  /\ \/ bit_array' = "null" /\ Answer("init", FALSE) /\ UNCHANGED <<bits, kept>>
     \/ Setup(size) /\ bit_array' = IF ret'[2] THEN "live" ELSE "freed"

\* bloom_hashes takes size_bits as a uint32_t
Modulus == size_bits % (UINT_MAX + 1)
Hashes(key) ==
  {((Hash1[key] + i * Hash2[key]) % (UINT_MAX + 1)) % Modulus : i \in 0 .. hash_count - 1}

\* The bits of a key can be computed, and all of them are there
There(key) ==
  bit_array = "live" /\ Modulus # 0 /\ \A k \in Hashes(key) : Inside(k)

Add(key) ==
  \/ ~There(key) /\ Crash("add") /\ UNCHANGED filter
  \/ /\ There(key)
     /\ words' = With(Hashes(key)) /\ UNCHANGED <<size_bits, hash_count, bit_array>>
     /\ kept' = kept \cup Hashes(key) /\ added' = added \cup {key}
     /\ Answer("add", TRUE)

Contains(key) == \A k \in Hashes(key) : IsSet(k)
Check(key) ==
  /\ UNCHANGED filter
  /\ \/ ~There(key) /\ Crash("check")
     \/ There(key) /\ Answer("check", Contains(key)) /\ UNCHANGED <<bits, kept>>

DestroyFilter ==
  \/ bit_array = "freed" /\ Crash("bloom_destroy") /\ UNCHANGED filter
  \/ /\ bit_array # "freed"
     /\ hash_count' = 0 /\ bit_array' = "null" /\ added' = {}
     /\ \/ bit_array = "live" /\ DestroyBits
        \/ bit_array = "null" /\ Answer("destroy", TRUE) /\ UNCHANGED <<bits, kept>>

Next ==
  \/ bit_array # "live" /\ BitNext /\ UNCHANGED filter
  \/ \E size \in Size : args' = <<size>> /\ SetupFilter(size)
  \/ \E key \in Key : args' = <<key>> /\ (Add(key) \/ Check(key))
  \/ args' = <<>> /\ DestroyFilter

Spec == Init /\ [][Next]_vars
-----------------------------------------------------------------------------
(* Properties *)

\* A filter that is there has a bit array, with its two hashes
TypeOK ==
  /\ BitTypeOK
  /\ hash_count \in {0, 2} /\ bit_array \in {"null", "live", "freed"}
  /\ added \subseteq Key
  /\ bit_array = "live" => words # NULL /\ hash_count = 2

\* A key that was added is found, where shifts wrap and in a filter of one word:
\* where shifts drop, a wider filter may never set the bits of a key.
NoFalseNegatives ==
  bit_array = "live" /\ (wide = "wraps" \/ size_bits =< W) =>
    \A key \in added : Contains(key)

\* A filter that was initialised never goes wrong, unless its size is 0 as a
\* uint32_t; one whose initialisation failed does when it is destroyed.
FilterFaults ==
  fault =>
    /\ ret[1] \in {"add", "check"} => bit_array # "live" \/ Modulus = 0
    /\ ret[1] = "bloom_destroy" => bit_array = "freed"
=============================================================================
