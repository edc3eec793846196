--------------------------- MODULE MCBloomFilter ---------------------------
(* BloomFilter and BitArray for TLC: words of 4 bits, a size_t of 6 bits, a *)
(* uint32_t of 5, and hashes that wrap, collide, and meet the last bit.     *)
EXTENDS BloomFilter, TLC

CONSTANTS x, y, z
MCHash1 == x :> 1 @@ y :> 6 @@ z :> 31
MCHash2 == x :> 2 @@ y :> 5 @@ z :> 4

(* ret and args decide no step, and no invariant but after a fault. *)
View == <<bits, wide, kept, filter, IF fault THEN <<ret, args>> ELSE <<>> >>
=============================================================================
