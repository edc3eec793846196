------------------------------ MODULE HashSeed ------------------------------
(***************************************************************************)
(* src/src/structs/hash_table.c, default_key_hash: the seed of murmur3 is  *)
(* a static variable that the first call sets, for the tables of all       *)
(* threads.  HashTable takes Hash as one function of a key and an index    *)
(* size: it is, as long as every call uses the same seed.                  *)
(***************************************************************************)
EXTENDS Calls, FiniteSets

CONSTANT Seed   \* what rand can return
ASSUME SeedAssumption == Seed \subseteq Nat

VARIABLES
  hash_seed,
  seeds,  \* history: the seeds that keys have been hashed with
  raced   \* history: a first call began before another had set the seed
hashing == <<hash_seed, seeds, raced>>

UNSET == -1
SeedInit == hash_seed = UNSET /\ seeds = {} /\ raced = FALSE

\* The call and its first look at the seed
HashUnchecked(t) ==   \* mutant
  /\ Idle(t)
  /\ Goes(t, [op |-> "key_hash", args |-> <<>>, clean |-> TRUE, seed |-> hash_seed,
              pc |-> "seed"], {})
  /\ UNCHANGED <<hash_seed, seeds>>
  /\ raced' = (raced \/ (hash_seed = UNSET /\ \E u \in Thread : At(u, {"key_hash"}, "seed")))
HashKey(t) ==
  /\ Idle(t)
  /\ Goes(t, [op |-> "key_hash", args |-> <<>>, clean |-> TRUE, seed |-> hash_seed,
              pc |-> IF hash_seed = UNSET THEN "seed" ELSE "use"], {})
  /\ UNCHANGED <<hash_seed, seeds>>
  /\ raced' = (raced \/ (hash_seed = UNSET /\ \E u \in Thread : At(u, {"key_hash"}, "seed")))

SetSeed(t) ==
  /\ At(t, {"key_hash"}, "seed")
  /\ \E s \in Seed :
       hash_seed' = s /\ Goes(t, [call[t] EXCEPT !.pc = "use", !.seed = s], {})
  /\ UNCHANGED <<seeds, raced>>

\* Compiled, the last use of the variable may read it again or not
UseSeed(t) ==
  /\ At(t, {"key_hash"}, "use")
  /\ \E s \in {hash_seed, call[t].seed} :
       seeds' = seeds \cup {s} /\ Ends(t, call[t], s, {})
  /\ UNCHANGED <<hash_seed, raced>>

HashStep(t) == SetSeed(t) \/ UseSeed(t)
-----------------------------------------------------------------------------
(* Properties *)

\* All keys of all tables are hashed with one seed, unless two first calls
\* overlapped.
SeedsAgree == raced \/ Cardinality(seeds) =< 1
=============================================================================
