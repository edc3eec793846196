------------------------------- MODULE Threads -------------------------------
(***************************************************************************)
(* Threads that parse and print addresses and hash the keys of tables of   *)
(* their own, all without a lock.                                          *)
(***************************************************************************)
EXTENDS NetUtils, HashSeed

vars == <<calls, statics, hashing>>

Init == CallsInit /\ StrtokInit /\ NetInit /\ SeedInit

Begin(t) == (NetCall(t) /\ UNCHANGED hashing) \/ (HashKey(t) /\ UNCHANGED statics)
Step(t) == (NetStep(t) /\ UNCHANGED hashing) \/ (HashStep(t) /\ UNCHANGED statics)
Next == \E t \in Thread : Begin(t) \/ Step(t)

Spec == Init /\ [][Next]_vars

\* No step waits for another thread, and every thread is scheduled
FairSpec == Spec /\ \A t \in Thread : WF_vars(Step(t))
-----------------------------------------------------------------------------
(* Properties *)

TypeOK ==
  /\ \A t \in Thread : call[t] = NULL \/
       call[t].op \in {"ipv4_to_long", "ipv4_matches", "ether_ntoa", "key_hash"}
  /\ fault \in BOOLEAN
  /\ position \in [owner : Thread \cup {NULL}, rest : Seq(Nat), freed : BOOLEAN]
  /\ addr_buf \in Mac \cup {NULL}
  /\ hash_seed \in Seed \cup {UNSET} /\ seeds \subseteq Seed
  /\ \A t \in Thread : call[t] # NULL /\ call[t].op \in ParseOp =>
       /\ call[t].long_addr \in 0 .. FAILED
       /\ call[t].pc = "next" => position.owner # NULL

\* A thread that keeps taking the tokens of others may never get out of its
\* loop; once the others call nothing any more, it does.
CallsEnd ==
  \A t \in Thread :
    <>[](\A u \in Thread \ {t} : call[u] = NULL) => []<>(call[t] = NULL \/ fault)
=============================================================================
