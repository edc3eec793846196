------------------------------ MODULE MCThreads ------------------------------
(* Threads for TLC: addresses of two octets of two bits each, and strings   *)
(* with no octet, with two, and with one too many that is also too great.   *)
EXTENDS Threads

MCIp == {<<>>, <<3, 2, 5>>}
MCNet == {<<6, 0>>}

(* No function reads the static variable of another, so a behaviour uses    *)
(* only one of them: strtok's position, addr_buf or hash_seed.              *)
Using(op) == \E t \in Thread : call[t] # NULL /\ call[t].op \in op
InUse ==
  {s \in {"position", "addr_buf", "hash_seed"} :
     CASE s = "position" -> position.owner # NULL \/ Using(ParseOp)
       [] s = "addr_buf" -> addr_buf # NULL
       [] s = "hash_seed" -> hash_seed # UNSET \/ Using({"key_hash"})}
OneInUse == Cardinality(InUse) =< 1

MCNext == Next /\ OneInUse'
MCSpec == Init /\ [][MCNext]_vars /\ \A t \in Thread : WF_vars(Step(t))
=============================================================================
