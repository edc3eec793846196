------------------------------ MODULE NetUtils ------------------------------
(***************************************************************************)
(* src/src/utils/net_utils.c: IPv4 and MAC addresses to and from strings.  *)
(*                                                                         *)
(* A string is the sequence of the numbers between its dots.  strtok keeps *)
(* its position in a static variable that all threads share: position is   *)
(* whose buffer it is in, what is left there, and whether that buffer has  *)
(* been freed; reading on in a freed buffer sets fault.  addr_buf is the   *)
(* address in the static buffer of net_utils_ether_ntoa, NULL when what it *)
(* holds is none.  Functions that answer NULL because snprintf has failed  *)
(* are not clean.                                                          *)
(***************************************************************************)
EXTENDS Calls, Sequences, FiniteSetsExt

CONSTANTS
  OCTET,  \* 256
  OCTETS, \* 4
  Ip,     \* the strings a client parses
  Net,    \* those it matches others with
  Long,   \* the addresses a client prints
  Bits,   \* the numbers of network bits a client matches
  BITS,   \* 32: the bits of an address
  Mac     \* the MAC addresses a client prints

ASSUME AddressAssumption ==
  /\ OCTET \in Nat \ {0} /\ OCTETS \in Nat \ {0} /\ BITS \in Nat
  /\ OCTET ^ OCTETS = 2 ^ BITS
  /\ Ip \cup Net \subseteq Seq(Nat) /\ Long \subseteq 0 .. 2 ^ BITS - 1 /\ Bits \subseteq Nat

\* What ^ is, which the provers do not know, for the powers used here
ASSUME PowerAssumption ==
  /\ 2 ^ 0 = 1 /\ \A n \in 0 .. BITS - 1 : 2 ^ (n + 1) = 2 * 2 ^ n
  /\ OCTET ^ 0 = 1 /\ \A n \in 0 .. OCTETS - 1 : OCTET ^ (n + 1) = OCTET * OCTET ^ n

VARIABLES position, addr_buf
statics == <<position, addr_buf>>

StrtokInit == position = [owner |-> NULL, rest |-> <<>>, freed |-> FALSE]
NetInit == addr_buf = NULL   \* the static buffer is empty

FAILED == 2 ^ BITS - 1   \* -1 as a uint32_t
ParseOp == {"ipv4_to_long", "ipv4_matches"}

-----------------------------------------------------------------------------
(* net_utils_ipv4_to_long, and net_utils_ipv4_matches which calls it twice *)

Parse(t, op, args, todo) ==
  /\ Idle(t) /\ UNCHANGED statics
  /\ Goes(t, [op |-> op, args |-> args, clean |-> TRUE, pc |-> "strdup",
              todo |-> todo, long_addr |-> 0, longs |-> <<>>], {})

ToLong(t, ip) == Parse(t, "ipv4_to_long", <<ip>>, <<ip>>)

\* The two are parsed in either order; a shift by a negative amount is undefined
Matches(t, test, match, net_bits) ==
  LET args == <<test, match, net_bits>> IN
  \/ /\ Idle(t) /\ net_bits > BITS /\ UNCHANGED statics
     /\ Crashes([op |-> "ipv4_matches", args |-> args, clean |-> TRUE])
  \/ /\ net_bits =< BITS
     /\ \/ Parse(t, "ipv4_matches", args, <<test, match>>)
        \/ Parse(t, "ipv4_matches", args, <<match, test>>)

\* & ~0UL << (32 - net_bits)
Masked(long, net_bits) == long - (long % 2 ^ (BITS - net_bits))

\* The string that thread t is at has become long
Parsed(t, long, clean, disturbed) ==
  LET longs == Append(call[t].longs, long)
      c == [call[t] EXCEPT !.longs = longs, !.todo = Tail(@), !.pc = "strdup",
                           !.long_addr = 0, !.clean = @ /\ clean] IN
  \/ c.todo # <<>> /\ Goes(t, c, disturbed)
  \/ /\ c.todo = <<>> /\ c.op = "ipv4_to_long"
     /\ Ends(t, c, long, disturbed)
  \/ /\ c.todo = <<>> /\ c.op = "ipv4_matches"
     /\ Ends(t, c, Masked(longs[1], c.args[3]) = Masked(longs[2], c.args[3]), disturbed)

\* A copy of the string; each has a buffer of its own
Strdup(t) ==
  /\ At(t, ParseOp, "strdup") /\ UNCHANGED statics
  /\ \/ Parsed(t, FAILED, FALSE, {})
     \/ Goes(t, [call[t] EXCEPT !.pc = "first"], {})

\* The other threads whose next token is at the position strtok loses
Tokenizing(t) == {u \in Thread \ {t} : At(u, ParseOp, "next")}

\* long_addr <<= 8, |= atoi(token) & 0xFF, in 32 bits
ShiftedWide(long, token) == long * OCTET + (token % OCTET)   \* mutant
ShiftedUnmasked(long, token) == (long * OCTET + token) % 2 ^ BITS   \* mutant
Shifted(long, token) == (long * OCTET + (token % OCTET)) % 2 ^ BITS

WithToken(t, token) ==
  Goes(t, [call[t] EXCEPT !.pc = "next", !.long_addr = Shifted(@, token)],
       Tokenizing(t))

\* The first strtok: a string with no token returns without freeing its buffer
StrtokFirst(t) ==
  /\ At(t, ParseOp, "first") /\ UNCHANGED addr_buf
  /\ LET ip == Head(call[t].todo) IN
     \/ /\ ip = <<>>
        /\ position' = [owner |-> t, rest |-> <<>>, freed |-> FALSE]
        /\ Parsed(t, FAILED, TRUE, Tokenizing(t))
     \/ /\ ip # <<>>
        /\ position' = [owner |-> t, rest |-> Tail(ip), freed |-> FALSE]
        /\ WithToken(t, Head(ip))

\* The others: each takes the token wherever the position now is
KeptPosition == position   \* mutant
NextPosition == [position EXCEPT !.rest = Tail(@)]

StrtokNext(t) ==
  /\ At(t, ParseOp, "next") /\ UNCHANGED addr_buf
  /\ \/ position.freed /\ Crashes(call[t]) /\ UNCHANGED position
     \/ /\ ~position.freed /\ position.rest # <<>>
        /\ position' = NextPosition
        /\ WithToken(t, Head(position.rest))
     \/ /\ ~position.freed /\ position.rest = <<>> /\ UNCHANGED position
        /\ Goes(t, [call[t] EXCEPT !.pc = "free"], {})

FreeInLoop(t) ==   \* mutant
  /\ At(t, ParseOp, "free") /\ UNCHANGED addr_buf
  /\ position' = [position EXCEPT !.freed = @ \/ position.owner = t]
  /\ Goes(t, [call[t] EXCEPT !.pc = "next"], {})
Free(t) ==
  /\ At(t, ParseOp, "free") /\ UNCHANGED addr_buf
  /\ position' = [position EXCEPT !.freed = @ \/ position.owner = t]
  /\ Parsed(t, call[t].long_addr, TRUE, {})

-----------------------------------------------------------------------------
(* The other functions *)

\* net_utils_long_to_ipv4 uses only what its caller gives it
Octets(long) == [i \in 1 .. OCTETS |-> (long \div OCTET ^ (OCTETS - i)) % OCTET]
ToIpv4(t, long) ==
  /\ Idle(t) /\ UNCHANGED <<statics, call, fault>>
  /\ \E printed \in BOOLEAN :
       ret' = Result([op |-> "long_to_ipv4", args |-> <<long>>, clean |-> printed],
                     IF printed THEN Octets(long) ELSE NULL)

\* The other threads that have not read yet what addr_buf loses
Reading(t) == {u \in Thread \ {t} : At(u, {"ether_ntoa"}, "read")}

\* net_utils_ether_ntoa, and its caller reading the string it returns
EtherNtoa(t, mac) ==
  /\ Idle(t) /\ UNCHANGED position
  /\ \/ /\ addr_buf' = mac
        /\ Goes(t, [op |-> "ether_ntoa", args |-> <<mac>>, clean |-> TRUE, pc |-> "read"],
                Reading(t))
     \/ /\ addr_buf' \in {addr_buf, NULL}
        /\ Ends(t, [op |-> "ether_ntoa", args |-> <<mac>>, clean |-> FALSE], NULL,
                Reading(t))
ReadAddr(t) ==
  /\ At(t, {"ether_ntoa"}, "read") /\ UNCHANGED statics
  /\ Ends(t, call[t], addr_buf, {})

NetCall(t) ==
  \/ \E ip \in Ip : ToLong(t, ip)
  \/ \E test \in Ip, match \in Net, net_bits \in Bits : Matches(t, test, match, net_bits)
  \/ \E long \in Long : ToIpv4(t, long)
  \/ \E mac \in Mac : EtherNtoa(t, mac)
NetStep(t) == Strdup(t) \/ StrtokFirst(t) \/ StrtokNext(t) \/ Free(t) \/ ReadAddr(t)
-----------------------------------------------------------------------------
(* Properties *)

\* The number of a string: its last four octets
Worth(ip) == [i \in DOMAIN ip |-> (ip[i] % OCTET) * OCTET ^ (Len(ip) - i)]
Value(ip) ==
  IF ip = <<>> THEN FAILED
  ELSE SumFunctionOnSet(Worth(ip), {i \in DOMAIN ip : Len(ip) - i < OCTETS})
BitOf(long, i) == (long \div 2 ^ (BITS - i)) % 2

Right(r) ==
  CASE r.op = "ipv4_to_long" -> r.answer = Value(r.args[1])
    [] r.op = "ipv4_matches" ->
         r.answer = \A i \in 1 .. r.args[3] :
                      BitOf(Value(r.args[1]), i) = BitOf(Value(r.args[2]), i)
    [] r.op = "long_to_ipv4" -> Value(r.answer) = r.args[1]
    [] r.op = "ether_ntoa" -> r.answer = r.args[1]
    [] OTHER -> TRUE

\* A call answers as it would alone, whatever other threads do between its
\* steps, unless one of them calls strtok while it is between two tokens (or
\* ether_ntoa before the string is read), or its strdup or snprintf fails.
AnswersRight == ret # NULL /\ ~fault /\ ret.clean => Right(ret)

\* Nothing else leads strtok into a buffer that has been freed, and no other
\* undefined behaviour is met, but for more network bits than there are.
FaultsOnlyShared ==
  fault => ~ret.clean \/ (ret.op = "ipv4_matches" /\ ret.args[3] > BITS)
=============================================================================
