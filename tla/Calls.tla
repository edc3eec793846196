-------------------------------- MODULE Calls --------------------------------
(***************************************************************************)
(* Threads that call the functions of the library which keep state between *)
(* calls.  A thread is in at most one call; a call takes several steps,    *)
(* between which other threads run.                                        *)
(*                                                                         *)
(* A call is a record with its op and args, and with clean: nothing has    *)
(* failed in it, and no other thread has come between its steps.  clean is *)
(* a history variable in the record: no guard reads it.                    *)
(***************************************************************************)
EXTENDS Integers

CONSTANTS Thread, NULL

ASSUME ThreadAssumption == NULL \notin Thread

VARIABLES
  call,  \* for every thread its call, or NULL
  ret,   \* the call that ended in the last step, with its answer, or NULL
  fault  \* undefined behaviour was met: there is no further step
calls == <<call, ret, fault>>

CallsInit == call = [t \in Thread |-> NULL] /\ ret = NULL /\ fault = FALSE

Idle(t) == call[t] = NULL /\ ~fault
At(t, op, pc) == ~fault /\ call[t] # NULL /\ call[t].op \in op /\ call[t].pc = pc

\* Thread t goes on with its call as c, or is out of it when c is NULL; the
\* calls of the threads in disturbed are no longer clean
Moves(t, c, disturbed) ==
  call' = [u \in Thread |->
            IF u = t THEN c
            ELSE IF u \in disturbed THEN [call[u] EXCEPT !.clean = FALSE]
            ELSE call[u]]
Goes(t, c, disturbed) == Moves(t, c, disturbed) /\ ret' = NULL /\ UNCHANGED fault

Result(c, r) == [op |-> c.op, args |-> c.args, clean |-> c.clean, answer |-> r]
Ends(t, c, r, disturbed) ==
  Moves(t, NULL, disturbed) /\ ret' = Result(c, r) /\ UNCHANGED fault

\* c is the call that meets the undefined behaviour
Crashes(c) == fault' = TRUE /\ ret' = Result(c, NULL) /\ UNCHANGED call
=============================================================================
