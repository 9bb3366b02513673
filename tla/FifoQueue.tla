----------------------------- MODULE FifoQueue -----------------------------
(***************************************************************************)
(* What ThreadSafeQueue promises to its callers: every operation happens   *)
(* at one instant, without a mutex, a condition variable or a wait set.    *)
(*                                                                         *)
(*   - push_noti(v) appends v;                                             *)
(*   - a pop takes the oldest element when there is one;                   *)
(*   - a pop returns nullopt only while the queue is empty, and only if a  *)
(*     stop was requested of the caller or the call has a time limit.      *)
(*                                                                         *)
(* The gateway modules use the queue through these three steps;            *)
(* ThreadSafeQueue is shown to implement this specification.               *)
(***************************************************************************)
EXTENDS Naturals, Sequences

CONSTANTS Consumers,    \* threads that pop
          Values,       \* what the queue can carry
          NullOpt,      \* std::nullopt
          Pending       \* the call has not returned yet

VARIABLES queue,        \* the elements, oldest first
          res,          \* what each consumer's last call returned, or Pending
          timed,        \* consumers whose current call has a time limit
          stopped       \* consumers whose stop_token has been signalled

fifoVars == <<queue, res, timed, stopped>>

Init ==
  /\ queue = << >>
  /\ res = [c \in Consumers |-> NullOpt]
  /\ timed = {}
  /\ stopped = {}

Push(v) ==
  /\ queue' = Append(queue, v)
  /\ UNCHANGED <<res, timed, stopped>>

Call(c) ==
  /\ res[c] # Pending
  /\ res' = [res EXCEPT ![c] = Pending]
  /\ timed' \in {timed \cup {c}, timed \ {c}}
  /\ UNCHANGED <<queue, stopped>>

Pop(c) ==
  /\ res[c] = Pending
  /\ queue # << >>
  /\ res' = [res EXCEPT ![c] = Head(queue)]
  /\ queue' = Tail(queue)
  /\ UNCHANGED <<timed, stopped>>

PopNothing(c) ==
  /\ res[c] = Pending
  /\ queue = << >>
  /\ c \in timed \cup stopped
  /\ res' = [res EXCEPT ![c] = NullOpt]
  /\ UNCHANGED <<queue, timed, stopped>>

RequestStop(c) ==
  /\ stopped' = stopped \cup {c}
  /\ UNCHANGED <<queue, res, timed>>

Next ==
  \/ \E v \in Values : Push(v)
  \/ \E c \in Consumers :
       Call(c) \/ Pop(c) \/ PopNothing(c) \/ RequestStop(c)

Spec == Init /\ [][Next]_fifoVars
=============================================================================
