----------------------------- MODULE NumsShared -----------------------------
(***************************************************************************)
(* What the threads of the newbee process share (program/newbee/main.cpp): *)
(* the two queues, the static sequence counter of Header, the stop flags   *)
(* of the two jthreads, and whether the process still runs.                *)
(*                                                                         *)
(* The queues are used through the atomic steps of FifoQueue, which        *)
(* ThreadSafeQueue implements: push_noti appends; pop_wait_for takes the   *)
(* head, or returns nullopt from an empty queue once its time is up or a   *)
(* stop was requested.                                                     *)
(***************************************************************************)
EXTENDS NumsPackets, Sequences

VARIABLES outq,     \* outq_: packets for the SMSC
          inq,      \* inq_: packets for the zmq client
          seq,      \* Header::seq, the next sequence number
          stopS,    \* stop requested of zmq_cli_thread_
          stopW,    \* stop requested of outq_thread_
          fate      \* "running", or why the process terminated

sharedVars == <<outq, inq, seq, stopS, stopW, fate>>

\* "efsm": zmq::error_t left zmq_cli_monitor; "garbage": the worker used a
\* header that is not there and the process did not survive it; "sigpipe": a
\* send on a connection that the SMSC had closed raised the signal, which
\* nothing in the program ignores; "closed": recv was called on the socket
\* that its owner had destroyed.
Fates == {"running", "efsm", "garbage", "sigpipe", "closed"}

SharedTypeOK ==
  /\ outq \in Seq(Packets)
  /\ inq \in Seq(Packets)
  /\ seq \in Nat \ {0}
  /\ stopS \in BOOLEAN
  /\ stopW \in BOOLEAN
  /\ fate \in Fates

SharedInit ==
  /\ outq = << >>
  /\ inq = << >>
  /\ seq = 1
  /\ stopS = FALSE
  /\ stopW = FALSE
  /\ fate = "running"

\* main's 20 second timer: svr.stop(), then wkr.stop().
StopServer ==
  /\ ~stopS
  /\ stopS' = TRUE
  /\ UNCHANGED <<outq, inq, seq, stopW, fate>>

StopWorker ==
  /\ stopS
  /\ ~stopW
  /\ stopW' = TRUE
  /\ UNCHANGED <<outq, inq, seq, stopS, fate>>
=============================================================================
