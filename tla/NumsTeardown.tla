---------------------------- MODULE NumsTeardown ----------------------------
(***************************************************************************)
(* The end of the newbee process: main has stopped both threads, io.run()  *)
(* returns, and the locals of main are destroyed in the reverse order of   *)
(* their declaration, each member by member in the reverse order of its    *)
(* class.  Destroying a jthread joins it; the threads run on until then,   *)
(* with whatever is left of the members they use.                          *)
(***************************************************************************)
EXTENDS NumsGateway

VARIABLES down,     \* how many members have been destroyed
          pcM       \* mon_th_: "check", in check_event and its loop, or "exit"

teardownVars == <<down, pcM>>
allVars == <<vars, teardownVars>>

\* mon_th_ declared before the monitor_ it uses
OrderSlip ==
  <<"serv_host", "smsc_", "outq_thread_",
    "monitor_", "mon_th_", "sock_", "ctx_", "zmq_cli_thread_",
    "inq_", "outq_">>

\* ~numsworker, ~zmq_server, and the queues.  Members whose destruction
\* changes nothing are left out.
Order ==
  <<"serv_host", "smsc_", "outq_thread_",
    "mon_th_", "monitor_", "sock_", "ctx_", "zmq_cli_thread_",
    "inq_", "outq_">>

Gone(m) == \E i \in 1 .. down : Order[i] = m

TeardownInit ==
  /\ Init
  /\ down = 0
  /\ pcM = "check"

\* std::jthread::~jthread joins; nothing else waits.
Destroyable(m) ==
  /\ m = "outq_thread_" => pcW = "exit"
  /\ m = "mon_th_" => pcM = "exit"
  /\ m = "zmq_cli_thread_" => pcS = "exit"

\* The next member goes.
Destroy ==
  /\ Running
  /\ stopS /\ stopW
  /\ down < Len(Order)
  /\ Destroyable(Order[down + 1])
  /\ down' = down + 1
  /\ UNCHANGED <<vars, pcM>>

\* a check_event(-1), whose poll only the closing of the socket would end
MonitorExitSlip ==
  /\ Running
  /\ pcM = "check"
  /\ stopS
  /\ Gone("sock_")
  /\ pcM' = "exit"
  /\ UNCHANGED <<vars, down>>

\* while (!st.stop_requested()) monitor_.check_event(100)
MonitorExit ==
  /\ Running
  /\ pcM = "check"
  /\ stopS
  /\ pcM' = "exit"
  /\ UNCHANGED <<vars, down>>

\* sock_ has been closed and its handle is null.  A recv that begins now
\* throws, which ends the process; one that was under way may also return
\* empty-handed.
SrvRecvClosed ==
  /\ pcS = "recv"
  /\ \/ pcS' = "top" /\ UNCHANGED fate
     \/ fate' = "closed" /\ UNCHANGED pcS
  /\ UNCHANGED <<outq, inq, seq, stopS, stopW,
                 cst, kind, left, pipe, owed, pkt, reply>>

\* A send throws inside the try block.
SrvSendClosed ==
  /\ pcS = "send"
  /\ NextRound
  /\ UNCHANGED <<cst, kind, left, pipe, owed, sharedVars>>

\* What zmq_cli_monitor does without its socket
ServerStepClosed ==
  SrvTop \/ SrvRecvClosed \/ SrvParse \/ SrvPush \/ SrvPop \/ SrvPopNothing
         \/ SrvSendClosed

ServerLife ==
  /\ Running
  /\ IF Gone("sock_") THEN ServerStepClosed ELSE ServerStep
  /\ UNCHANGED <<workerVars, teardownVars>>

\* The worker goes on with a destroyed serv_host and smsc_.  It finds in them
\* what was there: the 15 characters of the host are inside the string
\* object, and TcpClient has no destructor.
WorkerLife == WorkerThread /\ UNCHANGED teardownVars
MainLife   == Main /\ UNCHANGED teardownVars
OthersLife == (ClientStep \/ Smsc) /\ UNCHANGED teardownVars

TeardownNext ==
  Destroy \/ MonitorExit \/ ServerLife \/ WorkerLife \/ MainLife \/ OthersLife

TeardownSpec == TeardownInit /\ [][TeardownNext]_allVars

\* As ReachableSpec: every thread runs, main's timer goes off, and a connect
\* that could succeed does so in the end.
FairTeardownSpec ==
  /\ TeardownSpec
  /\ WF_allVars(ServerLife)
  /\ WF_allVars(pcW # "connect" /\ WorkerLife)
  /\ WF_allVars(Running /\ WkrConnect /\ UNCHANGED <<serverVars, teardownVars>>)
  /\ WF_allVars(MainLife)
  /\ WF_allVars(MonitorExit)
  /\ WF_allVars(Destroy)

----------------------------------------------------------------------------
(* Properties *)

\* main returns once it has stopped the threads: no join waits for ever,
\* although the threads may be in any wait when the stop comes.  The only
\* other outcome is a process that was terminated.
ProcessExits == stopS ~> (down = Len(Order) \/ ~Running)

\* The queues outlive the threads that use them, and the monitor outlives
\* its thread, whichever thread ends last.
SharedOutlivesThreads ==
  /\ pcS # "exit" \/ pcW # "exit" => ~Gone("inq_") /\ ~Gone("outq_")
  /\ pcM # "exit" => ~Gone("monitor_")

\* "소멸 순서", "jt 소멸 시 자동으로 조인": a thread has been joined when the
\* members it uses are destroyed.
MembersOutliveThreads ==
  /\ pcS \in {"recv", "send"} => ~Gone("sock_")
  /\ pcW = "connect" => ~Gone("serv_host")
  /\ pcW \in {"connect", "drain", "send", "recv", "body"} => ~Gone("smsc_")
=============================================================================
