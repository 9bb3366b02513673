------------------------- MODULE NumsTeardownProofs -------------------------
(***************************************************************************)
(* That the queues and the monitor outlive the threads, for any clients    *)
(* and bounds.  The property is not inductive: it takes that every member  *)
(* behind a jthread in Order goes only when that thread has ended, and     *)
(* that a thread that has ended stays so.                                  *)
(*                                                                         *)
(* And that what NumsGatewayProofs shows of the gateway goes on to hold    *)
(* while it is taken apart under its running threads.                      *)
(***************************************************************************)
EXTENDS NumsTeardown, NumsGatewayProofs, TLAPS

\* Past its jthread in Order, a thread has ended.
Joined ==
  /\ down \in Nat
  /\ down >= 3 => pcW = "exit"
  /\ down >= 4 => pcM = "exit"
  /\ down >= 8 => pcS = "exit"

\* The worker's loop has been left for good: none of its steps follows.
LEMMA WorkerEnds == WorkerStep => pcW # "exit"
BY DEF WorkerStep, WkrTop, WkrConnect, WkrConnectFails, WkrDrainLink,
       WkrDrainNothing, WkrPop, WkrPopNothing, WkrSend, WkrSigpipe, WkrSendFails,
       WkrRecvHeader, WkrRetransmit, WkrGiveUp, WkrDeref, WkrDies, WkrLink,
       WkrHasBody, WkrHeaderOnly, WkrAccepted, WkrResult, WkrBodyFails,
       WkrReply, ReadBody

\* The same of the zmq thread, whether or not it still has its socket.
LEMMA ServerEnds == ServerStep \/ ServerStepClosed => pcS # "exit"
BY DEF ServerStep, ServerStepClosed, SrvTop, SrvRecv, SrvRecvTimeout,
       SrvRecvThrows, SrvRecvClosed, SrvParse, SrvPush, SrvPop, SrvPopNothing,
       SrvSend, SrvSendThrows, SrvSendClosed

\* Clients, SMSC and main leave the threads where they are.
LEMMA OthersKeep ==
  ASSUME OthersLife \/ MainLife
  PROVE  UNCHANGED <<pcS, pcW, pcM, down>>
<1>1. CASE MainLife
  BY <1>1 DEF MainLife, Main, serverVars, workerVars, teardownVars
<1>2. CASE ClientStep /\ UNCHANGED teardownVars
  <2>1. PICK c \in Clients : ClientSend(c) \/ ClientRecv(c)
    BY <1>2 DEF ClientStep
  <2>2. pcS' = pcS
    BY <2>1 DEF ClientSend, ClientRecv
  <2> QED
    BY <1>2, <2>2 DEF ClientStep, workerVars, teardownVars
<1>3. CASE Smsc /\ UNCHANGED teardownVars
  <2>1. pcW' = pcW
    BY <1>3 DEF Smsc, SmscStep, SmscDeliver, SmscLink, SmscDrop
  <2> QED
    BY <1>3, <2>1 DEF Smsc, serverVars, teardownVars
<1> QED
  BY <1>1, <1>2, <1>3 DEF OthersLife

\* Destroying the next member waits for the thread if it is a jthread.
LEMMA DestroyJoins ==
  ASSUME Joined, Destroy
  PROVE  Joined'
<1>1. /\ down \in Nat /\ down' = down + 1
      /\ UNCHANGED <<pcS, pcW, pcM>>
      /\ Destroyable(Order[down + 1])
  BY DEF Joined, Destroy, vars, serverVars, workerVars
<1>2. down + 1 = 3 => pcW = "exit"
  BY <1>1 DEF Destroyable, Order
<1>3. down + 1 = 4 => pcM = "exit"
  BY <1>1 DEF Destroyable, Order
<1>4. down + 1 = 8 => pcS = "exit"
  BY <1>1 DEF Destroyable, Order
<1> QED
  BY <1>1, <1>2, <1>3, <1>4 DEF Joined

\* Every step keeps Joined.
LEMMA NextJoined ==
  ASSUME Joined, [TeardownNext]_allVars
  PROVE  Joined'
<1>1. CASE Destroy
  BY <1>1, DestroyJoins
<1>2. CASE MonitorExit
  BY <1>2 DEF MonitorExit, Joined, vars, serverVars, workerVars
<1>3. CASE ServerLife
  <2>1. pcS # "exit"
    BY <1>3, ServerEnds DEF ServerLife
  <2>2. UNCHANGED <<pcW, pcM, down>>
    BY <1>3 DEF ServerLife, workerVars, teardownVars
  <2> QED
    BY <2>1, <2>2 DEF Joined
<1>4. CASE WorkerLife
  <2>1. pcW # "exit"
    BY <1>4, WorkerEnds DEF WorkerLife, WorkerThread
  <2>2. UNCHANGED <<pcS, pcM, down>>
    BY <1>4 DEF WorkerLife, WorkerThread, serverVars, teardownVars
  <2> QED
    BY <2>1, <2>2 DEF Joined
<1>5. CASE MainLife \/ OthersLife
  BY <1>5, OthersKeep DEF Joined
<1>6. CASE UNCHANGED allVars
  BY <1>6 DEF Joined, allVars, teardownVars, vars, serverVars, workerVars
<1> QED
  BY <1>1, <1>2, <1>3, <1>4, <1>5, <1>6 DEF TeardownNext

\* The queues come after both jthreads that use them, and monitor_ after
\* mon_th_.
LEMMA JoinedSuffices == Joined => SharedOutlivesThreads
<1> SUFFICES ASSUME Joined PROVE SharedOutlivesThreads
  OBVIOUS
<1>1. ASSUME Gone("inq_") \/ Gone("outq_")
      PROVE  down >= 8
  BY <1>1 DEF Gone, Order, Joined
<1>2. Gone("monitor_") => down >= 4
  BY DEF Gone, Order, Joined
<1> QED
  BY <1>1, <1>2 DEF Joined, SharedOutlivesThreads

\* For any clients and bounds: whichever thread ends last, the queues of main
\* and the monitor are destroyed after the threads that use them.
THEOREM QueuesOutliveThreads == TeardownSpec => []SharedOutlivesThreads
<1>1. TeardownInit => Joined
  BY DEF TeardownInit, Joined
<1>2. Joined /\ [TeardownNext]_allVars => Joined'
  BY NextJoined
<1>3. QED BY <1>1, <1>2, JoinedSuffices, PTL DEF TeardownSpec

----------------------------------------------------------------------------
(* The gateway while it is destroyed *)

\* All but two kinds of step are steps of the gateway, or leave it alone.
LEMMA GatewayGoesOn ==
  ASSUME [TeardownNext]_allVars
  PROVE  \/ [Next]_vars
         \/ Running /\ SrvRecvClosed /\ UNCHANGED workerVars
         \/ SrvSendClosed /\ UNCHANGED workerVars
<1>1. CASE Destroy \/ MonitorExit
  BY <1>1 DEF Destroy, MonitorExit
<1>2. CASE ServerLife
  <2>1. CASE ServerStep
    BY <1>2, <2>1 DEF ServerLife, ServerThread, Next
  <2>2. CASE ServerStepClosed
    BY <1>2, <2>2 DEF ServerLife, ServerStepClosed, ServerStep, ServerThread, Next
  <2> QED
    BY <1>2, <2>1, <2>2 DEF ServerLife
<1>3. CASE WorkerLife \/ MainLife \/ OthersLife
  BY <1>3 DEF WorkerLife, MainLife, OthersLife, Next
<1>4. CASE UNCHANGED allVars
  BY <1>4 DEF allVars
<1> QED
  BY <1>1, <1>2, <1>3, <1>4 DEF TeardownNext

\* A recv on the closed socket takes no request: it only moves the thread
\* on, or ends the process.
LEMMA RecvClosedKeeps ==
  ASSUME CoreInv, Numbered, Running, SrvRecvClosed, UNCHANGED workerVars
  PROVE  CoreInv' /\ Numbered'
<1>1. /\ UNCHANGED <<outq, inq, seq, stopS, stopW>>
      /\ UNCHANGED <<cst, kind, left, pipe, owed, pkt, reply>>
      /\ pcS' \in {"recv", "top"}
      /\ fate' \in {"running", "closed"}
  BY DEF SrvRecvClosed, Running
<1>2. TypeOK'
  <2>1. SharedTypeOK'
    BY <1>1 DEF CoreInv, TypeOK, SharedTypeOK, Fates
  <2>2. ServerTypeOK'
    BY <1>1 DEF CoreInv, TypeOK, ServerTypeOK
  <2>3. WorkerTypeOK'
    BY DEF CoreInv, TypeOK, WorkerTypeOK, workerVars
  <2> QED
    BY <2>1, <2>2, <2>3 DEF TypeOK
<1>3. SocketOpen' /\ AnswersAreCurrent'
  BY DEF CoreInv, SocketOpen, AnswersAreCurrent, Expected, workerVars
<1>4. ClientsAccounted'
  BY <1>1 DEF CoreInv, ClientsAccounted
<1>5. Numbered'
  BY <1>1 DEF Numbered, SeqsOf, Distinct, workerVars
<1> QED
  BY <1>2, <1>3, <1>4, <1>5 DEF CoreInv

\* A send on the closed socket gives the packets up and the debt stays.
LEMMA SendClosedKeeps ==
  ASSUME CoreInv, Numbered, SrvSendClosed, UNCHANGED workerVars
  PROVE  CoreInv' /\ Numbered'
<1>1. /\ UNCHANGED <<outq, inq, seq, stopS, stopW, fate>>
      /\ UNCHANGED <<cst, kind, left, pipe, owed>>
      /\ pcS' = "top" /\ pkt' = BlankPacket /\ reply' = BlankPacket
  BY DEF SrvSendClosed, NextRound, sharedVars
<1>2. TypeOK'
  <2>1. SharedTypeOK'
    BY <1>1 DEF CoreInv, TypeOK, SharedTypeOK
  <2>2. ServerTypeOK'
    BY <1>1, PacketTypes DEF CoreInv, TypeOK, ServerTypeOK
  <2>3. WorkerTypeOK'
    BY DEF CoreInv, TypeOK, WorkerTypeOK, workerVars
  <2> QED
    BY <2>1, <2>2, <2>3 DEF TypeOK
<1>3. SocketOpen' /\ AnswersAreCurrent'
  BY DEF CoreInv, SocketOpen, AnswersAreCurrent, Expected, workerVars
<1>4. ClientsAccounted'
  BY <1>1 DEF CoreInv, ClientsAccounted
<1>5. Numbered'
  <2>1. seq \in Nat \ {0} /\ BlankPacket.seq = 0
    BY DEF CoreInv, TypeOK, SharedTypeOK, BlankPacket, NoSeq
  <2> QED
    BY <1>1, <2>1 DEF Numbered, SeqsOf, Distinct, workerVars
<1> QED
  BY <1>2, <1>3, <1>4, <1>5 DEF CoreInv

\* For any clients and bounds, to the last member that is destroyed: no
\* client is forgotten, recvMsg hands on only answers to the packet it sent,
\* and no numbered packet waits in outq_ twice, although the zmq thread may
\* be without its socket and the worker without its host and TcpClient.
THEOREM GatewaySoundToTheEnd ==
  TeardownSpec => [](ClientsAccounted /\ AnswersAreCurrent /\ NoDoubleQueueing)
<1>1. TeardownInit => CoreInv /\ Numbered
  BY InitCore, InitNumbered DEF TeardownInit
<1>2. CoreInv /\ Numbered /\ [TeardownNext]_allVars => (CoreInv /\ Numbered)'
  BY GatewayGoesOn, CoreStep, NumberedStep, RecvClosedKeeps, SendClosedKeeps
<1>3. CoreInv /\ Numbered
        => ClientsAccounted /\ AnswersAreCurrent /\ NoDoubleQueueing
  BY NumberedSuffices DEF CoreInv
<1> QED
  BY <1>1, <1>2, <1>3, PTL DEF TeardownSpec
=============================================================================
