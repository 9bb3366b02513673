---------------------------- MODULE NumsGateway ----------------------------
(***************************************************************************)
(* The newbee process (program/newbee/main.cpp) with its clients and its   *)
(* SMSC: the zmq thread of ZmqServer and the worker thread of NumsWorker,  *)
(* joined by outq_, inq_ and the sequence counter of NumsShared, and main, *)
(* whose timer stops both after 20 seconds.                                *)
(*                                                                         *)
(*   client --REQ/REP--> zmq thread --outq_--> worker --TCP--> SMSC        *)
(*   client <--REQ/REP-- zmq thread <--inq_--- worker <--TCP-- SMSC        *)
(***************************************************************************)
EXTENDS ZmqServer, NumsWorker

vars == <<sharedVars, serverVars, workerVars>>

Init ==
  /\ SharedInit
  /\ ServerInit
  /\ WorkerInit

Running == fate = "running"

ClientStep ==
  /\ \E c \in Clients : ClientSend(c) \/ ClientRecv(c)
  /\ UNCHANGED workerVars

ServerThread == Running /\ ServerStep /\ UNCHANGED workerVars
WorkerThread == Running /\ WorkerStep /\ UNCHANGED serverVars
Smsc         == Running /\ SmscStep /\ UNCHANGED serverVars
Main         == Running /\ (StopServer \/ StopWorker)
                        /\ UNCHANGED <<serverVars, workerVars>>

Next == ClientStep \/ ServerThread \/ WorkerThread \/ Smsc \/ Main

Spec == Init /\ [][Next]_vars

(* The scheduler runs the zmq thread, whose waits all have a time limit,   *)
(* and clients read what they are sent.  Nothing is asked of anybody else. *)
ServingSpec ==
  /\ Spec
  /\ WF_vars(ServerThread)
  /\ \A c \in Clients : WF_vars(ClientRecv(c) /\ UNCHANGED workerVars)

(* Also the worker runs, each of its waits having a time limit but for the *)
(* connect loop, and main's timer goes off.                                *)
FairSpec ==
  /\ ServingSpec
  /\ WF_vars(pcW # "connect" /\ WorkerThread)
  /\ WF_vars(Main)

\* Also a connect that could succeed does so in the end.
ReachableSpec ==
  FairSpec /\ WF_vars(Running /\ WkrConnect /\ UNCHANGED serverVars)

----------------------------------------------------------------------------
(* Properties *)

\* Every variable keeps to its domain.
TypeOK == SharedTypeOK /\ ServerTypeOK /\ WorkerTypeOK

\* The REP socket forgets nobody and owes nobody twice: the clients waiting
\* for a reply are those still in the pipe and the one being served, also
\* when the process is gone, and the steps between recv and send always have
\* somebody to answer.
ClientsAccounted ==
  /\ \A c \in Clients : cst[c] = "sent" <=> (c \in pipe \/ owed = c)
  /\ owed \notin pipe
  /\ pcS \in {"parse", "push", "wait", "send"} => owed # NoClient
  /\ fate = "efsm" => owed # NoClient

\* Where the packet that the worker last sent may have been answered.
Exchanging == {"recv", "deref", "switch", "body", "reply", "top", "connect", "exit"}

\* The piece x can be on the worker's connection.
Expected(x) ==
  \/ x.wire = LINK /\ x.seq = PeerSeq
  \/ pcW \in Exchanging /\ x.seq = cur.seq

\* Although recvMsg never compares sequence numbers, an answer it returns is
\* the answer to the packet just sent, unless it is not an answer at all
\* (bytes of a torn stream or of the missing header): each packet has a
\* connection of its own, so a late answer to an earlier packet is never
\* read.  Before the send only LINKs of the SMSC can be there to drain.
AnswersAreCurrent ==
  /\ \A i \in DOMAIN rx : Expected(rx[i])
  /\ \A i \in DOMAIN todo : Expected(todo[i])
  /\ pcW \in {"switch", "body"} =>
       \/ hdr.seq \in {JunkSeq, cur.seq}
       \/ hdr.wire = LINK /\ hdr.seq = PeerSeq
  /\ pcW = "reply" => result.seq \in {JunkSeq, cur.seq}

\* The sequence numbers that are waiting to be sent.
Queued == {outq[i].seq : i \in DOMAIN outq}

\* A packet with a sequence number is in outq_ at most once, even while the
\* worker retransmits and the zmq thread makes new ones: retry_cnt_ allows
\* one copy per exchange, and numbers are never issued twice.
NoDoubleQueueing ==
  /\ \A i, j \in DOMAIN outq :
       outq[i].seq = outq[j].seq /\ outq[i].seq > 0 => i = j
  /\ pcS = "push" => pkt.seq \notin Queued
  /\ pcW = "recv" /\ cur.seq > 0 /\ cur.seq \in Queued => retry_cnt = 1
  /\ pcW = "send" /\ cur.seq > 0 => cur.seq \notin Queued

\* Every request is settled: answered, or the gateway stops or terminates.
\* No client waits on a gateway that goes on serving others.
RequestSettled ==
  \A c \in Clients :
    (cst[c] = "sent") ~> (cst[c] = "replied" \/ stopS \/ ~Running)

\* A stop ends the zmq thread, also in the middle of a request.
StopEndsServer == stopS ~> (pcS = "exit" \/ ~Running)

\* "stop 요청 오면 nullopt 반환하고 종료": a stop ends the worker thread.
StopEndsWorker == stopW ~> (pcW = "exit" \/ ~Running)

----------------------------------------------------------------------------
(* What comments of the code say and the code does not do *)

\* "recv : send = 1:1", "다음 recv 전에 send 필요": the zmq thread receives
\* only when it has sent the reply to the last request.
RecvSendOneToOne == pcS = "recv" => owed = NoClient

\* "seq 오류처리": a reply of the SMSC that a client gets is the answer to the
\* request it made, not to another one.
ReplyAnswersRequest ==
  pcS = "send" /\ reply.seq # JunkSeq => reply.seq = pkt.seq
=============================================================================
