----------------------------- MODULE ZmqServer -----------------------------
(***************************************************************************)
(* zmq_server::zmq_cli_monitor (lib/zserver/zmq_server.cpp) and the        *)
(* zmq_client programs that talk to it (lib/zclient/zmq_client.cpp).       *)
(*                                                                         *)
(* A client's REQ socket sends one request and blocks until its reply.     *)
(* The server's REP socket takes one request of some client, remembers     *)
(* whom it owes the reply to, and refuses to receive again before it has   *)
(* sent it: zmq_msg_recv fails with EFSM and zmq.hpp's recv throws, outside*)
(* the try block and so out of the thread, which ends the process.         *)
(***************************************************************************)
EXTENDS NumsShared

CONSTANTS Clients,      \* zmq_client processes
          Kinds,        \* the msg_type a user of zmq_client enters, or NotJson
          MaxRequests,  \* bound: requests per client
          NoClient

ASSUME ClientsAssumption ==
  /\ NoClient \notin Clients
  /\ Kinds \subseteq Wires \cup {NotJson}
  /\ MaxRequests \in Nat

VARIABLES cst,          \* each client: "idle", "sent" or "replied"
          kind,         \* the msg_type in each client's request, until it is parsed
          left,         \* requests each client may still send
          pipe,         \* clients whose request the server has not received
          pcS,          \* where zmq_cli_monitor is
          owed,         \* the client the REP socket owes a reply, or NoClient
          pkt,          \* p, the packet made from the request
          reply         \* reply, the packet popped from inq_

serverVars == <<cst, kind, left, pipe, pcS, owed, pkt, reply>>

ServerTypeOK ==
  /\ cst \in [Clients -> {"idle", "sent", "replied"}]
  /\ kind \in [Clients -> Wires \cup {NotJson}]
  /\ left \in [Clients -> 0 .. MaxRequests]
  /\ pipe \subseteq Clients
  /\ pcS \in {"top", "recv", "parse", "push", "wait", "send", "exit"}
  /\ owed \in Clients \cup {NoClient}
  /\ pkt \in Packets
  /\ reply \in Packets

ServerInit ==
  /\ cst = [c \in Clients |-> "idle"]
  /\ kind = [c \in Clients |-> Blank]
  /\ left = [c \in Clients |-> MaxRequests]
  /\ pipe = {}
  /\ pcS = "top"
  /\ owed = NoClient
  /\ pkt = BlankPacket
  /\ reply = BlankPacket

\* Back to the head of the loop: msg, p and reply go out of scope.
NextRound ==
  /\ pcS' = "top"
  /\ pkt' = BlankPacket
  /\ reply' = BlankPacket

----------------------------------------------------------------------------
(* Slips: mistaken forms of actions below, which no specification uses and *)
(* the properties reject.                                                  *)

\* a loop that forgets its condition
SrvTopSlip ==
  /\ pcS = "top"
  /\ pcS' = "recv"
  /\ UNCHANGED <<cst, kind, left, pipe, owed, pkt, reply, sharedVars>>

\* a socket that accepts the next request before the reply
SrvRecvSlip ==
  /\ pcS = "recv"
  /\ \E c \in pipe : pipe' = pipe \ {c} /\ owed' = c
  /\ pcS' = "parse"
  /\ UNCHANGED <<cst, kind, left, pkt, reply, sharedVars>>

\* recv inside the try block: the error is logged for ever
SrvRecvThrowsSlip ==
  /\ pcS = "recv"
  /\ owed # NoClient
  /\ NextRound
  /\ UNCHANGED <<cst, kind, left, pipe, owed, sharedVars>>

\* a sequence counter that is read and not advanced
SrvParseSlip ==
  /\ pcS = "parse"
  /\ kind' = [kind EXCEPT ![owed] = Blank]
  /\ IF parse_json_throws(kind[owed])
     THEN NextRound
     ELSE pcS' = "push" /\ pkt' = parse_json(kind[owed], seq) /\ reply' = reply
  /\ UNCHANGED <<cst, left, pipe, owed, sharedVars>>

----------------------------------------------------------------------------
(* zmq_client::start *)

\* The user enters a request and sock_.send hands it to the server's pipe.
ClientSend(c) ==
  /\ cst[c] = "idle"
  /\ left[c] > 0
  /\ \E k \in Kinds : kind' = [kind EXCEPT ![c] = k]
  /\ cst' = [cst EXCEPT ![c] = "sent"]
  /\ left' = [left EXCEPT ![c] = @ - 1]
  /\ pipe' = pipe \cup {c}
  /\ UNCHANGED <<pcS, owed, pkt, reply, sharedVars>>

\* sock_.recv, which has no time limit
ClientRecv(c) ==
  /\ cst[c] = "replied"
  /\ cst' = [cst EXCEPT ![c] = "idle"]
  /\ UNCHANGED <<kind, left, pipe, pcS, owed, pkt, reply, sharedVars>>

----------------------------------------------------------------------------
(* zmq_server::zmq_cli_monitor *)

\* while (!st.stop_requested())
SrvTop ==
  /\ pcS = "top"
  /\ pcS' = IF stopS THEN "exit" ELSE "recv"
  /\ UNCHANGED <<cst, kind, left, pipe, owed, pkt, reply, sharedVars>>

\* sock_.recv takes the request of one of the clients.
SrvRecv ==
  /\ pcS = "recv"
  /\ owed = NoClient
  /\ \E c \in pipe : pipe' = pipe \ {c} /\ owed' = c
  /\ pcS' = "parse"
  /\ UNCHANGED <<cst, kind, left, pkt, reply, sharedVars>>

\* rcvtimeo (100 ms) passes without a request.
SrvRecvTimeout ==
  /\ pcS = "recv"
  /\ owed = NoClient
  /\ pipe = {}
  /\ pcS' = "top"
  /\ UNCHANGED <<cst, kind, left, pipe, owed, pkt, reply, sharedVars>>

\* recv while a reply is owed throws out of the thread: std::terminate.
SrvRecvThrows ==
  /\ pcS = "recv"
  /\ owed # NoClient
  /\ fate' = "efsm"
  /\ UNCHANGED <<outq, inq, seq, stopS, stopW, serverVars>>

\* Packet::parse_json; Header::parse_json has taken a sequence number before
\* an unknown type throws, and the catch block only logs.
SrvParse ==
  /\ pcS = "parse"
  /\ seq' = IF takes_seq(kind[owed]) THEN seq + 1 ELSE seq
  /\ kind' = [kind EXCEPT ![owed] = Blank]
  /\ IF parse_json_throws(kind[owed])
     THEN NextRound
     ELSE pcS' = "push" /\ pkt' = parse_json(kind[owed], seq) /\ reply' = reply
  /\ UNCHANGED <<outq, inq, stopS, stopW, fate, cst, left, pipe, owed>>

\* outq_.push_noti(std::move(p))
SrvPush ==
  /\ pcS = "push"
  /\ outq' = Append(outq, pkt)
  /\ pcS' = "wait"
  /\ UNCHANGED <<inq, seq, stopS, stopW, fate,
                 cst, kind, left, pipe, owed, pkt, reply>>

\* inq_.pop_wait_for(st, 1s) has an element ...
SrvPop ==
  /\ pcS = "wait"
  /\ inq # << >>
  /\ reply' = Head(inq)
  /\ inq' = Tail(inq)
  /\ pcS' = "send"
  /\ UNCHANGED <<outq, seq, stopS, stopW, fate,
                 cst, kind, left, pipe, owed, pkt>>

\* ... or returns nullopt after a second or on a stop: no reply is sent.
SrvPopNothing ==
  /\ pcS = "wait"
  /\ inq = << >>
  /\ NextRound
  /\ UNCHANGED <<cst, kind, left, pipe, owed, sharedVars>>

\* reply->to_json() and sock_.send, which ends the debt.
SrvSend ==
  /\ pcS = "send"
  /\ cst' = [cst EXCEPT ![owed] = "replied"]
  /\ owed' = NoClient
  /\ NextRound
  /\ UNCHANGED <<kind, left, pipe, sharedVars>>

\* std::stoi in to_json throws on a result code that is not a number, and
\* j.dump() on a msg_type that is not UTF-8; only bytes that never were a
\* packet can hold either.
SrvSendThrows ==
  /\ pcS = "send"
  /\ reply.seq = JunkSeq
  /\ reply.body = "result" \/ reply.wire = Text
  /\ NextRound
  /\ UNCHANGED <<cst, kind, left, pipe, owed, sharedVars>>

ServerStep ==
  \/ SrvTop
  \/ SrvRecv
  \/ SrvRecvTimeout
  \/ SrvRecvThrows
  \/ SrvParse
  \/ SrvPush
  \/ SrvPop
  \/ SrvPopNothing
  \/ SrvSend
  \/ SrvSendThrows
=============================================================================
