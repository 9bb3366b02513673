----------------------------- MODULE NumsWorker -----------------------------
(***************************************************************************)
(* numsworker::outq_monitor with recvMsg, recvHeader, recvBody and sendMsg *)
(* (lib/numsworker/numsworker.cpp) over TcpClient                          *)
(* (lib/numsworker/TcpClient.cpp), and the SMSC at the other end of the    *)
(* connection, which is external and modelled from how recvMsg reads it:   *)
(* it answers 1 with 2, and 3 with 4 and later 5, under the sequence       *)
(* number of the request, and may send a LINK of its own at any time.      *)
(*                                                                         *)
(* The stream is a sequence of pieces, a header or a body each.  A piece   *)
(* is in todo until it has arrived and in rx until it is read.  read_exact *)
(* fails when the piece is not there in time; if part of the piece had     *)
(* arrived, that part is consumed, and from then on the connection is torn:*)
(* whatever is read as a header is not one.                                *)
(*                                                                         *)
(* recvMsg goes on to *rep_h after a failed header read that it answers    *)
(* with a retransmission.  The optional is empty, so the bytes it reads    *)
(* are indeterminate: Garbage is the set of msg_type values they may show, *)
(* and the process may also not survive it.                                *)
(***************************************************************************)
EXTENDS NumsShared

CONSTANTS Garbage,      \* msg_type values that indeterminate bytes may show
          MaxFds,       \* descriptors the process may open for sockets
          MaxIdle,      \* bound: idle periods before main's timer goes off
          MaxLinks,     \* bound: LINKs the SMSC sends of its own accord
          MaxDrops,     \* bound: connections the SMSC closes
          MaxGarbage    \* bound: garbage headers that look like a message

ASSUME WorkerAssumption ==
  /\ Garbage \subseteq Wires
  /\ MaxFds \in Nat
  /\ MaxIdle \in Nat
  /\ MaxLinks \in Nat
  /\ MaxDrops \in Nat
  /\ MaxGarbage \in Nat

VARIABLES pcW,          \* where outq_monitor is
          cur,          \* msg, the packet being sent
          hdr,          \* *rep_h
          result,       \* what recvMsg returned
          retry_cnt,    \* retry_cnt_
          conn,         \* the connection behind fd_: "none", "up" or "down"
          fds,          \* open sockets, the ones fd_ has forgotten included
          rx,           \* pieces that have arrived and are unread
          todo,         \* pieces the SMSC has sent that have not arrived
          torn,         \* a read has consumed part of a piece
          idle,         \* idle periods so far
          links,        \* LINKs the SMSC has sent of its own accord
          drops,        \* connections the SMSC has closed
          garbage       \* garbage headers that looked like a message

workerVars == <<pcW, cur, hdr, result, retry_cnt, conn, fds, rx, todo, torn,
                idle, links, drops, garbage>>

Pieces == [part : {"hdr", "body"}, wire : Wires, seq : Int]
Headers == [wire : Wires, seq : Int]

\* rep_h out of scope
NoHeader == [wire |-> Blank, seq |-> NoSeq]

WorkerTypeOK ==
  /\ pcW \in {"top", "connect", "drain", "pop", "send", "recv", "deref",
              "switch", "body", "reply", "exit"}
  /\ cur \in Packets
  /\ hdr \in Headers
  /\ result \in Packets
  /\ retry_cnt \in {0, 1}
  /\ conn \in {"none", "up", "down"}
  /\ fds \in Nat
  /\ rx \in Seq(Pieces)
  /\ todo \in Seq(Pieces)
  /\ torn \in BOOLEAN
  /\ idle \in Nat
  /\ links \in Nat
  /\ drops \in Nat
  /\ garbage \in Nat

WorkerInit ==
  /\ pcW = "top"
  /\ cur = BlankPacket
  /\ hdr = NoHeader
  /\ result = BlankPacket
  /\ retry_cnt = 0
  /\ conn = "none"
  /\ fds = 0
  /\ rx = << >>
  /\ todo = << >>
  /\ torn = FALSE
  /\ idle = 0
  /\ links = 0
  /\ drops = 0
  /\ garbage = 0

----------------------------------------------------------------------------
(* The SMSC (external) *)

Hdr(t, n) == [part |-> "hdr", wire |-> t, seq |-> n]
Bdy(t, n) == [part |-> "body", wire |-> t, seq |-> n]

\* 1->2, 3->4&5; anything else the gateway sends is not answered.
Answers(p) ==
  CASE p.wire = LINK -> <<Hdr(LINK_ACK, p.seq)>>
    [] p.wire = SN_REGINFO ->
         <<Hdr(SN_REGINFO_ACK, p.seq), Bdy(SN_REGINFO_ACK, p.seq),
           Hdr(REQ_RESULT, p.seq), Bdy(REQ_RESULT, p.seq)>>
    [] OTHER -> << >>

\* The next piece arrives.
SmscDeliver ==
  /\ todo # << >>
  /\ rx' = Append(rx, Head(todo))
  /\ todo' = Tail(todo)
  /\ UNCHANGED <<pcW, cur, hdr, result, retry_cnt, conn, fds, torn, idle,
                 links, drops, garbage, sharedVars>>

\* The LINK of the SMSC goes between two messages, after i pieces of todo.
InsertLink(i) ==
  SubSeq(todo, 1, i) \o <<Hdr(LINK, PeerSeq)>> \o SubSeq(todo, i + 1, Len(todo))

\* The SMSC checks the link by itself, before, between or after its answers.
SmscLink ==
  /\ conn = "up"
  /\ links < MaxLinks
  /\ links' = links + 1
  /\ \E i \in 0 .. Len(todo) :
       /\ i < Len(todo) => todo[i + 1].part = "hdr"
       /\ todo' = InsertLink(i)
  /\ UNCHANGED <<pcW, cur, hdr, result, retry_cnt, conn, fds, rx, torn, idle,
                 drops, garbage, sharedVars>>

\* The SMSC closes the connection; what has not arrived never will.
SmscDrop ==
  /\ conn = "up"
  /\ drops < MaxDrops
  /\ drops' = drops + 1
  /\ conn' = "down"
  /\ todo' = << >>
  /\ UNCHANGED <<pcW, cur, hdr, result, retry_cnt, fds, rx, torn, idle, links,
                 garbage, sharedVars>>

SmscStep == SmscDeliver \/ SmscLink \/ SmscDrop

----------------------------------------------------------------------------
(* Slips: mistaken forms of actions below, which no specification uses and *)
(* the properties reject.                                                  *)

\* a connect that keeps a connection it finds open
WkrConnectSlip ==
  /\ pcW = "connect"
  /\ fds < MaxFds
  /\ fds' = fds + 1
  /\ conn' = "up"
  /\ torn' = FALSE
  /\ pcW' = "drain"
  /\ UNCHANGED <<cur, hdr, result, retry_cnt, rx, todo, idle, links, drops,
                 garbage, sharedVars>>

\* a recvHeader that passes on no timeout, so that only the end of the
\* connection ends the read
WkrBlockedSlip ==
  /\ pcW = "recv"
  /\ rx = << >>
  /\ conn # "up"
  /\ retry_cnt < 1
  /\ outq' = Append(outq, cur)
  /\ retry_cnt' = retry_cnt + 1
  /\ torn' \in {torn, torn \/ todo # << >>}
  /\ pcW' = "deref"
  /\ UNCHANGED <<inq, seq, stopS, stopW, fate, cur, hdr, result, conn, fds, rx,
                 todo, idle, links, drops, garbage>>

\* a retransmission without the limit retry_cnt_ < 1
WkrRetransmitSlip ==
  /\ pcW = "recv"
  /\ rx = << >>
  /\ outq' = Append(outq, cur)
  /\ retry_cnt' = retry_cnt + 1
  /\ pcW' = "deref"
  /\ UNCHANGED <<inq, seq, stopS, stopW, fate, cur, hdr, result, conn, fds, rx,
                 todo, torn, idle, links, drops, garbage>>

\* a retransmission that is not counted
WkrUncountedSlip ==
  /\ pcW = "recv"
  /\ rx = << >>
  /\ outq' = Append(outq, cur)
  /\ pcW' = "deref"
  /\ UNCHANGED <<inq, seq, stopS, stopW, fate, cur, hdr, result, retry_cnt,
                 conn, fds, rx, todo, torn, idle, links, drops, garbage>>

----------------------------------------------------------------------------
(* outq_monitor *)

\* while (!st.stop_requested())
WkrTop ==
  /\ pcW = "top"
  /\ pcW' = IF stopW THEN "exit" ELSE "connect"
  /\ UNCHANGED <<cur, hdr, result, retry_cnt, conn, fds, rx, todo, torn, idle,
                 links, drops, garbage, sharedVars>>

\* smsc_.connect succeeds.  It opens a new socket each time and overwrites
\* fd_, so a socket that was not closed stays open and unread for good.
WkrConnect ==
  /\ pcW = "connect"
  /\ fds < MaxFds
  /\ fds' = fds + 1
  /\ conn' = "up"
  /\ rx' = << >>
  /\ todo' = << >>
  /\ torn' = FALSE
  /\ pcW' = "drain"
  /\ UNCHANGED <<cur, hdr, result, retry_cnt, idle, links, drops, garbage, sharedVars>>

\* smsc_.connect fails: the SMSC cannot be reached, or there is no descriptor
\* left.  fd_ is -1 afterwards; the loop sleeps and tries again whether or
\* not a stop was requested.
WkrConnectFails ==
  /\ pcW = "connect"
  /\ conn' = "none"
  /\ rx' = << >>
  /\ todo' = << >>
  /\ UNCHANGED <<pcW, cur, hdr, result, retry_cnt, fds, torn, idle, links,
                 drops, garbage, sharedVars>>

\* recvMsg(0ms) right after the connect finds a LINK, queues the
\* acknowledgement and looks again.  Nothing but a LINK can be there, because
\* nothing has been sent on this connection.
WkrDrainLink ==
  /\ pcW = "drain"
  /\ rx # << >>
  /\ rx' = Tail(rx)
  /\ outq' = Append(outq, PacketOf(LINK_ACK, seq))
  /\ UNCHANGED <<inq, seq, stopS, stopW, fate, pcW, cur, hdr, result,
                 retry_cnt, conn, fds, todo, torn, idle, links, drops, garbage>>

\* recvMsg(0ms) finds no whole header; half of one is consumed.
WkrDrainNothing ==
  /\ pcW = "drain"
  /\ rx = << >>
  /\ torn' \in {torn, torn \/ todo # << >>}
  /\ pcW' = "pop"
  /\ UNCHANGED <<cur, hdr, result, retry_cnt, conn, fds, rx, todo, idle, links,
                 drops, garbage, sharedVars>>

\* outq_.pop_wait_for(st, 5s)
WkrPop ==
  /\ pcW = "pop"
  /\ outq # << >>
  /\ cur' = Head(outq)
  /\ outq' = Tail(outq)
  /\ pcW' = "send"
  /\ UNCHANGED <<inq, seq, stopS, stopW, fate, hdr, result, retry_cnt, conn,
                 fds, rx, todo, torn, idle, links, drops, garbage>>

\* nullopt, after five idle seconds or on a stop: send a LINK.
WkrPopNothing ==
  /\ pcW = "pop"
  /\ outq = << >>
  /\ \/ stopW /\ idle' = idle
     \/ ~stopW /\ idle < MaxIdle /\ idle' = idle + 1
  /\ cur' = PacketOf(LINK, seq)
  /\ seq' = seq + 1
  /\ pcW' = "send"
  /\ UNCHANGED <<outq, inq, stopS, stopW, fate, hdr, result, retry_cnt, conn,
                 fds, rx, todo, torn, links, drops, garbage>>

\* sendMsg succeeds.  Bytes handed to a connection that the SMSC has closed
\* are accepted too, and lost.  Only a packet that says it is an
\* acknowledgement is sent without waiting for an answer.
WkrSend ==
  /\ pcW = "send"
  /\ todo' = IF conn = "up" THEN todo \o Answers(cur) ELSE todo
  /\ pcW' = IF msg_type_enum(cur) \in {LINK_ACK, REQ_RESULT_ACK}
            THEN "top" ELSE "recv"
  /\ UNCHANGED <<cur, hdr, result, retry_cnt, conn, fds, rx, torn, idle, links,
                 drops, garbage, sharedVars>>

\* smsc_.close(): the socket is closed and fd_ reset.
CloseAndRetry ==
  /\ hdr' = NoHeader
  /\ conn' = "none"
  /\ fds' = fds - 1
  /\ rx' = << >>
  /\ todo' = << >>
  /\ pcW' = "top"

\* ::send without MSG_NOSIGNAL on a connection that the SMSC has closed raises
\* SIGPIPE, which ends the process ...
WkrSigpipe ==
  /\ pcW = "send"
  /\ conn = "down"
  /\ fate' = "sigpipe"
  /\ UNCHANGED <<outq, inq, seq, stopS, stopW, workerVars>>

\* ... or fails (ECONNRESET): close and drop the packet.
WkrSendFails ==
  /\ pcW = "send"
  /\ conn = "down"
  /\ CloseAndRetry
  /\ UNCHANGED <<cur, result, retry_cnt, torn, idle, links, drops,
                 garbage, sharedVars>>

----------------------------------------------------------------------------
(* recvMsg *)

\* 24 bytes that are no header are taken for one.  They hardly ever look like
\* a message that recvMsg acts on; MaxGarbage bounds how often they do.
ReadGarbage ==
  \E w \in Garbage :
    /\ hdr' = [wire |-> w, seq |-> JunkSeq]
    /\ IF w \in MsgTypes
       THEN garbage < MaxGarbage /\ garbage' = garbage + 1
       ELSE garbage' = garbage

\* recvHeader reads 24 bytes: the next header, or no header if the stream is
\* torn.
WkrRecvHeader ==
  /\ pcW = "recv"
  /\ rx # << >>
  /\ IF torn
     THEN ReadGarbage
     ELSE /\ hdr' = [wire |-> Head(rx).wire, seq |-> Head(rx).seq]
          /\ garbage' = garbage
  /\ rx' = Tail(rx)
  /\ pcW' = "switch"
  /\ UNCHANGED <<cur, result, retry_cnt, conn, fds, todo, torn, idle, links,
                 drops, sharedVars>>

\* recvHeader fails for the first time: the packet goes back into outq_ and
\* the code goes on with the header it does not have.
WkrRetransmit ==
  /\ pcW = "recv"
  /\ rx = << >>
  /\ retry_cnt < 1
  /\ outq' = Append(outq, cur)
  /\ retry_cnt' = retry_cnt + 1
  /\ torn' \in {torn, torn \/ todo # << >>}
  /\ pcW' = "deref"
  /\ UNCHANGED <<inq, seq, stopS, stopW, fate, cur, hdr, result, conn, fds, rx,
                 todo, idle, links, drops, garbage>>

\* recvHeader fails again: give up ("재전송 실패").
WkrGiveUp ==
  /\ pcW = "recv"
  /\ rx = << >>
  /\ retry_cnt >= 1
  /\ retry_cnt' = 0
  /\ CloseAndRetry
  /\ UNCHANGED <<cur, result, torn, idle, links, drops, garbage,
                 sharedVars>>

\* *rep_h on an empty optional: indeterminate bytes ...
WkrDeref ==
  /\ pcW = "deref"
  /\ ReadGarbage
  /\ pcW' = "switch"
  /\ UNCHANGED <<cur, result, retry_cnt, conn, fds, rx, todo, torn, idle,
                 links, drops, sharedVars>>

\* ... or the end of the process, here or in std::stoul on a length that is
\* not a number.
WkrDies ==
  /\ \/ pcW = "deref"
     \/ pcW = "body" /\ hdr.seq = JunkSeq
  /\ fate' = "garbage"
  /\ UNCHANGED <<outq, inq, seq, stopS, stopW, workerVars>>

\* case LINK: queue an acknowledgement and read on.
WkrLink ==
  /\ pcW = "switch"
  /\ msg_type_enum(hdr) = LINK
  /\ outq' = Append(outq, PacketOf(LINK_ACK, seq))
  /\ pcW' = "recv"
  /\ hdr' = NoHeader
  /\ UNCHANGED <<inq, seq, stopS, stopW, fate, cur, result, retry_cnt,
                 conn, fds, rx, todo, torn, idle, links, drops, garbage>>

\* case SN_REGINFO_ACK and case REQ_RESULT: a body follows.
WkrHasBody ==
  /\ pcW = "switch"
  /\ msg_type_enum(hdr) \in {SN_REGINFO_ACK, REQ_RESULT}
  /\ pcW' = "body"
  /\ UNCHANGED <<cur, hdr, result, retry_cnt, conn, fds, rx, todo, torn, idle,
                 links, drops, garbage, sharedVars>>

\* case LINK_ACK and default: the header alone is the result.
WkrHeaderOnly ==
  /\ pcW = "switch"
  /\ msg_type_enum(hdr) \notin {LINK, SN_REGINFO_ACK, REQ_RESULT}
  /\ result' = ResultPacket(hdr, "monostate")
  /\ pcW' = "reply"
  /\ hdr' = NoHeader
  /\ UNCHANGED <<cur, retry_cnt, conn, fds, rx, todo, torn, idle, links,
                 drops, garbage, sharedVars>>

\* recvBody reads the length that the header announces: its body.  The length
\* of a header that is none covers n pieces, none or several, and may end
\* inside the next, or where a header begins, which mends a torn stream.
ReadBody ==
  /\ pcW = "body"
  /\ IF hdr.seq = JunkSeq
     THEN \E n \in 0 .. Len(rx) :
            /\ rx' = SubSeq(rx, n + 1, Len(rx))
            /\ \/ torn' = TRUE
               \/ /\ torn' = FALSE
                  /\ torn => n > 0
                  /\ rx' \o todo # << >> => (rx' \o todo)[1].part = "hdr"
     ELSE /\ rx # << >>
          /\ rx' = Tail(rx)
          /\ torn' = torn

\* SN_REGINFO_ACK: the request was accepted; read on for the result.
WkrAccepted ==
  /\ ReadBody
  /\ msg_type_enum(hdr) = SN_REGINFO_ACK
  /\ pcW' = "recv"
  /\ hdr' = NoHeader
  /\ UNCHANGED <<cur, result, retry_cnt, conn, fds, todo, idle, links,
                 drops, garbage, sharedVars>>

\* REQ_RESULT: queue the acknowledgement and return the result.
WkrResult ==
  /\ ReadBody
  /\ msg_type_enum(hdr) = REQ_RESULT
  /\ outq' = Append(outq, PacketOf(REQ_RESULT_ACK, seq))
  /\ result' = ResultPacket(hdr, "result")
  /\ pcW' = "reply"
  /\ hdr' = NoHeader
  /\ UNCHANGED <<inq, seq, stopS, stopW, fate, cur, retry_cnt, conn, fds,
                 todo, idle, links, drops, garbage>>

\* recvBody fails: no retransmission, close.  The length of a header that is
\* none may be more than ever arrives.
WkrBodyFails ==
  /\ pcW = "body"
  /\ rx = << >> \/ hdr.seq = JunkSeq
  /\ CloseAndRetry
  /\ UNCHANGED <<cur, result, retry_cnt, torn, idle, links, drops,
                 garbage, sharedVars>>

\* inq_.push_noti(*result); the connection is neither closed nor reused.
WkrReply ==
  /\ pcW = "reply"
  /\ inq' = Append(inq, result)
  /\ pcW' = "top"
  /\ result' = BlankPacket
  /\ UNCHANGED <<outq, seq, stopS, stopW, fate, cur, hdr, retry_cnt,
                 conn, fds, rx, todo, torn, idle, links, drops, garbage>>

WorkerStep ==
  \/ WkrTop
  \/ WkrConnect
  \/ WkrConnectFails
  \/ WkrDrainLink
  \/ WkrDrainNothing
  \/ WkrPop
  \/ WkrPopNothing
  \/ WkrSend
  \/ WkrSigpipe
  \/ WkrSendFails
  \/ WkrRecvHeader
  \/ WkrRetransmit
  \/ WkrGiveUp
  \/ WkrDeref
  \/ WkrDies
  \/ WkrLink
  \/ WkrHasBody
  \/ WkrHeaderOnly
  \/ WkrAccepted
  \/ WkrResult
  \/ WkrBodyFails
  \/ WkrReply
=============================================================================
