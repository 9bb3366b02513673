------------------------- MODULE NumsGatewayProofs -------------------------
(***************************************************************************)
(* Proofs about NumsGateway, for any clients, any requests, any behaviour  *)
(* of the SMSC within the model, and any value of the bounds.              *)
(***************************************************************************)
EXTENDS NumsGateway, SequenceTheorems, TLAPS

\* While the worker is between a connect and the end of the exchange, its
\* socket is one of the open ones, so that close() never counts below zero.
SocketOpen ==
  pcW \in {"drain", "pop", "send", "recv", "deref", "switch", "body", "reply"}
    => fds >= 1

\* The invariant that is inductive by itself.
CoreInv ==
  /\ TypeOK
  /\ SocketOpen
  /\ ClientsAccounted
  /\ AnswersAreCurrent

----------------------------------------------------------------------------
(* Types of what the operators of NumsPackets build *)

LEMMA PacketTypes ==
  /\ BlankPacket \in Packets
  /\ \A t \in Wires, n \in Int : PacketOf(t, n) \in Packets
  /\ \A t \in Wires \cup {NotJson}, n \in Int :
       ~parse_json_throws(t) => t \in Wires /\ parse_json(t, n) \in Packets
  /\ \A h \in Headers, b \in Bodies : ResultPacket(h, b) \in Packets
<1>1. BlankPacket \in Packets
  BY DEF BlankPacket, Packets, Wires, Blank, Text, NoSeq, Bodies
<1>2. ASSUME NEW t \in Wires, NEW n \in Int PROVE PacketOf(t, n) \in Packets
  BY <1>1 DEF PacketOf, Packets, Wires, Blank, Text, LINK
<1>3. ASSUME NEW t \in Wires, NEW n \in Int PROVE parse_json(t, n) \in Packets
  BY DEF parse_json, Packets, Bodies
<1>4. ASSUME NEW h \in Headers, NEW b \in Bodies PROVE ResultPacket(h, b) \in Packets
  BY DEF ResultPacket, Headers, Packets
<1>5. parse_json_throws(NotJson)
  BY DEF parse_json_throws, NotJson, Text, LINK, SN_REGINFO
<1> QED
  BY <1>1, <1>2, <1>3, <1>4, <1>5

LEMMA PieceTypes ==
  /\ \A p \in Packets : Answers(p) \in Seq(Pieces)
  /\ Hdr(LINK, PeerSeq) \in Pieces
<1>1. ASSUME NEW t \in Wires, NEW n \in Int
      PROVE  Hdr(t, n) \in Pieces /\ Bdy(t, n) \in Pieces
  BY DEF Hdr, Bdy, Pieces
<1>2. {LINK, LINK_ACK, SN_REGINFO_ACK, REQ_RESULT} \subseteq Wires
  BY DEF Wires, LINK, LINK_ACK, SN_REGINFO_ACK, REQ_RESULT, Blank, Text
<1>3. ASSUME NEW p \in Packets PROVE Answers(p) \in Seq(Pieces)
  <2>1. p.seq \in Int
    BY DEF Packets
  <2> QED
    BY <1>1, <1>2, <2>1 DEF Answers
<1>4. PeerSeq \in Int
  BY DEF PeerSeq
<1> QED
  BY <1>1, <1>2, <1>3, <1>4

\* Inserting a LINK adds no other piece.
LEMMA InsertLinkTypes ==
  ASSUME NEW S, todo \in Seq(S), Hdr(LINK, PeerSeq) \in S, NEW i \in 0 .. Len(todo)
  PROVE  InsertLink(i) \in Seq(S)
<1>1. Len(todo) \in Nat /\ \A j \in 1 .. Len(todo) : todo[j] \in S
  BY ElementOfSeq, LenProperties
<1>2. SubSeq(todo, 1, i) \in Seq(S)
  BY <1>1, SubSeqProperties
<1>3. SubSeq(todo, i + 1, Len(todo)) \in Seq(S)
  BY <1>1, SubSeqProperties
<1>4. <<Hdr(LINK, PeerSeq)>> \in Seq(S)
  OBVIOUS
<1> QED
  BY <1>2, <1>3, <1>4, ConcatProperties DEF InsertLink

\* What recvBody leaves unread was there before.
LEMMA BodyLeavesRest ==
  ASSUME rx \in Seq(Pieces), torn \in BOOLEAN, ReadBody
  PROVE  /\ rx' \in Seq(Pieces)
         /\ torn' \in BOOLEAN
         /\ \A i \in DOMAIN rx' : \E j \in DOMAIN rx : rx'[i] = rx[j]
<1>1. torn' \in BOOLEAN
  BY DEF ReadBody
<1>2. Len(rx) \in Nat /\ DOMAIN rx = 1 .. Len(rx)
  BY LenProperties
<1>3. ASSUME NEW n \in 0 .. Len(rx), rx' = SubSeq(rx, n + 1, Len(rx))
      PROVE  /\ rx' \in Seq(Pieces)
             /\ \A i \in DOMAIN rx' : \E j \in DOMAIN rx : rx'[i] = rx[j]
  <2>1. /\ n + 1 \in 1 .. Len(rx) + 1 /\ Len(rx) \in n .. Len(rx)
        /\ \A i \in n + 1 .. Len(rx) : rx[i] \in Pieces
    BY <1>2, ElementOfSeq
  <2>2. /\ rx' \in Seq(Pieces)
        /\ Len(rx') = Len(rx) - n
        /\ \A i \in 1 .. Len(rx) - n : rx'[i] = rx[n + i]
    <3> DEFINE m == n + 1
               k == Len(rx)
    <3>1. /\ m \in Int /\ k \in Int /\ rx' = SubSeq(rx, m, k)
          /\ \A i \in m .. k : rx[i] \in Pieces
      BY <1>2, <1>3, <2>1
    <3> HIDE DEF m, k
    <3>2. /\ rx' \in Seq(Pieces)
          /\ Len(rx') = IF m <= k THEN k - m + 1 ELSE 0
          /\ \A i \in 1 .. k - m + 1 : rx'[i] = rx[m + i - 1]
      BY <3>1, SubSeqProperties
    <3>3. m <= k + 1 /\ k - m + 1 = Len(rx) - n /\ \A i \in Int : m + i - 1 = n + i
      BY <1>2 DEF m, k
    <3> QED
      BY <3>1, <3>2, <3>3
  <2>3. DOMAIN rx' = 1 .. Len(rx) - n
    BY <2>2, LenProperties
  <2>4. \A i \in 1 .. Len(rx) - n : n + i \in DOMAIN rx
    BY <1>2
  <2> QED
    BY <2>2, <2>3, <2>4
<1>4. CASE hdr.seq = JunkSeq
  BY <1>1, <1>3, <1>4 DEF ReadBody
<1>5. CASE hdr.seq # JunkSeq
  <2>1. rx # << >> /\ rx' = Tail(rx)
    BY <1>5 DEF ReadBody
  <2>2. /\ rx' \in Seq(Pieces)
        /\ \A i \in DOMAIN rx' : i + 1 \in DOMAIN rx /\ rx'[i] = rx[i + 1]
    BY <2>1, HeadTailProperties
  <2> QED
    BY <1>1, <2>2
<1> QED
  BY <1>4, <1>5

----------------------------------------------------------------------------
(* Type correctness *)

LEMMA SharedTypeStep == CoreInv /\ [Next]_vars => SharedTypeOK'
<1> SUFFICES ASSUME CoreInv, [Next]_vars PROVE SharedTypeOK'
  OBVIOUS
<1> USE DEF CoreInv, TypeOK, SharedTypeOK
<1>a. LINK \in Wires /\ LINK_ACK \in Wires /\ REQ_RESULT_ACK \in Wires /\ seq \in Int
  BY DEF Wires, LINK, LINK_ACK, REQ_RESULT_ACK, Blank, Text
<1>1. ASSUME NEW c \in Clients, ClientSend(c), UNCHANGED workerVars
      PROVE  SharedTypeOK'
  BY <1>1 DEF ClientSend, sharedVars
<1>2. ASSUME NEW c \in Clients, ClientRecv(c), UNCHANGED workerVars
      PROVE  SharedTypeOK'
  BY <1>2 DEF ClientRecv, sharedVars
<1>3. ASSUME SrvTop, UNCHANGED workerVars
      PROVE  SharedTypeOK'
  BY <1>3 DEF SrvTop, sharedVars
<1>4. ASSUME SrvRecv, UNCHANGED workerVars
      PROVE  SharedTypeOK'
  BY <1>4 DEF SrvRecv, sharedVars
<1>5. ASSUME SrvRecvTimeout, UNCHANGED workerVars
      PROVE  SharedTypeOK'
  BY <1>5 DEF SrvRecvTimeout, sharedVars
<1>6. ASSUME SrvRecvThrows, UNCHANGED workerVars
      PROVE  SharedTypeOK'
  BY <1>6 DEF SrvRecvThrows, Fates
<1>7. ASSUME SrvParse, UNCHANGED workerVars
      PROVE  SharedTypeOK'
  BY <1>7 DEF SrvParse, NextRound, sharedVars
<1>8. ASSUME SrvPush, UNCHANGED workerVars
      PROVE  SharedTypeOK'
  BY <1>8 DEF SrvPush, ServerTypeOK
<1>9. ASSUME SrvPop, UNCHANGED workerVars
      PROVE  SharedTypeOK'
  BY <1>9, HeadTailProperties DEF SrvPop
<1>10. ASSUME SrvPopNothing, UNCHANGED workerVars
      PROVE  SharedTypeOK'
  BY <1>10 DEF SrvPopNothing, NextRound, sharedVars
<1>11. ASSUME SrvSend, UNCHANGED workerVars
      PROVE  SharedTypeOK'
  BY <1>11 DEF SrvSend, NextRound, sharedVars
<1>12. ASSUME SrvSendThrows, UNCHANGED workerVars
      PROVE  SharedTypeOK'
  BY <1>12 DEF SrvSendThrows, NextRound, sharedVars
<1>13. ASSUME WkrTop, UNCHANGED serverVars
      PROVE  SharedTypeOK'
  BY <1>13 DEF WkrTop, sharedVars
<1>14. ASSUME WkrConnect, UNCHANGED serverVars
      PROVE  SharedTypeOK'
  BY <1>14 DEF WkrConnect, sharedVars
<1>15. ASSUME WkrConnectFails, UNCHANGED serverVars
      PROVE  SharedTypeOK'
  BY <1>15 DEF WkrConnectFails, sharedVars
<1>16. ASSUME WkrDrainLink, UNCHANGED serverVars
      PROVE  SharedTypeOK'
  BY <1>16, <1>a, PacketTypes DEF WkrDrainLink
<1>17. ASSUME WkrDrainNothing, UNCHANGED serverVars
      PROVE  SharedTypeOK'
  BY <1>17 DEF WkrDrainNothing, sharedVars
<1>18. ASSUME WkrPop, UNCHANGED serverVars
      PROVE  SharedTypeOK'
  BY <1>18, HeadTailProperties DEF WkrPop
<1>19. ASSUME WkrPopNothing, UNCHANGED serverVars
      PROVE  SharedTypeOK'
  BY <1>19 DEF WkrPopNothing, sharedVars
<1>20. ASSUME WkrSend, UNCHANGED serverVars
      PROVE  SharedTypeOK'
  BY <1>20 DEF WkrSend, sharedVars
<1>21. ASSUME WkrSendFails, UNCHANGED serverVars
      PROVE  SharedTypeOK'
  BY <1>21 DEF WkrSendFails, CloseAndRetry, sharedVars
<1>22. ASSUME WkrRecvHeader, UNCHANGED serverVars
      PROVE  SharedTypeOK'
  BY <1>22 DEF WkrRecvHeader, ReadGarbage, sharedVars
<1>23. ASSUME WkrRetransmit, UNCHANGED serverVars
      PROVE  SharedTypeOK'
  BY <1>23 DEF WkrRetransmit, WorkerTypeOK
<1>24. ASSUME WkrGiveUp, UNCHANGED serverVars
      PROVE  SharedTypeOK'
  BY <1>24 DEF WkrGiveUp, CloseAndRetry, sharedVars
<1>25. ASSUME WkrDeref, UNCHANGED serverVars
      PROVE  SharedTypeOK'
  BY <1>25 DEF WkrDeref, ReadGarbage, sharedVars
<1>26. ASSUME WkrDies \/ WkrSigpipe, UNCHANGED serverVars
      PROVE  SharedTypeOK'
  BY <1>26 DEF WkrDies, WkrSigpipe, Fates
<1>27. ASSUME WkrLink, UNCHANGED serverVars
      PROVE  SharedTypeOK'
  BY <1>27, <1>a, PacketTypes DEF WkrLink
<1>28. ASSUME WkrHasBody, UNCHANGED serverVars
      PROVE  SharedTypeOK'
  BY <1>28 DEF WkrHasBody, sharedVars
<1>29. ASSUME WkrHeaderOnly, UNCHANGED serverVars
      PROVE  SharedTypeOK'
  BY <1>29 DEF WkrHeaderOnly, sharedVars
<1>30. ASSUME WkrAccepted, UNCHANGED serverVars
      PROVE  SharedTypeOK'
  BY <1>30 DEF WkrAccepted, ReadBody, sharedVars
<1>31. ASSUME WkrResult, UNCHANGED serverVars
      PROVE  SharedTypeOK'
  BY <1>31, <1>a, PacketTypes DEF WkrResult, ReadBody
<1>32. ASSUME WkrBodyFails, UNCHANGED serverVars
      PROVE  SharedTypeOK'
  BY <1>32 DEF WkrBodyFails, CloseAndRetry, sharedVars
<1>33. ASSUME WkrReply, UNCHANGED serverVars
      PROVE  SharedTypeOK'
  BY <1>33 DEF WkrReply, WorkerTypeOK
<1>34. ASSUME SmscDeliver, UNCHANGED serverVars
      PROVE  SharedTypeOK'
  BY <1>34 DEF SmscDeliver, sharedVars
<1>35. ASSUME SmscLink, UNCHANGED serverVars
      PROVE  SharedTypeOK'
  BY <1>35 DEF SmscLink, sharedVars
<1>36. ASSUME SmscDrop, UNCHANGED serverVars
      PROVE  SharedTypeOK'
  BY <1>36 DEF SmscDrop, sharedVars
<1>37. ASSUME StopServer, UNCHANGED <<serverVars, workerVars>>
      PROVE  SharedTypeOK'
  BY <1>37 DEF StopServer, sharedVars
<1>38. ASSUME StopWorker, UNCHANGED <<serverVars, workerVars>>
      PROVE  SharedTypeOK'
  BY <1>38 DEF StopWorker, sharedVars
<1>39. CASE UNCHANGED vars
  BY <1>39 DEF vars, sharedVars
<1> QED
  BY <1>1, <1>2, <1>3, <1>4, <1>5, <1>6, <1>7, <1>8, <1>9, <1>10, <1>11,
     <1>12, <1>13, <1>14, <1>15, <1>16, <1>17, <1>18, <1>19, <1>20, <1>21,
     <1>22, <1>23, <1>24, <1>25, <1>26, <1>27, <1>28, <1>29, <1>30, <1>31,
     <1>32, <1>33, <1>34, <1>35, <1>36, <1>37, <1>38, <1>39 DEF Next,
     ClientStep, ServerThread, ServerStep, WorkerThread, WorkerStep, Smsc,
     SmscStep, Main

LEMMA ServerTypeStep == CoreInv /\ [Next]_vars => ServerTypeOK'
<1> SUFFICES ASSUME CoreInv, [Next]_vars PROVE ServerTypeOK'
  OBVIOUS
<1> USE PacketTypes DEF CoreInv, TypeOK, ServerTypeOK
<1>1. ASSUME NEW c \in Clients, ClientSend(c), UNCHANGED workerVars
      PROVE  ServerTypeOK'
  BY <1>1, ClientsAssumption DEF ClientSend
<1>2. ASSUME NEW c \in Clients, ClientRecv(c), UNCHANGED workerVars
      PROVE  ServerTypeOK'
  BY <1>2 DEF ClientRecv
<1>3. ASSUME SrvTop, UNCHANGED workerVars
      PROVE  ServerTypeOK'
  BY <1>3 DEF SrvTop
<1>4. ASSUME SrvRecv, UNCHANGED workerVars
      PROVE  ServerTypeOK'
  BY <1>4 DEF SrvRecv
<1>5. ASSUME SrvRecvTimeout, UNCHANGED workerVars
      PROVE  ServerTypeOK'
  BY <1>5 DEF SrvRecvTimeout
<1>6. ASSUME SrvRecvThrows, UNCHANGED workerVars
      PROVE  ServerTypeOK'
  BY <1>6 DEF SrvRecvThrows, serverVars
<1>7. ASSUME SrvParse, UNCHANGED workerVars
      PROVE  ServerTypeOK'
  <2>1. owed \in Clients
    BY <1>7 DEF SrvParse, ClientsAccounted
  <2>2. Blank \in Wires /\ seq \in Int
    BY DEF Wires, Blank, Text, SharedTypeOK
  <2> QED
    BY <1>7, <2>1, <2>2 DEF SrvParse, NextRound
<1>8. ASSUME SrvPush, UNCHANGED workerVars
      PROVE  ServerTypeOK'
  BY <1>8 DEF SrvPush
<1>9. ASSUME SrvPop, UNCHANGED workerVars
      PROVE  ServerTypeOK'
  BY <1>9, HeadTailProperties DEF SrvPop, SharedTypeOK
<1>10. ASSUME SrvPopNothing, UNCHANGED workerVars
      PROVE  ServerTypeOK'
  BY <1>10 DEF SrvPopNothing, NextRound
<1>11. ASSUME SrvSend, UNCHANGED workerVars
      PROVE  ServerTypeOK'
  BY <1>11 DEF SrvSend, NextRound
<1>12. ASSUME SrvSendThrows, UNCHANGED workerVars
      PROVE  ServerTypeOK'
  BY <1>12 DEF SrvSendThrows, NextRound
<1>13. CASE WorkerThread
  BY <1>13 DEF WorkerThread, serverVars
<1>14. CASE Smsc
  BY <1>14 DEF Smsc, serverVars
<1>15. CASE Main
  BY <1>15 DEF Main, serverVars
<1>16. CASE UNCHANGED vars
  BY <1>16 DEF vars, serverVars
<1> QED
  BY <1>1, <1>2, <1>3, <1>4, <1>5, <1>6, <1>7, <1>8, <1>9, <1>10, <1>11,
     <1>12, <1>13, <1>14, <1>15, <1>16 DEF Next, ClientStep, ServerThread,
     ServerStep

LEMMA WorkerTypeStep == CoreInv /\ [Next]_vars => WorkerTypeOK' /\ SocketOpen'
<1> SUFFICES ASSUME CoreInv, [Next]_vars PROVE WorkerTypeOK' /\ SocketOpen'
  OBVIOUS
<1> USE DEF CoreInv, TypeOK, WorkerTypeOK, SocketOpen
<1>a. NoHeader \in Headers /\ BlankPacket \in Packets
  BY PacketTypes DEF NoHeader, Headers, Wires, Blank, Text, NoSeq
<1>1. ASSUME WkrTop, UNCHANGED serverVars
      PROVE  WorkerTypeOK' /\ SocketOpen'
  BY <1>1 DEF WkrTop
<1>2. ASSUME WkrConnect, UNCHANGED serverVars
      PROVE  WorkerTypeOK' /\ SocketOpen'
  <2>1. fds' \in Nat /\ fds' >= 1
    BY <1>2 DEF WkrConnect
  <2>2. rx' \in Seq(Pieces) /\ todo' \in Seq(Pieces)
    BY <1>2 DEF WkrConnect
  <2> QED
    BY <1>2, <2>1, <2>2 DEF WkrConnect
<1>3. ASSUME WkrConnectFails, UNCHANGED serverVars
      PROVE  WorkerTypeOK' /\ SocketOpen'
  BY <1>3 DEF WkrConnectFails
<1>4. ASSUME WkrDrainLink, UNCHANGED serverVars
      PROVE  WorkerTypeOK' /\ SocketOpen'
  BY <1>4, HeadTailProperties DEF WkrDrainLink
<1>5. ASSUME WkrDrainNothing, UNCHANGED serverVars
      PROVE  WorkerTypeOK' /\ SocketOpen'
  BY <1>5 DEF WkrDrainNothing
<1>6. ASSUME WkrPop, UNCHANGED serverVars
      PROVE  WorkerTypeOK' /\ SocketOpen'
  BY <1>6, HeadTailProperties DEF WkrPop, SharedTypeOK
<1>7. ASSUME WkrPopNothing, UNCHANGED serverVars
      PROVE  WorkerTypeOK' /\ SocketOpen'
  <2>1. PacketOf(LINK, seq) \in Packets
    BY PacketTypes DEF SharedTypeOK, Wires, LINK, Blank, Text
  <2> QED
    BY <1>7, <2>1 DEF WkrPopNothing
<1>8. ASSUME WkrSend, UNCHANGED serverVars
      PROVE  WorkerTypeOK' /\ SocketOpen'
  <2>1. todo' \in Seq(Pieces)
    BY <1>8, PieceTypes, ConcatProperties DEF WkrSend
  <2> QED
    BY <1>8, <2>1 DEF WkrSend
<1>9. ASSUME WkrSendFails, UNCHANGED serverVars
      PROVE  WorkerTypeOK' /\ SocketOpen'
  BY <1>9, <1>a DEF WkrSendFails, CloseAndRetry
<1>10. ASSUME WkrRecvHeader, UNCHANGED serverVars
      PROVE  WorkerTypeOK' /\ SocketOpen'
  <2>1. hdr' \in Headers /\ garbage' \in Nat
    <3>1. CASE torn
      BY <1>10, <3>1, WorkerAssumption DEF WkrRecvHeader, ReadGarbage, Headers, JunkSeq
    <3>2. CASE ~torn
      <4>0. Head(rx) \in Pieces
        BY <1>10, HeadTailProperties DEF WkrRecvHeader
      <4>1. Head(rx).wire \in Wires /\ Head(rx).seq \in Int
        BY <4>0 DEF Pieces
      <4> QED
        BY <1>10, <3>2, <4>1 DEF WkrRecvHeader, Headers
    <3> QED
      BY <3>1, <3>2
  <2>2. rx' \in Seq(Pieces)
    BY <1>10, HeadTailProperties DEF WkrRecvHeader
  <2> QED
    BY <1>10, <2>1, <2>2 DEF WkrRecvHeader
<1>11. ASSUME WkrRetransmit, UNCHANGED serverVars
      PROVE  WorkerTypeOK' /\ SocketOpen'
  <2>3. torn' \in BOOLEAN
    BY <1>11 DEF WkrRetransmit
  <2>4. retry_cnt' \in {0, 1}
    BY <1>11 DEF WkrRetransmit
  <2> QED
    BY <1>11, <2>3, <2>4 DEF WkrRetransmit
<1>12. ASSUME WkrGiveUp, UNCHANGED serverVars
      PROVE  WorkerTypeOK' /\ SocketOpen'
  BY <1>12, <1>a DEF WkrGiveUp, CloseAndRetry
<1>13. ASSUME WkrDeref, UNCHANGED serverVars
      PROVE  WorkerTypeOK' /\ SocketOpen'
  <2>1. hdr' \in Headers /\ garbage' \in Nat
    BY <1>13, WorkerAssumption DEF WkrDeref, ReadGarbage, Headers, JunkSeq
  <2> QED
    BY <1>13, <2>1 DEF WkrDeref
<1>14. ASSUME WkrDies \/ WkrSigpipe, UNCHANGED serverVars
      PROVE  WorkerTypeOK' /\ SocketOpen'
  BY <1>14 DEF WkrDies, WkrSigpipe, workerVars
<1>15. ASSUME WkrLink, UNCHANGED serverVars
      PROVE  WorkerTypeOK' /\ SocketOpen'
  BY <1>15, <1>a DEF WkrLink
<1>16. ASSUME WkrHasBody, UNCHANGED serverVars
      PROVE  WorkerTypeOK' /\ SocketOpen'
  BY <1>16 DEF WkrHasBody
<1>17. ASSUME WkrHeaderOnly, UNCHANGED serverVars
      PROVE  WorkerTypeOK' /\ SocketOpen'
  <2>1. ResultPacket(hdr, "monostate") \in Packets
    BY PacketTypes DEF Bodies
  <2> QED
    BY <1>17, <1>a, <2>1 DEF WkrHeaderOnly
<1>18. ASSUME WkrAccepted, UNCHANGED serverVars
      PROVE  WorkerTypeOK' /\ SocketOpen'
  <2>1. ReadBody /\ rx' \in Seq(Pieces) /\ torn' \in BOOLEAN
    BY <1>18, BodyLeavesRest DEF WkrAccepted
  <2>2. pcW = "body"
    BY <2>1 DEF ReadBody
  <2> QED
    BY <1>18, <1>a, <2>1, <2>2 DEF WkrAccepted
<1>19. ASSUME WkrResult, UNCHANGED serverVars
      PROVE  WorkerTypeOK' /\ SocketOpen'
  <2>1. ResultPacket(hdr, "result") \in Packets
    BY PacketTypes DEF Bodies
  <2>2. ReadBody /\ rx' \in Seq(Pieces) /\ torn' \in BOOLEAN
    BY <1>19, BodyLeavesRest DEF WkrResult
  <2>3. pcW = "body"
    BY <2>2 DEF ReadBody
  <2> QED
    BY <1>19, <1>a, <2>1, <2>2, <2>3 DEF WkrResult
<1>20. ASSUME WkrBodyFails, UNCHANGED serverVars
      PROVE  WorkerTypeOK' /\ SocketOpen'
  BY <1>20, <1>a DEF WkrBodyFails, CloseAndRetry
<1>21. ASSUME WkrReply, UNCHANGED serverVars
      PROVE  WorkerTypeOK' /\ SocketOpen'
  BY <1>21, <1>a DEF WkrReply
<1>22. ASSUME SmscDeliver, UNCHANGED serverVars
      PROVE  WorkerTypeOK' /\ SocketOpen'
  BY <1>22, HeadTailProperties DEF SmscDeliver
<1>23. ASSUME SmscLink, UNCHANGED serverVars
      PROVE  WorkerTypeOK' /\ SocketOpen'
  <2>1. todo' \in Seq(Pieces)
    BY <1>23, PieceTypes, InsertLinkTypes DEF SmscLink
  <2> QED
    BY <1>23, <2>1 DEF SmscLink
<1>24. ASSUME SmscDrop, UNCHANGED serverVars
      PROVE  WorkerTypeOK' /\ SocketOpen'
  BY <1>24 DEF SmscDrop
<1>25. CASE ClientStep
  BY <1>25 DEF ClientStep, workerVars
<1>26. CASE ServerThread
  BY <1>26 DEF ServerThread, workerVars
<1>27. CASE Main
  BY <1>27 DEF Main, workerVars
<1>28. CASE UNCHANGED vars
  BY <1>28 DEF vars, workerVars
<1> QED
  BY <1>1, <1>2, <1>3, <1>4, <1>5, <1>6, <1>7, <1>8, <1>9, <1>10, <1>11,
     <1>12, <1>13, <1>14, <1>15, <1>16, <1>17, <1>18, <1>19, <1>20, <1>21,
     <1>22, <1>23, <1>24, <1>25, <1>26, <1>27, <1>28 DEF Next, WorkerThread,
     WorkerStep, Smsc, SmscStep

----------------------------------------------------------------------------
(* The REP socket *)

\* Only the steps of the clients and of the zmq thread move a request, and
\* each moves it from one place to the next.
LEMMA AccountStep == CoreInv /\ [Next]_vars => ClientsAccounted'
<1> SUFFICES ASSUME CoreInv, [Next]_vars PROVE ClientsAccounted'
  OBVIOUS
<1> USE ClientsAssumption DEF CoreInv, TypeOK, ServerTypeOK, ClientsAccounted
<1>1. ASSUME NEW c \in Clients, ClientSend(c), UNCHANGED workerVars
      PROVE  ClientsAccounted'
  BY <1>1 DEF ClientSend, sharedVars
<1>2. ASSUME NEW c \in Clients, ClientRecv(c), UNCHANGED workerVars
      PROVE  ClientsAccounted'
  BY <1>2 DEF ClientRecv, sharedVars
<1>3. ASSUME SrvTop, UNCHANGED workerVars
      PROVE  ClientsAccounted'
  BY <1>3 DEF SrvTop, sharedVars
<1>4. ASSUME SrvRecv, UNCHANGED workerVars
      PROVE  ClientsAccounted'
  BY <1>4 DEF SrvRecv, sharedVars
<1>5. ASSUME SrvRecvTimeout, UNCHANGED workerVars
      PROVE  ClientsAccounted'
  BY <1>5 DEF SrvRecvTimeout, sharedVars
<1>6. ASSUME SrvRecvThrows, UNCHANGED workerVars
      PROVE  ClientsAccounted'
  BY <1>6 DEF SrvRecvThrows, serverVars
<1>7. ASSUME SrvParse, UNCHANGED workerVars
      PROVE  ClientsAccounted'
  BY <1>7 DEF SrvParse, NextRound, sharedVars
<1>8. ASSUME SrvPush, UNCHANGED workerVars
      PROVE  ClientsAccounted'
  BY <1>8 DEF SrvPush, sharedVars
<1>9. ASSUME SrvPop, UNCHANGED workerVars
      PROVE  ClientsAccounted'
  BY <1>9 DEF SrvPop, sharedVars
<1>10. ASSUME SrvPopNothing, UNCHANGED workerVars
      PROVE  ClientsAccounted'
  BY <1>10 DEF SrvPopNothing, NextRound, sharedVars
<1>11. ASSUME Running, SrvSend, UNCHANGED workerVars
      PROVE  ClientsAccounted'
  <2>1. /\ owed \in Clients /\ owed' = NoClient /\ owed \notin pipe
        /\ pipe' = pipe /\ pcS' = "top" /\ fate' = fate
        /\ cst' = [cst EXCEPT ![owed] = "replied"]
    BY <1>11 DEF SrvSend, NextRound, sharedVars
  <2>2. fate' # "efsm"
    BY <1>11, <2>1 DEF Running
  <2>3. ASSUME NEW c \in Clients
        PROVE  cst'[c] = "sent" <=> (c \in pipe' \/ owed' = c)
    <3>1. CASE c = owed
      BY <2>1, <3>1, ClientsAssumption
    <3>2. CASE c # owed
      BY <2>1, <3>2, ClientsAssumption
    <3> QED
      BY <3>1, <3>2
  <2> QED
    BY <2>1, <2>2, <2>3, ClientsAssumption
<1>12. ASSUME SrvSendThrows, UNCHANGED workerVars
      PROVE  ClientsAccounted'
  BY <1>12 DEF SrvSendThrows, NextRound, sharedVars
<1>13. ASSUME WkrTop, UNCHANGED serverVars
      PROVE  ClientsAccounted'
  BY <1>13 DEF WkrTop, sharedVars, serverVars
<1>14. ASSUME WkrConnect, UNCHANGED serverVars
      PROVE  ClientsAccounted'
  BY <1>14 DEF WkrConnect, sharedVars, serverVars
<1>15. ASSUME WkrConnectFails, UNCHANGED serverVars
      PROVE  ClientsAccounted'
  BY <1>15 DEF WkrConnectFails, sharedVars, serverVars
<1>16. ASSUME WkrDrainLink, UNCHANGED serverVars
      PROVE  ClientsAccounted'
  BY <1>16 DEF WkrDrainLink, sharedVars, serverVars
<1>17. ASSUME WkrDrainNothing, UNCHANGED serverVars
      PROVE  ClientsAccounted'
  BY <1>17 DEF WkrDrainNothing, sharedVars, serverVars
<1>18. ASSUME WkrPop, UNCHANGED serverVars
      PROVE  ClientsAccounted'
  BY <1>18 DEF WkrPop, sharedVars, serverVars
<1>19. ASSUME WkrPopNothing, UNCHANGED serverVars
      PROVE  ClientsAccounted'
  BY <1>19 DEF WkrPopNothing, sharedVars, serverVars
<1>20. ASSUME WkrSend, UNCHANGED serverVars
      PROVE  ClientsAccounted'
  BY <1>20 DEF WkrSend, sharedVars, serverVars
<1>21. ASSUME WkrSendFails, UNCHANGED serverVars
      PROVE  ClientsAccounted'
  BY <1>21 DEF WkrSendFails, CloseAndRetry, sharedVars, serverVars
<1>22. ASSUME WkrRecvHeader, UNCHANGED serverVars
      PROVE  ClientsAccounted'
  BY <1>22 DEF WkrRecvHeader, ReadGarbage, sharedVars, serverVars
<1>23. ASSUME WkrRetransmit, UNCHANGED serverVars
      PROVE  ClientsAccounted'
  BY <1>23 DEF WkrRetransmit, sharedVars, serverVars
<1>24. ASSUME WkrGiveUp, UNCHANGED serverVars
      PROVE  ClientsAccounted'
  BY <1>24 DEF WkrGiveUp, CloseAndRetry, sharedVars, serverVars
<1>25. ASSUME WkrDeref, UNCHANGED serverVars
      PROVE  ClientsAccounted'
  BY <1>25 DEF WkrDeref, ReadGarbage, sharedVars, serverVars
<1>26. ASSUME WkrDies \/ WkrSigpipe, UNCHANGED serverVars
      PROVE  ClientsAccounted'
  BY <1>26 DEF WkrDies, WkrSigpipe, serverVars
<1>27. ASSUME WkrLink, UNCHANGED serverVars
      PROVE  ClientsAccounted'
  BY <1>27 DEF WkrLink, sharedVars, serverVars
<1>28. ASSUME WkrHasBody, UNCHANGED serverVars
      PROVE  ClientsAccounted'
  BY <1>28 DEF WkrHasBody, sharedVars, serverVars
<1>29. ASSUME WkrHeaderOnly, UNCHANGED serverVars
      PROVE  ClientsAccounted'
  BY <1>29 DEF WkrHeaderOnly, sharedVars, serverVars
<1>30. ASSUME WkrAccepted, UNCHANGED serverVars
      PROVE  ClientsAccounted'
  BY <1>30 DEF WkrAccepted, ReadBody, sharedVars, serverVars
<1>31. ASSUME WkrResult, UNCHANGED serverVars
      PROVE  ClientsAccounted'
  BY <1>31 DEF WkrResult, ReadBody, sharedVars, serverVars
<1>32. ASSUME WkrBodyFails, UNCHANGED serverVars
      PROVE  ClientsAccounted'
  BY <1>32 DEF WkrBodyFails, CloseAndRetry, sharedVars, serverVars
<1>33. ASSUME WkrReply, UNCHANGED serverVars
      PROVE  ClientsAccounted'
  BY <1>33 DEF WkrReply, sharedVars, serverVars
<1>34. CASE Smsc
  BY <1>34 DEF Smsc, SmscStep, SmscDeliver, SmscLink, SmscDrop, serverVars, sharedVars
<1>35. CASE Main
  BY <1>35 DEF Main, StopServer, StopWorker, serverVars
<1>36. CASE UNCHANGED vars
  BY <1>36 DEF vars, serverVars, sharedVars
<1> QED
  BY <1>1, <1>2, <1>3, <1>4, <1>5, <1>6, <1>7, <1>8, <1>9, <1>10, <1>11,
     <1>12, <1>13, <1>14, <1>15, <1>16, <1>17, <1>18, <1>19, <1>20, <1>21,
     <1>22, <1>23, <1>24, <1>25, <1>26, <1>27, <1>28, <1>29, <1>30, <1>31,
     <1>32, <1>33, <1>34, <1>35, <1>36 DEF Next, ClientStep, ServerThread,
     ServerStep, WorkerThread, WorkerStep

----------------------------------------------------------------------------
(* The connection *)

\* What the SMSC answers to a packet carries the packet's number.
LEMMA AnswersCarrySeq ==
  \A p \in Packets : \A i \in DOMAIN Answers(p) : Answers(p)[i].seq = p.seq
BY DEF Answers, Hdr, Bdy, Packets

\* A new connection starts empty, an exchange adds only answers to the packet
\* just sent, and the packet changes only on a connection on which nothing
\* has been answered yet.
LEMMA CurrentStep == CoreInv /\ [Next]_vars => AnswersAreCurrent'
<1> SUFFICES ASSUME CoreInv, [Next]_vars PROVE AnswersAreCurrent'
  OBVIOUS
<1> USE DEF CoreInv, TypeOK, WorkerTypeOK, AnswersAreCurrent, Expected, Exchanging
<1>1. ASSUME WkrTop, UNCHANGED serverVars
      PROVE  AnswersAreCurrent'
  BY <1>1 DEF WkrTop
<1>2. ASSUME WkrConnect, UNCHANGED serverVars
      PROVE  AnswersAreCurrent'
  BY <1>2 DEF WkrConnect
<1>3. ASSUME WkrConnectFails, UNCHANGED serverVars
      PROVE  AnswersAreCurrent'
  BY <1>3 DEF WkrConnectFails
<1>4. ASSUME WkrDrainLink, UNCHANGED serverVars
      PROVE  AnswersAreCurrent'
  <2>1. \A i \in DOMAIN rx' : Expected(rx[i + 1]) /\ rx'[i] = rx[i + 1]
    BY <1>4, HeadTailProperties DEF WkrDrainLink
  <2> QED
    BY <1>4, <2>1 DEF WkrDrainLink
<1>5. ASSUME WkrDrainNothing, UNCHANGED serverVars
      PROVE  AnswersAreCurrent'
  BY <1>5 DEF WkrDrainNothing
<1>6. ASSUME WkrPop, UNCHANGED serverVars
      PROVE  AnswersAreCurrent'
  BY <1>6 DEF WkrPop
<1>7. ASSUME WkrPopNothing, UNCHANGED serverVars
      PROVE  AnswersAreCurrent'
  BY <1>7 DEF WkrPopNothing
<1>8. ASSUME WkrSend, UNCHANGED serverVars
      PROVE  AnswersAreCurrent'
  <2>1. Answers(cur) \in Seq(Pieces)
    BY PieceTypes
  <2>2. \A i \in DOMAIN todo' :
          \/ i \in DOMAIN todo /\ todo'[i] = todo[i]
          \/ \E j \in DOMAIN Answers(cur) : todo'[i] = Answers(cur)[j]
    BY <1>8, <2>1, ConcatProperties DEF WkrSend
  <2>3. \A i \in DOMAIN todo' :
          \/ todo'[i].wire = LINK /\ todo'[i].seq = PeerSeq
          \/ todo'[i].seq = cur.seq
    BY <1>8, <2>2, AnswersCarrySeq DEF WkrSend
  <2>4. \A i \in DOMAIN rx : rx[i].wire = LINK /\ rx[i].seq = PeerSeq
    BY <1>8 DEF WkrSend
  <2> QED
    BY <1>8, <2>3, <2>4 DEF WkrSend
<1>9. ASSUME WkrSendFails, UNCHANGED serverVars
      PROVE  AnswersAreCurrent'
  BY <1>9 DEF WkrSendFails, CloseAndRetry
<1>10. ASSUME WkrRecvHeader, UNCHANGED serverVars
      PROVE  AnswersAreCurrent'
  <2>1. \A i \in DOMAIN rx' : Expected(rx[i + 1]) /\ rx'[i] = rx[i + 1]
    BY <1>10, HeadTailProperties DEF WkrRecvHeader
  <2>2. Expected(Head(rx))
    BY <1>10 DEF WkrRecvHeader
  <2>3. \/ hdr'.seq \in {JunkSeq, cur.seq}
        \/ hdr'.wire = LINK /\ hdr'.seq = PeerSeq
    <3>1. CASE torn
      BY <1>10, <3>1 DEF WkrRecvHeader, ReadGarbage
    <3>2. CASE ~torn
      BY <1>10, <2>2, <3>2 DEF WkrRecvHeader
    <3> QED
      BY <3>1, <3>2
  <2> QED
    BY <1>10, <2>1, <2>3 DEF WkrRecvHeader
<1>11. ASSUME WkrRetransmit, UNCHANGED serverVars
      PROVE  AnswersAreCurrent'
  BY <1>11 DEF WkrRetransmit
<1>12. ASSUME WkrGiveUp, UNCHANGED serverVars
      PROVE  AnswersAreCurrent'
  BY <1>12 DEF WkrGiveUp, CloseAndRetry
<1>13. ASSUME WkrDeref, UNCHANGED serverVars
      PROVE  AnswersAreCurrent'
  BY <1>13 DEF WkrDeref, ReadGarbage
<1>14. ASSUME WkrDies \/ WkrSigpipe, UNCHANGED serverVars
      PROVE  AnswersAreCurrent'
  BY <1>14 DEF WkrDies, WkrSigpipe, workerVars
<1>15. ASSUME WkrLink, UNCHANGED serverVars
      PROVE  AnswersAreCurrent'
  BY <1>15 DEF WkrLink
<1>16. ASSUME WkrHasBody, UNCHANGED serverVars
      PROVE  AnswersAreCurrent'
  BY <1>16 DEF WkrHasBody
<1>17. ASSUME WkrHeaderOnly, UNCHANGED serverVars
      PROVE  AnswersAreCurrent'
  <2>1. hdr.seq \in {JunkSeq, cur.seq}
    BY <1>17 DEF WkrHeaderOnly, msg_type_enum, LINK, MsgTypes, REQ_RESULT_ACK
  <2> QED
    BY <1>17, <2>1 DEF WkrHeaderOnly, ResultPacket
<1>18. ASSUME WkrAccepted, UNCHANGED serverVars
      PROVE  AnswersAreCurrent'
  <2>1. \A i \in DOMAIN rx' : \E j \in DOMAIN rx : rx'[i] = rx[j]
    BY <1>18, BodyLeavesRest DEF WkrAccepted
  <2>2. pcW = "body"
    BY <1>18 DEF WkrAccepted, ReadBody
  <2> QED
    BY <1>18, <2>1, <2>2 DEF WkrAccepted
<1>19. ASSUME WkrResult, UNCHANGED serverVars
      PROVE  AnswersAreCurrent'
  <2>1. \A i \in DOMAIN rx' : \E j \in DOMAIN rx : rx'[i] = rx[j]
    BY <1>19, BodyLeavesRest DEF WkrResult
  <2>2. hdr.seq \in {JunkSeq, cur.seq}
    BY <1>19 DEF WkrResult, ReadBody, msg_type_enum, LINK, REQ_RESULT, MsgTypes, UNKNOWN, Headers
  <2>3. pcW = "body"
    BY <1>19 DEF WkrResult, ReadBody
  <2> QED
    BY <1>19, <2>1, <2>2, <2>3 DEF WkrResult, ResultPacket
<1>20. ASSUME WkrBodyFails, UNCHANGED serverVars
      PROVE  AnswersAreCurrent'
  BY <1>20 DEF WkrBodyFails, CloseAndRetry
<1>21. ASSUME WkrReply, UNCHANGED serverVars
      PROVE  AnswersAreCurrent'
  BY <1>21 DEF WkrReply
<1>22. ASSUME SmscDeliver, UNCHANGED serverVars
      PROVE  AnswersAreCurrent'
  <2>1. \A i \in DOMAIN todo' : Expected(todo[i + 1]) /\ todo'[i] = todo[i + 1]
    BY <1>22, HeadTailProperties DEF SmscDeliver
  <2>2. Expected(Head(todo)) /\ Head(todo) \in Pieces
    BY <1>22, HeadTailProperties DEF SmscDeliver
  <2>3. \A i \in DOMAIN rx' : Expected(rx'[i])
    BY <1>22, <2>2 DEF SmscDeliver
  <2> QED
    BY <1>22, <2>1, <2>3 DEF SmscDeliver
<1>23. ASSUME SmscLink, UNCHANGED serverVars
      PROVE  AnswersAreCurrent'
  <2> DEFINE S == {x \in Pieces : Expected(x)}
  <2>1. todo \in Seq(S)
    <3>1. Len(todo) \in Nat /\ todo \in [1 .. Len(todo) -> Pieces]
      BY LenProperties, ElementOfSeq
    <3>2. \A i \in 1 .. Len(todo) : todo[i] \in S
      BY <3>1
    <3>3. todo \in [1 .. Len(todo) -> S]
      BY <3>1, <3>2
    <3> QED
      BY <3>1, <3>3, SeqDef
  <2>2. Hdr(LINK, PeerSeq) \in S
    <3>1. Hdr(LINK, PeerSeq).wire = LINK /\ Hdr(LINK, PeerSeq).seq = PeerSeq
      BY DEF Hdr
    <3> QED
      BY <3>1, PieceTypes
  <2>3. todo' \in Seq(S)
    BY <1>23, <2>1, <2>2, InsertLinkTypes DEF SmscLink
  <2>4. \A i \in DOMAIN todo' : todo'[i] \in S
    BY <2>3, ElementOfSeq, LenProperties
  <2> QED
    BY <1>23, <2>4 DEF SmscLink
<1>24. ASSUME SmscDrop, UNCHANGED serverVars
      PROVE  AnswersAreCurrent'
  BY <1>24 DEF SmscDrop
<1>25. CASE ClientStep
  BY <1>25 DEF ClientStep, workerVars
<1>26. CASE ServerThread
  BY <1>26 DEF ServerThread, workerVars
<1>27. CASE Main
  BY <1>27 DEF Main, workerVars
<1>28. CASE UNCHANGED vars
  BY <1>28 DEF vars, workerVars
<1> QED
  BY <1>1, <1>2, <1>3, <1>4, <1>5, <1>6, <1>7, <1>8, <1>9, <1>10, <1>11,
     <1>12, <1>13, <1>14, <1>15, <1>16, <1>17, <1>18, <1>19, <1>20, <1>21,
     <1>22, <1>23, <1>24, <1>25, <1>26, <1>27, <1>28 DEF Next, WorkerThread,
     WorkerStep, Smsc, SmscStep

----------------------------------------------------------------------------
\* Nothing has been sent, asked or received.
LEMMA InitCore == Init => CoreInv
<1> SUFFICES ASSUME Init PROVE CoreInv
  OBVIOUS
<1> USE PacketTypes DEF Init, SharedInit, ServerInit, WorkerInit
<1>0. << >> \in Seq(Packets) /\ << >> \in Seq(Pieces)
  OBVIOUS
<1>1. SharedTypeOK
  <2>1. outq \in Seq(Packets) /\ inq \in Seq(Packets)
    BY <1>0
  <2>2. seq \in Nat \ {0} /\ fate \in Fates
    BY DEF Fates
  <2>3. stopS \in BOOLEAN /\ stopW \in BOOLEAN
    OBVIOUS
  <2> QED
    BY <2>1, <2>2, <2>3 DEF SharedTypeOK
<1>2. ServerTypeOK
  BY ClientsAssumption DEF ServerTypeOK, Wires, Blank, Text
<1>3. WorkerTypeOK
  <2>1. NoHeader \in Headers
    BY DEF NoHeader, Headers, Wires, Blank, Text, NoSeq
  <2> QED
    BY <1>0, <2>1 DEF WorkerTypeOK
<1>4. SocketOpen /\ ClientsAccounted /\ AnswersAreCurrent
  BY ClientsAssumption DEF SocketOpen, ClientsAccounted, AnswersAreCurrent
<1> QED
  BY <1>1, <1>2, <1>3, <1>4 DEF CoreInv, TypeOK

LEMMA CoreStep == CoreInv /\ [Next]_vars => CoreInv'
BY SharedTypeStep, ServerTypeStep, WorkerTypeStep, AccountStep, CurrentStep
   DEF CoreInv, TypeOK

\* CoreInv holds in every reachable state.
THEOREM CoreInvariance == Spec => []CoreInv
BY InitCore, CoreStep, PTL DEF Spec

----------------------------------------------------------------------------
(* Sequence numbers *)

\* The sequence numbers in a queue; no positive one is there twice.
SeqsOf(s) == {s[i].seq : i \in DOMAIN s}
Distinct(s) ==
  \A i, j \in DOMAIN s : s[i].seq = s[j].seq /\ s[i].seq > 0 => i = j

\* Where the packet in cur has been sent and may be put back.
Waiting == {"recv", "deref", "switch", "body"}

\* What makes NoDoubleQueueing inductive: every number in use has been issued,
\* the packet that the zmq thread is about to push is not the worker's, and
\* the worker's packet is back in outq_ only after retry_cnt_ has counted it.
Numbered ==
  /\ Distinct(outq)
  /\ \A n \in SeqsOf(outq) : n < seq
  /\ cur.seq < seq
  /\ pkt.seq < seq
  /\ pcS = "push" => /\ pkt.seq > 0
                     /\ pkt.seq # cur.seq
                     /\ pkt.seq \notin SeqsOf(outq)
  /\ pcW = "send" /\ cur.seq > 0 => cur.seq \notin SeqsOf(outq)
  /\ pcW \in Waiting /\ cur.seq > 0 /\ cur.seq \in SeqsOf(outq) => retry_cnt = 1

LEMMA AppendSeqs ==
  ASSUME NEW s \in Seq(Packets), NEW p \in Packets
  PROVE  /\ SeqsOf(Append(s, p)) = SeqsOf(s) \cup {p.seq}
         /\ Distinct(s) /\ (p.seq > 0 => p.seq \notin SeqsOf(s))
              => Distinct(Append(s, p))
<1> DEFINE t == Append(s, p)
<1>1. /\ DOMAIN t = DOMAIN s \cup {Len(s) + 1}
      /\ \A i \in DOMAIN s : t[i] = s[i] /\ i # Len(s) + 1
      /\ t[Len(s) + 1] = p
  OBVIOUS
<1> HIDE DEF t
<1>2. SeqsOf(t) = SeqsOf(s) \cup {p.seq}
  BY <1>1 DEF SeqsOf
<1>3. ASSUME Distinct(s), p.seq > 0 => p.seq \notin SeqsOf(s)
      PROVE  Distinct(t)
  BY <1>1, <1>3 DEF Distinct, SeqsOf
<1> QED
  BY <1>2, <1>3 DEF t

LEMMA TailSeqs ==
  ASSUME NEW s \in Seq(Packets), s # << >>
  PROVE  /\ Head(s).seq \in SeqsOf(s)
         /\ SeqsOf(Tail(s)) \subseteq SeqsOf(s)
         /\ Distinct(s) => /\ Distinct(Tail(s))
                           /\ Head(s).seq > 0 => Head(s).seq \notin SeqsOf(Tail(s))
<1> DEFINE t == Tail(s)
<1>1. /\ \A i \in DOMAIN t : i + 1 \in DOMAIN s /\ t[i] = s[i + 1] /\ i \in Nat \ {0}
      /\ 1 \in DOMAIN s /\ Head(s) = s[1]
  OBVIOUS
<1> HIDE DEF t
<1>2. Head(s).seq \in SeqsOf(s) /\ SeqsOf(t) \subseteq SeqsOf(s)
  BY <1>1 DEF SeqsOf
<1>3. ASSUME Distinct(s) PROVE Distinct(t)
  <2> SUFFICES ASSUME NEW i \in DOMAIN t, NEW j \in DOMAIN t,
                      t[i].seq = t[j].seq, t[i].seq > 0
               PROVE  i = j
    BY DEF Distinct
  <2>1. i + 1 = j + 1
    BY <1>1, <1>3 DEF Distinct
  <2> QED
    BY <1>1, <2>1
<1>4. ASSUME Distinct(s), Head(s).seq > 0 PROVE Head(s).seq \notin SeqsOf(t)
  <2> SUFFICES ASSUME NEW i \in DOMAIN t, t[i].seq = Head(s).seq PROVE FALSE
    BY DEF SeqsOf
  <2>1. i + 1 = 1
    BY <1>1, <1>4 DEF Distinct
  <2> QED
    BY <1>1, <2>1
<1> QED
  BY <1>2, <1>3, <1>4 DEF t

\* An unnumbered acknowledgement disturbs nothing.
LEMMA BlankAck ==
  ASSUME NEW t \in {LINK_ACK, REQ_RESULT_ACK}, NEW n
  PROVE  PacketOf(t, n) = BlankPacket /\ BlankPacket.seq = 0
BY DEF PacketOf, BlankPacket, NoSeq, LINK, LINK_ACK, REQ_RESULT_ACK

LEMMA NumberedStep ==
  CoreInv /\ Numbered /\ [Next]_vars => Numbered'
<1> SUFFICES ASSUME CoreInv, Numbered, [Next]_vars PROVE Numbered'
  OBVIOUS
<1>a. /\ outq \in Seq(Packets) /\ seq \in Nat \ {0} /\ retry_cnt \in {0, 1}
      /\ cur \in Packets /\ pkt \in Packets /\ cur.seq \in Int /\ pkt.seq \in Int
  BY DEF CoreInv, TypeOK, SharedTypeOK, ServerTypeOK, WorkerTypeOK, Packets
<1>b. SeqsOf(outq) \subseteq Int
  <2>1. \A i \in DOMAIN outq : outq[i] \in Packets
    BY <1>a, ElementOfSeq
  <2> QED
    BY <2>1 DEF SeqsOf, Packets
<1>c. BlankPacket \in Packets /\ BlankPacket.seq = 0
  BY PacketTypes DEF BlankPacket, NoSeq
<1> USE DEF Numbered, Waiting
<1>1. ASSUME NEW c \in Clients, ClientSend(c), UNCHANGED workerVars
      PROVE  Numbered'
  BY <1>1 DEF ClientSend, sharedVars, workerVars
<1>2. ASSUME NEW c \in Clients, ClientRecv(c), UNCHANGED workerVars
      PROVE  Numbered'
  BY <1>2 DEF ClientRecv, sharedVars, workerVars
<1>3. ASSUME SrvTop, UNCHANGED workerVars
      PROVE  Numbered'
  BY <1>3, <1>a, <1>c DEF SrvTop, sharedVars, workerVars
<1>4. ASSUME SrvRecv, UNCHANGED workerVars
      PROVE  Numbered'
  BY <1>4, <1>a, <1>c DEF SrvRecv, sharedVars, workerVars
<1>5. ASSUME SrvRecvTimeout, UNCHANGED workerVars
      PROVE  Numbered'
  BY <1>5, <1>a, <1>c DEF SrvRecvTimeout, sharedVars, workerVars
<1>6. ASSUME SrvRecvThrows, UNCHANGED workerVars
      PROVE  Numbered'
  BY <1>6, <1>a, <1>c DEF SrvRecvThrows, sharedVars, workerVars, serverVars
<1>7. ASSUME SrvPop, UNCHANGED workerVars
      PROVE  Numbered'
  BY <1>7, <1>a, <1>c DEF SrvPop, sharedVars, workerVars
<1>8. ASSUME SrvPopNothing, UNCHANGED workerVars
      PROVE  Numbered'
  BY <1>8, <1>a, <1>c DEF SrvPopNothing, sharedVars, workerVars, NextRound
<1>9. ASSUME SrvSend, UNCHANGED workerVars
      PROVE  Numbered'
  BY <1>9, <1>a, <1>c DEF SrvSend, sharedVars, workerVars, NextRound
<1>10. ASSUME SrvSendThrows, UNCHANGED workerVars
      PROVE  Numbered'
  BY <1>10, <1>a, <1>c DEF SrvSendThrows, sharedVars, workerVars, NextRound
<1>11. ASSUME SrvParse, UNCHANGED workerVars
      PROVE  Numbered'
  <2>1. outq' = outq /\ cur' = cur /\ pcW' = pcW /\ retry_cnt' = retry_cnt
        /\ seq' \in {seq, seq + 1}
    BY <1>11 DEF SrvParse, workerVars
  <2>2. \/ pcS' # "push" /\ pkt' = BlankPacket
        \/ pkt'.seq = seq /\ seq' = seq + 1
    BY <1>11 DEF SrvParse, NextRound, parse_json, parse_json_throws, takes_seq,
                 NotJson, Text, LINK, SN_REGINFO
  <2>3. \A k \in SeqsOf(outq) : k < seq + 1 /\ k # seq
    BY <1>a, <1>b
  <2>4. cur.seq < seq + 1 /\ cur.seq # seq
    BY <1>a
  <2>5. CASE pcS' # "push" /\ pkt' = BlankPacket
    BY <1>a, <1>c, <2>1, <2>3, <2>4, <2>5
  <2>6. CASE pkt'.seq = seq /\ seq' = seq + 1
    BY <1>a, <2>1, <2>3, <2>4, <2>6
  <2> QED
    BY <2>2, <2>5, <2>6
<1>12. ASSUME SrvPush, UNCHANGED workerVars
      PROVE  Numbered'
  <2>1. /\ outq' = Append(outq, pkt) /\ pcS = "push" /\ pcS' = "wait"
        /\ UNCHANGED <<cur, pkt, pcW, retry_cnt, seq>>
    BY <1>12 DEF SrvPush, workerVars
  <2>2. SeqsOf(outq') = SeqsOf(outq) \cup {pkt.seq} /\ Distinct(outq')
    BY <1>a, <2>1, AppendSeqs
  <2> QED
    BY <1>a, <2>1, <2>2
<1>13. ASSUME WkrTop, UNCHANGED serverVars
      PROVE  Numbered'
  BY <1>13, <1>a DEF WkrTop, sharedVars, serverVars
<1>14. ASSUME WkrConnect, UNCHANGED serverVars
      PROVE  Numbered'
  BY <1>14, <1>a DEF WkrConnect, sharedVars, serverVars
<1>15. ASSUME WkrConnectFails, UNCHANGED serverVars
      PROVE  Numbered'
  BY <1>15, <1>a DEF WkrConnectFails, sharedVars, serverVars
<1>16. ASSUME WkrDrainNothing, UNCHANGED serverVars
      PROVE  Numbered'
  BY <1>16, <1>a DEF WkrDrainNothing, sharedVars, serverVars
<1>17. ASSUME WkrSend, UNCHANGED serverVars
      PROVE  Numbered'
  BY <1>17, <1>a DEF WkrSend, sharedVars, serverVars
<1>18. ASSUME WkrSendFails, UNCHANGED serverVars
      PROVE  Numbered'
  BY <1>18, <1>a DEF WkrSendFails, sharedVars, serverVars, CloseAndRetry
<1>19. ASSUME WkrRecvHeader, UNCHANGED serverVars
      PROVE  Numbered'
  BY <1>19, <1>a DEF WkrRecvHeader, sharedVars, serverVars
<1>20. ASSUME WkrGiveUp, UNCHANGED serverVars
      PROVE  Numbered'
  BY <1>20, <1>a DEF WkrGiveUp, sharedVars, serverVars, CloseAndRetry
<1>21. ASSUME WkrDeref, UNCHANGED serverVars
      PROVE  Numbered'
  BY <1>21, <1>a DEF WkrDeref, sharedVars, serverVars
<1>22. ASSUME WkrDies \/ WkrSigpipe, UNCHANGED serverVars
      PROVE  Numbered'
  BY <1>22, <1>a DEF WkrDies, WkrSigpipe, sharedVars, serverVars, workerVars
<1>23. ASSUME WkrHasBody, UNCHANGED serverVars
      PROVE  Numbered'
  BY <1>23, <1>a DEF WkrHasBody, sharedVars, serverVars
<1>24. ASSUME WkrHeaderOnly, UNCHANGED serverVars
      PROVE  Numbered'
  BY <1>24, <1>a DEF WkrHeaderOnly, sharedVars, serverVars
<1>25. ASSUME WkrAccepted, UNCHANGED serverVars
      PROVE  Numbered'
  BY <1>25, <1>a DEF WkrAccepted, sharedVars, serverVars, ReadBody
<1>26. ASSUME WkrBodyFails, UNCHANGED serverVars
      PROVE  Numbered'
  BY <1>26, <1>a DEF WkrBodyFails, sharedVars, serverVars, CloseAndRetry
<1>27. ASSUME WkrReply, UNCHANGED serverVars
      PROVE  Numbered'
  BY <1>27, <1>a DEF WkrReply, sharedVars, serverVars
<1>28. ASSUME SmscDeliver, UNCHANGED serverVars
      PROVE  Numbered'
  BY <1>28, <1>a DEF SmscDeliver, sharedVars, serverVars
<1>29. ASSUME SmscLink, UNCHANGED serverVars
      PROVE  Numbered'
  BY <1>29, <1>a DEF SmscLink, sharedVars, serverVars
<1>30. ASSUME SmscDrop, UNCHANGED serverVars
      PROVE  Numbered'
  BY <1>30, <1>a DEF SmscDrop, sharedVars, serverVars
<1>31. ASSUME WkrDrainLink, UNCHANGED serverVars
      PROVE  Numbered'
  <2>1. /\ outq' = Append(outq, BlankPacket)
        /\ pcW' \in Waiting => pcW \in Waiting
        /\ pcW' # "send"
        /\ UNCHANGED <<cur, pkt, pcS, retry_cnt, seq>>
    BY <1>31, BlankAck DEF WkrDrainLink, serverVars
  <2>2. SeqsOf(outq') = SeqsOf(outq) \cup {0} /\ Distinct(outq')
    BY <1>a, <1>c, <2>1, AppendSeqs
  <2> QED
    BY <1>a, <2>1, <2>2
<1>32. ASSUME WkrLink, UNCHANGED serverVars
      PROVE  Numbered'
  <2>1. /\ outq' = Append(outq, BlankPacket)
        /\ pcW' \in Waiting => pcW \in Waiting
        /\ pcW' # "send"
        /\ UNCHANGED <<cur, pkt, pcS, retry_cnt, seq>>
    BY <1>32, BlankAck DEF WkrLink, serverVars
  <2>2. SeqsOf(outq') = SeqsOf(outq) \cup {0} /\ Distinct(outq')
    BY <1>a, <1>c, <2>1, AppendSeqs
  <2> QED
    BY <1>a, <2>1, <2>2
<1>33. ASSUME WkrResult, UNCHANGED serverVars
      PROVE  Numbered'
  <2>1. /\ outq' = Append(outq, BlankPacket)
        /\ pcW' \in Waiting => pcW \in Waiting
        /\ pcW' # "send"
        /\ UNCHANGED <<cur, pkt, pcS, retry_cnt, seq>>
    BY <1>33, BlankAck DEF WkrResult, serverVars, ReadBody
  <2>2. SeqsOf(outq') = SeqsOf(outq) \cup {0} /\ Distinct(outq')
    BY <1>a, <1>c, <2>1, AppendSeqs
  <2> QED
    BY <1>a, <2>1, <2>2
<1>34. ASSUME WkrPop, UNCHANGED serverVars
      PROVE  Numbered'
  <2>1. /\ outq # << >> /\ outq' = Tail(outq) /\ cur' = Head(outq)
        /\ pcW' = "send" /\ UNCHANGED <<pkt, pcS, seq>>
    BY <1>34 DEF WkrPop, serverVars
  <2>2. /\ cur'.seq \in SeqsOf(outq) /\ SeqsOf(outq') \subseteq SeqsOf(outq)
        /\ Distinct(outq')
        /\ cur'.seq > 0 => cur'.seq \notin SeqsOf(outq')
    BY <1>a, <2>1, TailSeqs
  <2> QED
    BY <1>a, <2>1, <2>2
<1>35. ASSUME WkrPopNothing, UNCHANGED serverVars
      PROVE  Numbered'
  <2>1. /\ cur'.seq = seq /\ seq' = seq + 1 /\ pcW' = "send"
        /\ UNCHANGED <<outq, pkt, pcS>>
    BY <1>35 DEF WkrPopNothing, serverVars, PacketOf, BlankPacket
  <2>2. \A k \in SeqsOf(outq) : k < seq + 1 /\ k # seq
    BY <1>a, <1>b
  <2> QED
    BY <1>a, <2>1, <2>2
<1>36. ASSUME WkrRetransmit, UNCHANGED serverVars
      PROVE  Numbered'
  <2>1. /\ outq' = Append(outq, cur) /\ pcW = "recv" /\ pcW' = "deref"
        /\ retry_cnt = 0 /\ retry_cnt' = 1
        /\ UNCHANGED <<cur, pkt, pcS, seq>>
    BY <1>36, <1>a DEF WkrRetransmit, serverVars
  <2>2. SeqsOf(outq') = SeqsOf(outq) \cup {cur.seq} /\ Distinct(outq')
    BY <1>a, <2>1, AppendSeqs
  <2> QED
    BY <1>a, <2>1, <2>2
<1>37. CASE Main
  BY <1>37 DEF Main, StopServer, StopWorker, serverVars, workerVars
<1>38. CASE UNCHANGED vars
  BY <1>38 DEF vars, sharedVars, serverVars, workerVars
<1> QED
  BY <1>1, <1>2, <1>3, <1>4, <1>5, <1>6, <1>7, <1>8, <1>9, <1>10, <1>11,
     <1>12, <1>13, <1>14, <1>15, <1>16, <1>17, <1>18, <1>19, <1>20, <1>21,
     <1>22, <1>23, <1>24, <1>25, <1>26, <1>27, <1>28, <1>29, <1>30, <1>31,
     <1>32, <1>33, <1>34, <1>35, <1>36, <1>37, <1>38 DEF Next, ClientStep,
     ServerThread, ServerStep, WorkerThread, WorkerStep, Smsc, SmscStep

\* Nothing has been numbered yet.
LEMMA InitNumbered == Init => Numbered
BY DEF Init, SharedInit, ServerInit, WorkerInit, Numbered, SeqsOf, Distinct,
       Waiting, BlankPacket, NoSeq

\* Numbered holds in every reachable state.
THEOREM NumberedInvariance == Spec => []Numbered
BY CoreInvariance, InitNumbered, NumberedStep, PTL DEF Spec

\* Numbered says more than the property.
LEMMA NumberedSuffices == Numbered => NoDoubleQueueing
<1>1. Queued = SeqsOf(outq)
  BY DEF Queued, SeqsOf
<1> QED
  BY <1>1 DEF Numbered, Waiting, Distinct, NoDoubleQueueing

\* No numbered packet waits in outq_ twice, for any number of clients and
\* requests and whatever is retransmitted.
THEOREM QueuedOnce == Spec => []NoDoubleQueueing
BY NumberedInvariance, NumberedSuffices, PTL

----------------------------------------------------------------------------
\* Every variable of the gateway keeps to its domain; in particular close()
\* is only called on an open socket.
THEOREM TypeCorrect == Spec => []TypeOK
<1>1. CoreInv => TypeOK
  BY DEF CoreInv
<1> QED
  BY CoreInvariance, <1>1, PTL

\* The REP socket forgets no client, for any number of clients.
THEOREM NoClientForgotten == Spec => []ClientsAccounted
<1>1. CoreInv => ClientsAccounted
  BY DEF CoreInv
<1> QED
  BY CoreInvariance, <1>1, PTL

\* recvMsg hands on only answers to the packet it just sent, or garbage,
\* however late the SMSC answers.
THEOREM OnlyCurrentAnswers == Spec => []AnswersAreCurrent
<1>1. CoreInv => AnswersAreCurrent
  BY DEF CoreInv
<1> QED
  BY CoreInvariance, <1>1, PTL
=============================================================================
