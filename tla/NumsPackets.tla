---------------------------- MODULE NumsPackets ----------------------------
(***************************************************************************)
(* nums::Header and nums::Packet (include/newbee/dataPacket.hpp,           *)
(* lib/newbee/dataElement.cpp): the packets the gateway makes, sends and   *)
(* receives.  A packet keeps the fields that the control flow looks at:    *)
(*                                                                         *)
(*   wire  the three characters of msg_type: 1..6 for "1".."6", Blank for  *)
(*         the zero-filled field of a fresh Header, Text for anything else *)
(*   seq   the seq_num field: a number the gateway issued, NoSeq while it  *)
(*         is zero-filled, PeerSeq for a number of the SMSC's own, JunkSeq *)
(*         for bytes that are not a header at all                          *)
(*   body  which alternative the std::variant holds                        *)
(***************************************************************************)
EXTENDS Integers

\* enum class MsgType
LINK == 1
LINK_ACK == 2
SN_REGINFO == 3
SN_REGINFO_ACK == 4
REQ_RESULT == 5
REQ_RESULT_ACK == 6
UNKNOWN == -1

MsgTypes == LINK .. REQ_RESULT_ACK

Blank == 0
Text == 7
Wires == Blank .. Text

\* A request that is not JSON: a field that snprintf has cut inside a UTF-8
\* character.
NotJson == Text + 1

NoSeq == 0
PeerSeq == -1
JunkSeq == -2

Bodies == {"monostate", "sn_reginfo", "result"}

Packets == [wire : Wires, seq : Int, body : Bodies]

\* Header::msg_type_enum compares the field with "1".."6".
msg_type_enum(h) == IF h.wire \in MsgTypes THEN h.wire ELSE UNKNOWN

\* A default-constructed Packet: Header() zero-fills every field.
BlankPacket ==
  [wire |-> Blank, seq |-> NoSeq, body |-> "monostate"]

\* explicit Packet(MsgType t) fills the header for LINK and for nothing else.
PacketOf(t, n) ==
  IF t = LINK
  THEN [BlankPacket EXCEPT !.wire = LINK, !.seq = n]
  ELSE BlankPacket

\* Packet::parse_json on a client's JSON of type t: only 1 and 3 get through,
\* every other type throws "unknown msg_type", and what is not JSON throws
\* before Header::parse_json takes a sequence number.
parse_json_throws(t) == t \notin {LINK, SN_REGINFO}
takes_seq(t) == t # NotJson
parse_json(t, n) ==
  [wire |-> t, seq |-> n,
   body |-> IF t = SN_REGINFO THEN "sn_reginfo" ELSE "monostate"]

\* What recvMsg returns: the header it read and, for REQ_RESULT, a body.
ResultPacket(h, b) ==
  [wire |-> h.wire, seq |-> h.seq, body |-> b]
=============================================================================
