--------------------------- MODULE MCNumsGateway ---------------------------
(***************************************************************************)
(* Instances of NumsGateway for TLC.  A user of zmq_client is offered the  *)
(* types 1, 3 and 5, and can enter what is cut to something else.          *)
(***************************************************************************)
EXTENDS NumsGateway

Offered == {LINK, SN_REGINFO, REQ_RESULT}
OfferedOrCut == Offered \cup {NotJson}
\* One msg_type per arm of the switch in recvMsg.
AnyArm == {LINK, SN_REGINFO_ACK, REQ_RESULT, Text}

TextArm == {Text}
RegOnly == {SN_REGINFO}
=============================================================================
