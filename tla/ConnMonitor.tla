----------------------------- MODULE ConnMonitor ----------------------------
(***************************************************************************)
(* plk_monitor_t (zmq_monitor.hpp): it counts the peers of a socket from   *)
(* the events that libzmq reports.  libzmq's I/O thread queues the events  *)
(* (ctx_ is made with one such thread); mon_th_ takes them one by one.     *)
(*                                                                         *)
(* libzmq reports "disconnected" for every connection that ends, also for  *)
(* one whose handshake failed and that was never counted.  A failure       *)
(* without detail is reported just before its "disconnected" and is        *)
(* corrected for; a protocol failure is reported too, and is not.  An      *)
(* event names its connection (the handlers only log that name).           *)
(***************************************************************************)
EXTENDS Integers, Sequences, FiniteSets

CONSTANTS Conns,        \* connections, each made once
          MaxQueued     \* bound: events that wait for mon_th_

ASSUME MonitorAssumption == IsFiniteSet(Conns) /\ MaxQueued \in Nat \ {0}

VARIABLES conn,         \* "none", "open" (no handshake yet), "up", or how it
                        \* ended: "dropped", "no_detail", "protocol"
          ending,       \* connections whose "disconnected" is still to come
          protos,       \* protocol failures so far
          events,       \* queued for mon_th_
          connected_total_, handshaked_total_,
          handshake_failed_no_detail_, connected_,
          stop,         \* stop requested of mon_th_
          pc            \* mon_th_: "check" or "exit"

ioVars == <<conn, ending, protos>>
counters == <<connected_total_, handshaked_total_,
              handshake_failed_no_detail_, connected_>>
vars == <<ioVars, events, counters, stop, pc>>

Kinds == {"connected", "accepted", "succeeded", "no_detail", "protocol",
          "disconnected"}
Events == [what : Kinds, from : Conns]
States == {"none", "open", "up", "dropped", "no_detail", "protocol"}

Up == {c \in Conns : conn[c] = "up"}

Init ==
  /\ conn = [c \in Conns |-> "none"]
  /\ ending = {}
  /\ protos = 0
  /\ events = <<>>
  /\ connected_total_ = 0
  /\ handshaked_total_ = 0
  /\ handshake_failed_no_detail_ = 0
  /\ connected_ = 0
  /\ stop = FALSE
  /\ pc = "check"

----------------------------------------------------------------------------
(* libzmq's I/O thread *)

\* Between the two reports of a failed connection it does nothing else.
Report(e, c) ==
  /\ Len(events) < MaxQueued
  /\ events' = Append(events, [what |-> e, from |-> c])
  /\ UNCHANGED <<counters, stop, pc>>

Open(c) ==
  /\ ending = {}
  /\ conn[c] = "none"
  /\ conn' = [conn EXCEPT ![c] = "open"]
  /\ Report("connected", c) \/ Report("accepted", c)
  /\ UNCHANGED <<ending, protos>>

Handshake(c) ==
  /\ ending = {}
  /\ conn[c] = "open"
  /\ conn' = [conn EXCEPT ![c] = "up"]
  /\ Report("succeeded", c)
  /\ UNCHANGED <<ending, protos>>

Fail(c) ==
  /\ ending = {}
  /\ conn[c] = "open"
  /\ ending' = {c}
  /\ \/ /\ conn' = [conn EXCEPT ![c] = "no_detail"]
        /\ Report("no_detail", c)
        /\ UNCHANGED protos
     \/ /\ conn' = [conn EXCEPT ![c] = "protocol"]
        /\ Report("protocol", c)
        /\ protos' = protos + 1

Drop(c) ==
  /\ ending = {}
  /\ conn[c] = "up"
  /\ conn' = [conn EXCEPT ![c] = "dropped"]
  /\ Report("disconnected", c)
  /\ UNCHANGED <<ending, protos>>

EndFailed(c) ==
  /\ c \in ending
  /\ ending' = {}
  /\ Report("disconnected", c)
  /\ UNCHANGED <<conn, protos>>

IoThread ==
  \E c \in Conns : Open(c) \/ Handshake(c) \/ Fail(c) \/ Drop(c) \/ EndFailed(c)

----------------------------------------------------------------------------
(* Slips: mistaken forms of handlers below, which no specification uses    *)
(* and the properties reject.                                              *)

\* every disconnection is corrected for
CorrectAlwaysSlip ==
  /\ handshake_failed_no_detail_' = handshake_failed_no_detail_ - 1
  /\ UNCHANGED <<connected_total_, handshaked_total_, connected_>>

\* the correction is never looked at
CorrectNeverSlip ==
  /\ connected_' = connected_ - 1
  /\ UNCHANGED <<connected_total_, handshaked_total_,
                 handshake_failed_no_detail_>>

\* the peers are counted down first, the corrections when there is no peer
PeersFirstSlip ==
  /\ IF connected_ > 0 \/ handshake_failed_no_detail_ = 0
       THEN /\ connected_' = connected_ - 1
            /\ UNCHANGED handshake_failed_no_detail_
       ELSE /\ handshake_failed_no_detail_' = handshake_failed_no_detail_ - 1
            /\ UNCHANGED connected_
  /\ UNCHANGED <<connected_total_, handshaked_total_>>

----------------------------------------------------------------------------
(* The handlers *)

on_event_connected ==
  /\ connected_total_' = connected_total_ + 1
  /\ UNCHANGED <<handshaked_total_, handshake_failed_no_detail_, connected_>>

on_event_handshake_failed_no_detail ==
  /\ handshake_failed_no_detail_' = handshake_failed_no_detail_ + 1
  /\ UNCHANGED <<connected_total_, handshaked_total_, connected_>>

\* It only logs; accepted has no handler of its own.
on_event_handshake_failed_protocol == UNCHANGED counters

on_event_handshake_succeeded ==
  /\ connected_' = connected_ + 1
  /\ handshaked_total_' = handshaked_total_ + 1
  /\ UNCHANGED <<connected_total_, handshake_failed_no_detail_>>

on_event_disconnected ==
  /\ IF handshake_failed_no_detail_ > 0
       THEN /\ handshake_failed_no_detail_' = handshake_failed_no_detail_ - 1
            /\ UNCHANGED connected_
       ELSE /\ connected_' = connected_ - 1
            /\ UNCHANGED handshake_failed_no_detail_
  /\ UNCHANGED <<connected_total_, handshaked_total_>>

Handle(e) ==
  \/ e = "connected" /\ on_event_connected
  \/ e \in {"accepted", "protocol"} /\ on_event_handshake_failed_protocol
  \/ e = "succeeded" /\ on_event_handshake_succeeded
  \/ e = "no_detail" /\ on_event_handshake_failed_no_detail
  \/ e = "disconnected" /\ on_event_disconnected

\* while (!st.stop_requested()) monitor_.check_event(100); a check that
\* times out changes nothing.  The token may be set after the loop's test.
check_event ==
  /\ pc = "check"
  /\ events # <<>>
  /\ Handle(Head(events).what)
  /\ events' = Tail(events)
  /\ UNCHANGED <<ioVars, stop, pc>>

MonitorExit ==
  /\ pc = "check"
  /\ stop
  /\ pc' = "exit"
  /\ UNCHANGED <<ioVars, events, counters, stop>>

MonitorThread == check_event \/ MonitorExit

RequestStop ==
  /\ ~stop
  /\ stop' = TRUE
  /\ UNCHANGED <<ioVars, events, counters, pc>>

Next == IoThread \/ MonitorThread \/ RequestStop

Spec == Init /\ [][Next]_vars

----------------------------------------------------------------------------
(* Properties *)

TypeOK ==
  /\ conn \in [Conns -> States]
  /\ ending \subseteq Conns
  /\ events \in Seq(Events)
  /\ {protos, connected_total_, handshaked_total_,
      handshake_failed_no_detail_} \subseteq Nat
  /\ connected_ \in Int
  /\ stop \in BOOLEAN
  /\ pc \in {"check", "exit"}

\* A correction meets the disconnection it is for: whatever else is reported
\* and however far mon_th_ is behind, on_event_disconnected takes back a
\* correction when the connection that ended is one whose handshake failed
\* without detail, and lowers the counter when it is any other.
CorrectionMeetsItsEnd ==
  [][events # <<>> /\ events' = Tail(events) /\ Head(events).what = "disconnected"
     => IF conn[Head(events).from] = "no_detail"
          THEN /\ handshake_failed_no_detail_' = handshake_failed_no_detail_ - 1
               /\ connected_' = connected_
          ELSE /\ connected_' = connected_ - 1
               /\ handshake_failed_no_detail_' = handshake_failed_no_detail_]_vars

\* When every report has been handled no correction is left over, and
\* get_connection() is off by the protocol failures and by nothing else.
CountSettled ==
  events = <<>> /\ ending = {} =>
    /\ handshake_failed_no_detail_ = 0
    /\ connected_ = Cardinality(Up) - protos

\* At no time, mon_th_ behind or not, does the counter fall below zero by
\* more than the protocol failures; nor does a correction outlive the next
\* disconnection.
NeverBelow ==
  /\ connected_ >= -protos
  /\ handshake_failed_no_detail_ <= 1
=============================================================================
