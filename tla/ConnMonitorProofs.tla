------------------------- MODULE ConnMonitorProofs -------------------------
(***************************************************************************)
(* What the connection counter is worth, for any number of connections and *)
(* of events that wait for mon_th_.                                        *)
(*                                                                         *)
(* The argument looks ahead: Balance(k) is what connected_ and the pending *)
(* correction will add up to when the first k queued events have been      *)
(* handled.  Handling an event shifts these values by one place, and a     *)
(* report adds one at the end, which is known from the connections; so     *)
(* none of them is ever too low.  Which event lowers which counter is the  *)
(* matter of Paired: the failure without detail and the disconnection of   *)
(* the same connection are neighbours in the queue.                        *)
(***************************************************************************)
EXTENDS ConnMonitor, FiniteSetTheorems, SequenceTheorems, TLAPS

Places(s, k, e) == {i \in 1 .. k : s[i].what = e}
Counted(s, k, e) == Cardinality(Places(s, k, e))

\* What handling an event does to connected_ + handshake_failed_no_detail_.
Weight(e) ==
  IF e \in {"succeeded", "no_detail"} THEN 1
  ELSE IF e = "disconnected" THEN -1 ELSE 0

Balance(k) ==
  connected_ + handshake_failed_no_detail_
    + Counted(events, k, "succeeded") + Counted(events, k, "no_detail")
    - Counted(events, k, "disconnected")

\* What the balance comes to when everything queued has been handled.
Outcome == Cardinality(Up) - protos + Cardinality(ending)

\* The I/O thread is between the two reports of at most one connection.
OneEnding == ending = {} \/ \E c \in Conns : ending = {c}

\* What is counted and queued adds up to the connections that are up.
InBalance == Balance(Len(events)) = Outcome

\* However far mon_th_ has got, the balance is off by protocol failures only.
Ahead == \A k \in 0 .. Len(events) : Balance(k) >= -protos

\* A report of an end is about a connection that has ended, and so is the
\* report still to come.
Named ==
  /\ \A i \in 1 .. Len(events) :
       /\ events[i].what = "no_detail" => conn[events[i].from] = "no_detail"
       /\ events[i].what = "disconnected" =>
            conn[events[i].from] \in {"dropped", "no_detail", "protocol"}
  /\ \A c \in ending : conn[c] \in {"no_detail", "protocol"}

\* The disconnection of a failure without detail is the very next event, or
\* the I/O thread has yet to report it; and so for the correction that is
\* left once that failure has been handled.
Paired ==
  /\ \A i \in 1 .. Len(events) : events[i].what = "no_detail" =>
       IF i < Len(events)
         THEN /\ events[i + 1].what = "disconnected"
              /\ conn[events[i + 1].from] = "no_detail"
         ELSE \E c \in ending : conn[c] = "no_detail"
  /\ handshake_failed_no_detail_ # 0 =>
       /\ handshake_failed_no_detail_ = 1
       /\ IF events = <<>>
            THEN \E c \in ending : conn[c] = "no_detail"
            ELSE /\ events[1].what = "disconnected"
                 /\ conn[events[1].from] = "no_detail"

\* Conversely, before the disconnection of a connection that failed without
\* detail comes that failure, or its correction is pending already.
Announced ==
  /\ \A i \in 1 .. Len(events) :
       events[i].what = "disconnected" /\ conn[events[i].from] = "no_detail" =>
         IF i = 1 THEN handshake_failed_no_detail_ # 0
         ELSE events[i - 1].what = "no_detail"
  /\ \A c \in ending : conn[c] = "no_detail" =>
       IF events = <<>> THEN handshake_failed_no_detail_ # 0
       ELSE events[Len(events)].what = "no_detail"

IInv == TypeOK /\ OneEnding /\ InBalance /\ Ahead /\ Named /\ Paired /\ Announced

----------------------------------------------------------------------------
(* Counting in a sequence *)

\* The counts are natural numbers, and nothing occurs in no places.
LEMMA CountedType ==
  ASSUME NEW s, NEW k \in Nat, NEW e
  PROVE  /\ IsFiniteSet(Places(s, k, e))
         /\ Counted(s, k, e) \in Nat
         /\ Counted(s, 0, e) = 0
<1>1. IsFiniteSet(1 .. k)
  BY FS_Interval
<1>2. IsFiniteSet(Places(s, k, e))
  <2>1. Places(s, k, e) \in SUBSET (1 .. k)
    BY DEF Places
  <2> QED
    BY <1>1, <2>1, FS_Subset
<1>3. Places(s, 0, e) = {}
  BY DEF Places
<1> QED
  BY <1>2, <1>3, FS_CardinalityType, FS_EmptySet DEF Counted

\* One more place counts if e is there.
LEMMA CountedNext ==
  ASSUME NEW s, NEW k \in Nat, NEW e
  PROVE  Counted(s, k + 1, e)
           = Counted(s, k, e) + (IF s[k + 1].what = e THEN 1 ELSE 0)
<1>1. IsFiniteSet(Places(s, k, e)) /\ Counted(s, k, e) \in Nat
  BY CountedType
<1>2. CASE s[k + 1].what = e
  <2>1. Places(s, k + 1, e) = Places(s, k, e) \cup {k + 1} /\ k + 1 \notin Places(s, k, e)
    BY <1>2 DEF Places
  <2>2. Cardinality(Places(s, k + 1, e)) = Cardinality(Places(s, k, e)) + 1
    BY <1>1, <2>1, FS_AddElement
  <2> QED
    BY <1>2, <2>2 DEF Counted
<1>3. CASE s[k + 1].what # e
  <2>1. Places(s, k + 1, e) = Places(s, k, e)
    BY <1>3 DEF Places
  <2> QED
    BY <1>1, <1>3, <2>1 DEF Counted
<1> QED
  BY <1>2, <1>3

\* A count depends on the places counted and on nothing else.
LEMMA CountedSame ==
  ASSUME NEW s, NEW t, NEW k \in Nat, NEW e,
         \A i \in 1 .. k : s[i] = t[i]
  PROVE  Counted(s, k, e) = Counted(t, k, e)
<1>1. Places(s, k, e) = Places(t, k, e)
  BY DEF Places
<1> QED
  BY <1>1 DEF Counted

\* Without its first element a sequence has one occurrence less of that.
LEMMA CountedShift ==
  ASSUME NEW s, NEW t, NEW k \in Nat, NEW e,
         \A i \in 1 .. k : t[i] = s[i + 1]
  PROVE  Counted(s, k + 1, e) = Counted(t, k, e) + (IF s[1].what = e THEN 1 ELSE 0)
<1> DEFINE A == Places(t, k, e)
           B == Places(s, k + 1, e)
           f == [i \in A |-> i + 1]
<1>1. /\ IsFiniteSet(A) /\ Cardinality(A) \in Nat
      /\ IsFiniteSet(B) /\ Cardinality(B) \in Nat
  <2>1. k + 1 \in Nat
    OBVIOUS
  <2> QED
    BY <2>1, CountedType DEF Counted
<1>2. f \in Bijection(A, B \ {1})
  <2>1. /\ \A i \in A : i \in 1 .. k /\ i + 1 \in B \ {1}
        /\ \A j \in B \ {1} : j - 1 \in A /\ (j - 1) + 1 = j
    BY DEF Places
  <2>2. f \in [A -> B \ {1}]
    BY <2>1
  <2>3. \A i, j \in A : f[i] = f[j] => i = j
    BY <2>1
  <2>4. \A j \in B \ {1} : \E i \in A : f[i] = j
    <3>1. ASSUME NEW j \in B \ {1} PROVE f[j - 1] = j
      BY <2>1
    <3> QED
      BY <2>1, <3>1
  <2> HIDE DEF A, B, f
  <2> QED
    BY <2>2, <2>3, <2>4 DEF Bijection, Injection, Surjection, IsInjective
<1>3. Cardinality(B \ {1}) = Cardinality(A)
  BY <1>1, <1>2, FS_Bijection DEF ExistsBijection
<1>4. Cardinality(B \ {1}) = IF 1 \in B THEN Cardinality(B) - 1 ELSE Cardinality(B)
  BY <1>1, FS_RemoveElement
<1>5. 1 \in B <=> s[1].what = e
  BY DEF Places
<1> QED
  BY <1>1, <1>3, <1>4, <1>5 DEF Counted

----------------------------------------------------------------------------
(* The balance *)

\* The counters and the balance are integers.
LEMMA BalanceType ==
  ASSUME TypeOK, NEW k \in Nat
  PROVE  /\ connected_ \in Int /\ handshake_failed_no_detail_ \in Nat
         /\ protos \in Nat
         /\ Balance(k) \in Int
         /\ Balance(0) = connected_ + handshake_failed_no_detail_
<1>1. /\ connected_ \in Int /\ handshake_failed_no_detail_ \in Nat
      /\ protos \in Nat
  BY DEF TypeOK
<1>2. \A e : Counted(events, k, e) \in Nat /\ Counted(events, 0, e) = 0
  BY CountedType
<1> QED
  BY <1>1, <1>2 DEF Balance

\* The connections that are up, and the one that is ending, can be counted.
LEMMA OutcomeType ==
  ASSUME TypeOK
  PROVE  /\ IsFiniteSet(Up) /\ Cardinality(Up) \in Nat
         /\ IsFiniteSet(ending) /\ Cardinality(ending) \in Nat
         /\ Outcome \in Int
<1>1. Up \in SUBSET Conns /\ ending \in SUBSET Conns
  BY DEF TypeOK, Up
<1>2. IsFiniteSet(Up) /\ IsFiniteSet(ending)
  BY <1>1, MonitorAssumption, FS_Subset
<1>3. Cardinality(Up) \in Nat /\ Cardinality(ending) \in Nat /\ protos \in Nat
  BY <1>2, FS_CardinalityType DEF TypeOK
<1> QED
  BY <1>2, <1>3 DEF Outcome

\* A report leaves the values ahead as they are and adds one at the end.
LEMMA ReportBalance ==
  ASSUME TypeOK, NEW e \in Kinds, NEW c \in Conns, Report(e, c)
  PROVE  /\ events' = Append(events, [what |-> e, from |-> c])
         /\ Len(events) \in Nat
         /\ Len(events') = Len(events) + 1
         /\ \A k \in 0 .. Len(events) : Balance(k)' = Balance(k)
         /\ Balance(Len(events))' = Balance(Len(events)) + Weight(e)
<1>1. /\ events \in Seq(Events)
      /\ events' = Append(events, [what |-> e, from |-> c])
      /\ [what |-> e, from |-> c] \in Events
      /\ UNCHANGED <<connected_, handshake_failed_no_detail_>>
  BY DEF Report, TypeOK, counters, Events
<1>2. /\ Len(events) \in Nat /\ Len(events') = Len(events) + 1
      /\ \A i \in 1 .. Len(events) : events'[i] = events[i]
      /\ events'[Len(events) + 1].what = e
  BY <1>1, AppendProperties, LenProperties
<1>3. ASSUME NEW k \in 0 .. Len(events), NEW x
      PROVE  Counted(events', k, x) = Counted(events, k, x)
  <2>1. k \in Nat /\ \A i \in 1 .. k : events'[i] = events[i]
    BY <1>2
  <2> QED
    BY <2>1, CountedSame
<1>4. ASSUME NEW k \in 0 .. Len(events) PROVE Balance(k)' = Balance(k)
  <2>1. /\ Counted(events', k, "succeeded") = Counted(events, k, "succeeded")
        /\ Counted(events', k, "no_detail") = Counted(events, k, "no_detail")
        /\ Counted(events', k, "disconnected") = Counted(events, k, "disconnected")
    BY <1>3
  <2> QED
    BY <1>1, <2>1 DEF Balance
<1>5. Balance(Len(events))' = Balance(Len(events)) + Weight(e)
  <2> DEFINE n == Len(events)
  <2>1. n \in Nat /\ n \in 0 .. n /\ Len(events') = n + 1
    BY <1>2
  <2>2. \A x : Counted(events', n + 1, x)
               = Counted(events, n, x) + (IF e = x THEN 1 ELSE 0)
    BY <1>2, <1>3, <2>1, CountedNext
  <2>3. \A x : Counted(events, n, x) \in Nat
    BY <2>1, CountedType
  <2>4. connected_ \in Int /\ handshake_failed_no_detail_ \in Nat
    BY DEF TypeOK
  <2> DEFINE sum == connected_ + handshake_failed_no_detail_
             x == Counted(events, n, "succeeded")
             y == Counted(events, n, "no_detail")
             z == Counted(events, n, "disconnected")
             u == IF e = "succeeded" THEN 1 ELSE 0
             v == IF e = "no_detail" THEN 1 ELSE 0
             w == IF e = "disconnected" THEN 1 ELSE 0
  <2>5. /\ Counted(events', Len(events'), "succeeded") = x + u
        /\ Counted(events', Len(events'), "no_detail") = y + v
        /\ Counted(events', Len(events'), "disconnected") = z + w
    BY <2>1, <2>2
  <2>6. x \in Int /\ y \in Int /\ z \in Int /\ sum \in Int
    BY <2>3, <2>4
  <2>7. u \in Int /\ v \in Int /\ w \in Int /\ Weight(e) = u + v - w
    BY DEF Weight
  <2>8. Balance(Len(events))' = sum + (x + u) + (y + v) - (z + w)
    BY <1>1, <2>5 DEF Balance
  <2>9. Balance(Len(events)) = sum + x + y - z
    BY DEF Balance
  <2> HIDE DEF sum, x, y, z, u, v, w
  <2> QED
    BY <2>6, <2>7, <2>8, <2>9
<1> QED
  BY <1>1, <1>2, <1>4, <1>5

\* Handling an event moves every value ahead one place closer.
LEMMA HandleBalance ==
  ASSUME TypeOK, check_event
  PROVE  /\ Len(events) \in Nat
         /\ Len(events') = Len(events) - 1
         /\ \A k \in 0 .. Len(events') : Balance(k)' = Balance(k + 1)
<1> DEFINE e == events[1].what
<1>1. /\ events \in Seq(Events) /\ events # <<>>
      /\ events' = Tail(events) /\ Handle(Head(events).what) /\ Head(events).what = e
  BY DEF check_event, TypeOK
<1>2. /\ Len(events) \in Nat /\ Len(events') = Len(events) - 1
      /\ \A i \in 1 .. Len(events') : events'[i] = events[i + 1]
  BY <1>1, HeadTailProperties, LenProperties
<1>3. /\ connected_' \in Int /\ handshake_failed_no_detail_' \in Int
      /\ connected_' + handshake_failed_no_detail_'
           = connected_ + handshake_failed_no_detail_ + Weight(e)
  <2>1. connected_ \in Int /\ handshake_failed_no_detail_ \in Nat /\ Handle(e)
    BY <1>1 DEF TypeOK
  <2> HIDE DEF e
  <2>2. CASE e = "disconnected" /\ on_event_disconnected
    BY <2>1, <2>2 DEF on_event_disconnected, Weight
  <2>3. CASE e = "succeeded" /\ on_event_handshake_succeeded
    BY <2>1, <2>3 DEF on_event_handshake_succeeded, Weight
  <2>4. CASE e = "no_detail" /\ on_event_handshake_failed_no_detail
    BY <2>1, <2>4 DEF on_event_handshake_failed_no_detail, Weight
  <2>5. CASE e \in {"connected", "accepted", "protocol"}
             /\ UNCHANGED <<connected_, handshake_failed_no_detail_>>
    BY <2>1, <2>5 DEF Weight
  <2> QED
    BY <2>1, <2>2, <2>3, <2>4, <2>5
       DEF Handle, on_event_connected, on_event_handshake_failed_protocol, counters
<1>4. ASSUME NEW k \in 0 .. Len(events')
      PROVE  Balance(k)' = Balance(k + 1)
  <2> DEFINE sum == connected_ + handshake_failed_no_detail_
             sumNext == connected_' + handshake_failed_no_detail_'
             x == Counted(events', k, "succeeded")
             y == Counted(events', k, "no_detail")
             z == Counted(events', k, "disconnected")
             u == IF e = "succeeded" THEN 1 ELSE 0
             v == IF e = "no_detail" THEN 1 ELSE 0
             w == IF e = "disconnected" THEN 1 ELSE 0
  <2>1. k \in Nat /\ \A i \in 1 .. k : events'[i] = events[i + 1]
    BY <1>2
  <2>2. \A a : Counted(events, k + 1, a)
               = Counted(events', k, a) + (IF e = a THEN 1 ELSE 0)
    BY <2>1, CountedShift, SMTT(30)
  <2>3. x \in Int /\ y \in Int /\ z \in Int
    <3>1. \A a : Counted(events', k, a) \in Nat
      BY <2>1, CountedType
    <3> QED
      BY <3>1
  <2>4. /\ Counted(events, k + 1, "succeeded") = x + u
        /\ Counted(events, k + 1, "no_detail") = y + v
        /\ Counted(events, k + 1, "disconnected") = z + w
    BY <2>2
  <2>5. u \in Int /\ v \in Int /\ w \in Int /\ Weight(e) = u + v - w
    BY DEF Weight
  <2>6. sum \in Int /\ sumNext \in Int
    <3>1. connected_ \in Int /\ handshake_failed_no_detail_ \in Int
      BY DEF TypeOK
    <3>2. connected_' \in Int /\ handshake_failed_no_detail_' \in Int
      BY <1>3
    <3> QED
      BY <3>1, <3>2
  <2>7. sumNext = sum + (u + v - w)
    <3> HIDE DEF e, u, v, w
    <3> QED
      BY <1>3, <2>5
  <2>8. Balance(k)' = sumNext + x + y - z
    BY DEF Balance
  <2>9. Balance(k + 1) = sum + (x + u) + (y + v) - (z + w)
    BY <2>4 DEF Balance
  <2> HIDE DEF sum, sumNext, x, y, z, u, v, w
  <2> QED
    BY <2>3, <2>5, <2>6, <2>7, <2>8, <2>9
<1> QED
  BY <1>2, <1>4

----------------------------------------------------------------------------
(* The steps *)

\* Every step keeps every variable in its domain; a correction is taken back
\* only where there is one.
LEMMA TypeOKStep == TypeOK /\ [Next]_vars => TypeOK'
<1> SUFFICES ASSUME TypeOK, [Next]_vars PROVE TypeOK'
  OBVIOUS
<1>1. ASSUME NEW e \in Kinds, NEW c \in Conns, Report(e, c)
      PROVE  events' \in Seq(Events) /\ UNCHANGED <<counters, stop, pc>>
  BY <1>1 DEF Report, TypeOK, Events
<1>2. ASSUME NEW c \in Conns,
             Open(c) \/ Handshake(c) \/ Fail(c) \/ Drop(c) \/ EndFailed(c)
      PROVE  TypeOK'
  <2>1. events' \in Seq(Events) /\ UNCHANGED <<counters, stop, pc>>
    BY <1>1, <1>2 DEF Open, Handshake, Fail, Drop, EndFailed, Kinds
  <2>2. conn' \in [Conns -> States]
    BY <1>2 DEF Open, Handshake, Fail, Drop, EndFailed, TypeOK, States
  <2>3. ending' \subseteq Conns /\ protos' \in Nat
    BY <1>2 DEF Open, Handshake, Fail, Drop, EndFailed, TypeOK
  <2> QED
    BY <2>1, <2>2, <2>3 DEF TypeOK, counters
<1>3. CASE check_event
  <2>1. events' \in Seq(Events) /\ Handle(Head(events).what)
        /\ UNCHANGED <<conn, ending, protos, stop, pc>>
    BY <1>3, HeadTailProperties DEF check_event, TypeOK, ioVars
  <2>2. /\ connected_total_' \in Nat /\ handshaked_total_' \in Nat
        /\ handshake_failed_no_detail_' \in Nat /\ connected_' \in Int
    BY <2>1, SMTT(30)
            DEF Handle, on_event_connected, on_event_handshake_failed_protocol,
                on_event_handshake_succeeded, on_event_disconnected,
                on_event_handshake_failed_no_detail, counters, TypeOK
  <2> QED
    BY <2>1, <2>2 DEF TypeOK
<1>4. CASE MonitorExit \/ RequestStop
  BY <1>4 DEF MonitorExit, RequestStop, ioVars, counters, TypeOK
<1>5. CASE UNCHANGED vars
  BY <1>5 DEF vars, ioVars, counters, TypeOK
<1> QED
  BY <1>2, <1>3, <1>4, <1>5 DEF Next, IoThread, MonitorThread

\* What a report may do to the connections so that what is queued stays true:
\* it does not come between the two reports of a failed connection, an end
\* that is reported stays the end it was, and a failure is reported as what
\* it is.
Orderly(e, c) ==
  /\ \/ ending = {}
     \/ ending = {c} /\ ending' = {} /\ e = "disconnected" /\ UNCHANGED conn
  /\ \A d \in Conns : d # c \/ conn[c] \in {"dropped", "no_detail", "protocol"} =>
       conn'[d] = conn[d]
  /\ e = "no_detail" => ending' = {c} /\ conn'[c] = "no_detail"
  /\ e = "disconnected" => ending' = {}
  /\ e = "disconnected" /\ ending = {} => conn'[c] = "dropped"
  /\ e \notin {"no_detail", "disconnected"} =>
       ending' = {} \/ (ending' = {c} /\ conn'[c] = "protocol")

\* A report keeps the invariant if it weighs as much as it changes the
\* connections by.
LEMMA ReportKeeps ==
  ASSUME IInv, TypeOK', NEW e \in Kinds, NEW c \in Conns, Report(e, c),
         Outcome' = Outcome + Weight(e),
         protos' >= protos,
         Orderly(e, c)
  PROVE  InBalance' /\ Ahead' /\ Named' /\ Paired' /\ Announced'
<1>1. /\ events' = Append(events, [what |-> e, from |-> c])
      /\ Len(events) \in Nat
      /\ Len(events') = Len(events) + 1
      /\ \A k \in 0 .. Len(events) : Balance(k)' = Balance(k)
      /\ Balance(Len(events))' = Balance(Len(events)) + Weight(e)
  BY ReportBalance DEF IInv
<1>2. InBalance'
  BY <1>1 DEF IInv, InBalance
<1>3. protos \in Nat /\ protos' \in Nat
  BY DEF IInv, TypeOK
<1>4. ASSUME NEW k \in 0 .. Len(events') PROVE Balance(k)' >= -protos'
  <2>1. CASE k = Len(events')
    <3>1. Balance(k)' = Outcome'
      BY <1>2, <2>1 DEF InBalance
    <3>2. Cardinality(Up') \in Nat /\ Cardinality(ending') \in Nat
      <4>1. Up' \in SUBSET Conns /\ ending' \in SUBSET Conns
        BY DEF TypeOK, Up
      <4> QED
        BY <4>1, MonitorAssumption, FS_Subset, FS_CardinalityType
    <3> QED
      BY <1>3, <3>1, <3>2 DEF Outcome
  <2>2. CASE k \in 0 .. Len(events)
    <3>1. Balance(k)' = Balance(k) /\ Balance(k) >= -protos /\ Balance(k) \in Int
      BY <1>1, <2>2, BalanceType DEF IInv, Ahead
    <3> QED
      BY <1>3, <3>1
  <2> QED
    BY <1>1, <2>1, <2>2
<1>5. Ahead'
  BY <1>4 DEF Ahead
<1>6. /\ events \in Seq(Events)
      /\ \A i \in 1 .. Len(events) : events[i] \in Events /\ events'[i] = events[i]
      /\ events'[Len(events) + 1] = [what |-> e, from |-> c]
      /\ events' # <<>>
      /\ events = <<>> <=> Len(events) = 0
  <2>1. events \in Seq(Events) /\ [what |-> e, from |-> c] \in Events
    BY DEF IInv, TypeOK, Events
  <2> QED
    BY <1>1, <2>1, AppendProperties, EmptySeq, ElementOfSeq
<1>7. handshake_failed_no_detail_' = handshake_failed_no_detail_
  BY DEF Report, counters
\* The reports of ends that are queued already stay true.
<1>8. ASSUME NEW i \in 1 .. Len(events)
      PROVE  /\ events[i].from \in Conns
             /\ events[i].what = "no_detail" => conn'[events[i].from] = "no_detail"
             /\ events[i].what = "disconnected" =>
                  conn'[events[i].from] = conn[events[i].from]
  <2>1. events[i].from \in Conns
    BY <1>6 DEF Events
  <2> QED
    BY <2>1 DEF IInv, Named, Orderly
<1>9. Named'
  <2>1. ASSUME NEW i \in 1 .. Len(events')
        PROVE  /\ events'[i].what = "no_detail" => conn'[events'[i].from] = "no_detail"
               /\ events'[i].what = "disconnected" =>
                    conn'[events'[i].from] \in {"dropped", "no_detail", "protocol"}
    <3>1. CASE i \in 1 .. Len(events)
      BY <1>6, <1>8, <3>1 DEF IInv, Named
    <3>2. CASE i = Len(events) + 1
      BY <1>6, <3>2 DEF IInv, Named, Orderly
    <3> QED
      BY <1>1, <3>1, <3>2
  <2>2. \A d \in ending' : conn'[d] \in {"no_detail", "protocol"}
    BY DEF Orderly
  <2> QED
    BY <2>1, <2>2 DEF Named
<1>10. ASSUME NEW i \in 1 .. Len(events'), events'[i].what = "no_detail"
       PROVE  IF i < Len(events')
                THEN /\ events'[i + 1].what = "disconnected"
                     /\ conn'[events'[i + 1].from] = "no_detail"
                ELSE \E d \in ending' : conn'[d] = "no_detail"
  <2>1. CASE i < Len(events)
    <3>1. /\ i \in 1 .. Len(events) /\ i + 1 \in 1 .. Len(events)
          /\ events[i].what = "no_detail"
      BY <1>1, <1>6, <1>10, <2>1
    <3>2. events[i + 1].what = "disconnected" /\ conn[events[i + 1].from] = "no_detail"
      BY <2>1, <3>1 DEF IInv, Paired
    <3> QED
      BY <1>1, <1>6, <1>8, <2>1, <3>1, <3>2
  <2>2. CASE i = Len(events)
    <3>1. i \in 1 .. Len(events) /\ events[i].what = "no_detail" /\ ~(i < Len(events))
      BY <1>1, <1>6, <1>10, <2>2
    <3>2. \E d \in ending : conn[d] = "no_detail"
      BY <3>1 DEF IInv, Paired
    <3>3. e = "disconnected" /\ conn'[c] = "no_detail"
      BY <3>2 DEF Orderly
    <3> QED
      BY <1>1, <1>6, <2>2, <3>3
  <2>3. CASE i = Len(events) + 1
    BY <1>1, <1>6, <1>10, <2>3 DEF Orderly
  <2> QED
    BY <1>1, <2>1, <2>2, <2>3
<1>11. ASSUME handshake_failed_no_detail_ # 0
       PROVE  /\ handshake_failed_no_detail_ = 1
              /\ events'[1].what = "disconnected"
              /\ conn'[events'[1].from] = "no_detail"
  <2>1. CASE events = <<>>
    <3>1. handshake_failed_no_detail_ = 1 /\ \E d \in ending : conn[d] = "no_detail"
      BY <1>11, <2>1 DEF IInv, Paired
    <3>2. e = "disconnected" /\ conn'[c] = "no_detail"
      BY <3>1 DEF Orderly
    <3> QED
      BY <1>6, <2>1, <3>1, <3>2
  <2>2. CASE events # <<>>
    <3>1. 1 \in 1 .. Len(events)
      BY <1>1, <1>6, <2>2
    <3>2. /\ handshake_failed_no_detail_ = 1
          /\ events[1].what = "disconnected" /\ conn[events[1].from] = "no_detail"
      BY <1>11, <2>2 DEF IInv, Paired
    <3> QED
      BY <1>6, <1>8, <3>1, <3>2
  <2> QED
    BY <2>1, <2>2
<1>12. Paired'
  BY <1>6, <1>7, <1>10, <1>11 DEF Paired
<1>13. ASSUME NEW i \in 1 .. Len(events'), events'[i].what = "disconnected",
              conn'[events'[i].from] = "no_detail"
       PROVE  IF i = 1 THEN handshake_failed_no_detail_ # 0
              ELSE events'[i - 1].what = "no_detail"
  <2>1. CASE i \in 1 .. Len(events)
    <3>1. events[i].what = "disconnected" /\ conn[events[i].from] = "no_detail"
      BY <1>6, <1>8, <1>13, <2>1
    <3>2. IF i = 1 THEN handshake_failed_no_detail_ # 0
          ELSE events[i - 1].what = "no_detail"
      BY <2>1, <3>1 DEF IInv, Announced
    <3>3. i # 1 => i - 1 \in 1 .. Len(events)
      BY <1>1, <2>1
    <3> QED
      BY <1>6, <3>2, <3>3
  <2>2. CASE i = Len(events) + 1
    <3>1. e = "disconnected" /\ conn'[c] = "no_detail"
      BY <1>6, <1>13, <2>2
    <3>2. c \in ending /\ conn[c] = "no_detail"
      BY <3>1 DEF Orderly
    <3>3. IF events = <<>> THEN handshake_failed_no_detail_ # 0
          ELSE events[Len(events)].what = "no_detail"
      BY <3>2 DEF IInv, Announced
    <3>4. events # <<>> => Len(events) \in 1 .. Len(events)
      BY <1>1, <1>6
    <3>5. i - 1 = Len(events) /\ (i = 1 <=> events = <<>>)
      BY <1>1, <1>6, <2>2
    <3> QED
      BY <1>6, <3>3, <3>4, <3>5
  <2> QED
    BY <1>1, <2>1, <2>2
<1>14. ASSUME NEW d \in ending', conn'[d] = "no_detail"
       PROVE  events'[Len(events')].what = "no_detail"
  <2>1. e = "no_detail"
    BY <1>14 DEF Orderly
  <2> QED
    BY <1>1, <1>6, <2>1
<1>15. Announced'
  BY <1>6, <1>7, <1>13, <1>14 DEF Announced
<1> QED
  BY <1>2, <1>5, <1>9, <1>12, <1>15

\* The I/O thread's reports weigh what they should.
LEMMA IoKeeps ==
  ASSUME IInv, TypeOK', NEW c \in Conns,
         Open(c) \/ Handshake(c) \/ Fail(c) \/ Drop(c) \/ EndFailed(c)
  PROVE  IInv'
<1>1. /\ IsFiniteSet(Up) /\ Cardinality(Up) \in Nat
      /\ IsFiniteSet(ending) /\ Cardinality(ending) \in Nat
      /\ conn \in [Conns -> States]
      /\ protos \in Nat
  BY OutcomeType DEF IInv, TypeOK
<1>2. Cardinality({}) = 0 /\ Cardinality({c}) = 1
  BY FS_EmptySet, FS_Singleton
<1>3. CASE Open(c)
  <2>1. Up' = Up /\ UNCHANGED <<ending, protos>> /\ ending = {}
    BY <1>1, <1>3 DEF Open, Up
  <2>2. PICK e \in {"connected", "accepted"} : Report(e, c)
    BY <1>3 DEF Open
  <2>3. Outcome' = Outcome + Weight(e)
    BY <1>1, <2>1 DEF Outcome, Weight
  <2>4. Orderly(e, c)
    BY <1>1, <1>3, <2>1, <2>2 DEF Open, Orderly
  <2>5. InBalance' /\ Ahead' /\ Named' /\ Paired' /\ Announced'
    BY <1>1, <2>1, <2>2, <2>3, <2>4, ReportKeeps DEF Kinds
  <2> QED
    BY <2>1, <2>5 DEF IInv, OneEnding
<1>4. CASE Handshake(c)
  <2>1. /\ Up' = Up \cup {c} /\ c \notin Up
        /\ UNCHANGED <<ending, protos>> /\ ending = {} /\ Report("succeeded", c)
    BY <1>1, <1>4 DEF Handshake, Up
  <2>2. Cardinality(Up') = Cardinality(Up) + 1
    BY <1>1, <2>1, FS_AddElement
  <2>3. Outcome' = Outcome + Weight("succeeded")
    BY <1>1, <2>1, <2>2 DEF Outcome, Weight
  <2>4. Orderly("succeeded", c)
    BY <1>1, <1>4, <2>1 DEF Handshake, Orderly
  <2>5. InBalance' /\ Ahead' /\ Named' /\ Paired' /\ Announced'
    BY <1>1, <2>1, <2>3, <2>4, ReportKeeps DEF Kinds
  <2> QED
    BY <2>1, <2>5 DEF IInv, OneEnding
<1>5. CASE Fail(c)
  <2>1. Up' = Up /\ ending = {} /\ ending' = {c}
    BY <1>1, <1>5 DEF Fail, Up
  <2>2. CASE /\ conn' = [conn EXCEPT ![c] = "no_detail"]
             /\ Report("no_detail", c) /\ UNCHANGED protos
    <3>1. Outcome' = Outcome + Weight("no_detail")
      BY <1>1, <1>2, <2>1, <2>2 DEF Outcome, Weight
    <3>2. Orderly("no_detail", c)
      BY <1>1, <1>5, <2>1, <2>2 DEF Fail, Orderly
    <3> QED
      BY <1>1, <2>1, <2>2, <3>1, <3>2, ReportKeeps DEF Kinds, IInv, OneEnding
  <2>3. CASE /\ conn' = [conn EXCEPT ![c] = "protocol"]
             /\ Report("protocol", c) /\ protos' = protos + 1
    <3>1. Outcome' = Outcome + Weight("protocol")
      BY <1>1, <1>2, <2>1, <2>3 DEF Outcome, Weight
    <3>2. Orderly("protocol", c)
      BY <1>1, <1>5, <2>1, <2>3 DEF Fail, Orderly
    <3> QED
      BY <1>1, <2>1, <2>3, <3>1, <3>2, ReportKeeps DEF Kinds, IInv, OneEnding
  <2> QED
    BY <1>5, <2>2, <2>3 DEF Fail
<1>6. CASE Drop(c)
  <2>1. /\ Up' = Up \ {c} /\ c \in Up
        /\ UNCHANGED <<ending, protos>> /\ ending = {} /\ Report("disconnected", c)
    BY <1>1, <1>6 DEF Drop, Up
  <2>2. Cardinality(Up') = Cardinality(Up) - 1
    BY <1>1, <2>1, FS_RemoveElement
  <2>3. Outcome' = Outcome + Weight("disconnected")
    BY <1>1, <2>1, <2>2 DEF Outcome, Weight
  <2>4. Orderly("disconnected", c)
    BY <1>1, <1>6, <2>1 DEF Drop, Orderly
  <2>5. InBalance' /\ Ahead' /\ Named' /\ Paired' /\ Announced'
    BY <1>1, <2>1, <2>3, <2>4, ReportKeeps DEF Kinds
  <2> QED
    BY <2>1, <2>5 DEF IInv, OneEnding
<1>7. CASE EndFailed(c)
  <2>1. /\ Up' = Up /\ ending = {c} /\ ending' = {} /\ UNCHANGED protos
        /\ Report("disconnected", c)
    BY <1>7 DEF EndFailed, Up, IInv, OneEnding
  <2>2. Outcome' = Outcome + Weight("disconnected")
    BY <1>1, <1>2, <2>1 DEF Outcome, Weight
  <2>3. Orderly("disconnected", c)
    BY <1>7, <2>1 DEF EndFailed, Orderly
  <2>4. InBalance' /\ Ahead' /\ Named' /\ Paired' /\ Announced'
    BY <1>1, <2>1, <2>2, <2>3, ReportKeeps DEF Kinds
  <2> QED
    BY <2>1, <2>4 DEF IInv, OneEnding
<1> QED
  BY <1>3, <1>4, <1>5, <1>6, <1>7

\* Handling an event moves the values ahead, and the pairs with them.
LEMMA CheckEventKeeps ==
  ASSUME IInv, TypeOK', check_event
  PROVE  IInv'
<1>1. /\ Len(events) \in Nat
      /\ Len(events') = Len(events) - 1
      /\ \A k \in 0 .. Len(events') : Balance(k)' = Balance(k + 1)
  BY HandleBalance DEF IInv
<1>2. UNCHANGED <<conn, ending, protos>>
  BY DEF check_event, ioVars
<1>3. /\ events \in Seq(Events) /\ events # <<>> /\ events' \in Seq(Events)
      /\ events' = Tail(events) /\ Head(events) = events[1]
      /\ Handle(events[1].what)
      /\ \A i \in 1 .. Len(events') : events'[i] = events[i + 1]
  BY HeadTailProperties DEF check_event, IInv, TypeOK
<1>4. Len(events) \in Nat \ {0} /\ 1 \in 1 .. Len(events)
  BY <1>3, EmptySeq
<1>5. InBalance'
  <2>1. PICK n \in 0 .. Len(events') : n = Len(events')
    BY <1>1, <1>4
  <2>2. Balance(Len(events))' = Balance(Len(events))
    <3>1. Balance(n)' = Balance(Len(events))'
      BY <2>1 DEF Balance
    <3>2. n + 1 = Len(events)
      BY <1>1, <2>1
    <3> QED
      BY <1>1, <3>1, <3>2
  <2>3. Outcome' = Outcome
    BY <1>2 DEF Outcome, Up
  <2> QED
    BY <2>2, <2>3 DEF IInv, InBalance
<1>6. Ahead'
  <2>1. ASSUME NEW k \in 0 .. Len(events') PROVE Balance(k)' >= -protos'
    <3>1. k + 1 \in 0 .. Len(events)
      BY <1>1
    <3> QED
      BY <1>1, <1>2, <3>1 DEF IInv, Ahead
  <2> QED
    BY <2>1 DEF Ahead
<1>7. Named'
  <2>1. ASSUME NEW i \in 1 .. Len(events')
        PROVE  i + 1 \in 1 .. Len(events) /\ events'[i] = events[i + 1]
    BY <1>1, <1>3
  <2> QED
    BY <1>2, <2>1 DEF IInv, Named
<1>8. ASSUME NEW i \in 1 .. Len(events'), events'[i].what = "no_detail"
      PROVE  IF i < Len(events')
               THEN /\ events'[i + 1].what = "disconnected"
                    /\ conn'[events'[i + 1].from] = "no_detail"
               ELSE \E c \in ending' : conn'[c] = "no_detail"
  <2>1. i + 1 \in 1 .. Len(events) /\ events[i + 1].what = "no_detail"
    BY <1>1, <1>3, <1>8
  <2>2. CASE i < Len(events')
    <3>1. i + 1 < Len(events) /\ i + 1 \in 1 .. Len(events')
      BY <1>1, <2>2
    <3>2. /\ events[(i + 1) + 1].what = "disconnected"
          /\ conn[events[(i + 1) + 1].from] = "no_detail"
      BY <2>1, <3>1 DEF IInv, Paired
    <3> QED
      BY <1>2, <1>3, <2>2, <3>1, <3>2
  <2>3. CASE i = Len(events')
    <3>1. ~(i + 1 < Len(events)) /\ ~(i < Len(events'))
      BY <1>1, <2>3
    <3>2. \E c \in ending : conn[c] = "no_detail"
      BY <2>1, <3>1 DEF IInv, Paired
    <3> QED
      BY <1>2, <3>1, <3>2
  <2> QED
    BY <1>1, <2>2, <2>3
\* A correction is pending after the step exactly if a failure without detail
\* has just been handled.
<1>9. /\ handshake_failed_no_detail_' # 0 <=> events[1].what = "no_detail"
      /\ handshake_failed_no_detail_' \in {0, 1}
  <2>1. /\ handshake_failed_no_detail_ \in Nat
        /\ handshake_failed_no_detail_ # 0 =>
             handshake_failed_no_detail_ = 1 /\ events[1].what = "disconnected"
    BY <1>3 DEF IInv, TypeOK, Paired
  <2> QED
    BY <1>3, <2>1
       DEF Handle, on_event_connected, on_event_handshake_failed_protocol,
           on_event_handshake_succeeded, on_event_disconnected,
           on_event_handshake_failed_no_detail, counters
<1>10. ASSUME handshake_failed_no_detail_' # 0
       PROVE  IF events' = <<>>
                THEN \E c \in ending' : conn'[c] = "no_detail"
                ELSE /\ events'[1].what = "disconnected"
                     /\ conn'[events'[1].from] = "no_detail"
  <2>1. events[1].what = "no_detail"
    BY <1>9, <1>10
  <2>2. CASE events' = <<>>
    <3>1. ~(1 < Len(events))
      BY <1>1, <1>4, <2>2, EmptySeq, SMTT(30)
    <3>2. \E c \in ending : conn[c] = "no_detail"
      BY <1>4, <2>1, <3>1 DEF IInv, Paired
    <3> QED
      BY <1>2, <2>2, <3>2
  <2>3. CASE events' # <<>>
    <3>1. 1 \in 1 .. Len(events') /\ 1 < Len(events)
      BY <1>1, <1>3, <1>4, <2>3, EmptySeq
    <3>2. events[1 + 1].what = "disconnected" /\ conn[events[1 + 1].from] = "no_detail"
      BY <1>4, <2>1, <3>1 DEF IInv, Paired
    <3> QED
      BY <1>2, <1>3, <2>3, <3>1, <3>2
  <2> QED
    BY <2>2, <2>3
<1>11. Paired'
  BY <1>8, <1>9, <1>10 DEF Paired
<1>12. ASSUME NEW i \in 1 .. Len(events'), events'[i].what = "disconnected",
              conn'[events'[i].from] = "no_detail"
       PROVE  IF i = 1 THEN handshake_failed_no_detail_' # 0
              ELSE events'[i - 1].what = "no_detail"
  <2>1. /\ i + 1 \in 1 .. Len(events) /\ i + 1 # 1 /\ (i + 1) - 1 = i
        /\ events[i + 1].what = "disconnected" /\ conn[events[i + 1].from] = "no_detail"
    BY <1>1, <1>2, <1>3, <1>12
  <2>2. events[(i + 1) - 1].what = "no_detail"
    BY <2>1 DEF IInv, Announced
  <2>3. events[i].what = "no_detail"
    BY <2>1, <2>2
  <2>4. i # 1 => i - 1 \in 1 .. Len(events') /\ (i - 1) + 1 = i
    BY <1>1
  <2> QED
    BY <1>3, <1>9, <2>3, <2>4
<1>13. ASSUME NEW c \in ending', conn'[c] = "no_detail"
       PROVE  IF events' = <<>> THEN handshake_failed_no_detail_' # 0
              ELSE events'[Len(events')].what = "no_detail"
  <2>1. events[Len(events)].what = "no_detail"
    BY <1>2, <1>3, <1>13 DEF IInv, Announced
  <2>2. events' = <<>> => Len(events) = 1
    BY <1>1, <1>4, EmptySeq
  <2>3. events' # <<>> => /\ Len(events') \in 1 .. Len(events')
                          /\ Len(events') + 1 = Len(events)
    BY <1>1, <1>3, <1>4, EmptySeq
  <2> QED
    BY <1>3, <1>9, <2>1, <2>2, <2>3
<1>14. Announced'
  BY <1>12, <1>13 DEF Announced
<1> QED
  BY <1>2, <1>5, <1>6, <1>7, <1>11, <1>14 DEF IInv, OneEnding

\* Every step keeps the invariant.
LEMMA IInvStep == IInv /\ [Next]_vars => IInv'
<1> SUFFICES ASSUME IInv, [Next]_vars PROVE IInv'
  OBVIOUS
<1>1. TypeOK'
  BY TypeOKStep DEF IInv
<1>2. CASE MonitorExit \/ RequestStop \/ UNCHANGED vars
  <2>1. UNCHANGED <<conn, ending, protos, events, handshake_failed_no_detail_,
                    connected_>>
    BY <1>2 DEF MonitorExit, RequestStop, vars, ioVars, counters
  <2>2. InBalance' /\ Ahead'
    BY <2>1 DEF IInv, InBalance, Ahead, Balance, Outcome, Up
  <2>3. Named' /\ Paired' /\ Announced' /\ OneEnding'
    BY <2>1 DEF IInv, Named, Paired, Announced, OneEnding
  <2> QED
    BY <1>1, <2>2, <2>3 DEF IInv
<1> QED
  BY <1>1, <1>2, IoKeeps, CheckEventKeeps DEF Next, IoThread, MonitorThread

\* Nothing has been reported or counted.
LEMMA InitIInv == Init => IInv
<1> SUFFICES ASSUME Init PROVE IInv
  OBVIOUS
<1>1. TypeOK /\ OneEnding /\ Named /\ Paired /\ Announced
  <2>1. TypeOK
    <3>1. /\ protos \in Nat /\ connected_total_ \in Nat /\ handshaked_total_ \in Nat
          /\ handshake_failed_no_detail_ \in Nat /\ connected_ \in Int
          /\ events \in Seq(Events)
      BY DEF Init
    <3>2. stop \in BOOLEAN
      BY DEF Init
    <3> QED
      BY <3>1, <3>2 DEF Init, TypeOK, States
  <2>2. OneEnding /\ Named /\ Paired /\ Announced
    BY DEF Init, OneEnding, Named, Paired, Announced
  <2> QED
    BY <2>1, <2>2
<1>2. Len(events) = 0 /\ Balance(0) = 0
  BY <1>1, BalanceType DEF Init
<1>3. Up = {} /\ Outcome = 0
  BY FS_EmptySet DEF Init, Up, Outcome
<1>4. InBalance /\ Ahead
  BY <1>2, <1>3 DEF Init, InBalance, Ahead
<1> QED
  BY <1>1, <1>4 DEF IInv

----------------------------------------------------------------------------
(* The theorems *)

\* IInv holds in every reachable state.
THEOREM Invariance == Spec => []IInv
BY InitIInv, IInvStep, PTL DEF Spec

\* Every variable of the monitor keeps to its domain; the corrections never
\* become negative.
THEOREM TypeCorrect == Spec => []TypeOK
<1>1. IInv => TypeOK
  BY DEF IInv
<1> QED
  BY Invariance, <1>1, PTL

\* A "disconnected" that is handled finds a correction pending exactly if its
\* connection failed without detail.
LEMMA EndMeetsCorrection ==
  ASSUME IInv, check_event, Head(events).what = "disconnected"
  PROVE  IF conn[Head(events).from] = "no_detail"
           THEN /\ handshake_failed_no_detail_' = handshake_failed_no_detail_ - 1
                /\ connected_' = connected_
           ELSE /\ connected_' = connected_ - 1
                /\ handshake_failed_no_detail_' = handshake_failed_no_detail_
<1>1. events \in Seq(Events) /\ events # <<>> /\ on_event_disconnected
  BY DEF check_event, Handle, IInv, TypeOK
<1>2. Head(events) = events[1] /\ 1 \in 1 .. Len(events)
  BY <1>1, HeadTailProperties, EmptySeq
<1>3. handshake_failed_no_detail_ # 0 <=> conn[events[1].from] = "no_detail"
  BY <1>1, <1>2 DEF IInv, Paired, Announced
<1>4. handshake_failed_no_detail_ \in Nat
  BY DEF IInv, TypeOK
<1> QED
  BY <1>1, <1>2, <1>3, <1>4 DEF on_event_disconnected

\* For any connections, in any order of reports and however far mon_th_ is
\* behind: on_event_disconnected takes a correction back for a connection
\* that failed without detail, and for no other.
THEOREM CorrectionsMatch == Spec => CorrectionMeetsItsEnd
<1> DEFINE Met ==
      events # <<>> /\ events' = Tail(events) /\ Head(events).what = "disconnected"
      => IF conn[Head(events).from] = "no_detail"
           THEN /\ handshake_failed_no_detail_' = handshake_failed_no_detail_ - 1
                /\ connected_' = connected_
           ELSE /\ connected_' = connected_ - 1
                /\ handshake_failed_no_detail_' = handshake_failed_no_detail_
<1>1. IInv /\ [Next]_vars => [Met]_vars
  <2> SUFFICES ASSUME IInv, Next, events # <<>>, events' = Tail(events),
                      Head(events).what = "disconnected"
               PROVE  Met
    OBVIOUS
  <2>1. events \in Seq(Events) /\ Len(events) \in Nat
        /\ Len(events') = Len(events) - 1
    BY HeadTailProperties, LenProperties DEF IInv, TypeOK
  <2>2. ASSUME NEW e \in Kinds, NEW c \in Conns, Report(e, c) PROVE FALSE
    <3>1. Len(events') = Len(events) + 1
      BY <2>2, ReportBalance DEF IInv
    <3> QED
      BY <2>1, <3>1
  <2>3. ~IoThread
    <3>1. ASSUME NEW c \in Conns,
                 Open(c) \/ Handshake(c) \/ Fail(c) \/ Drop(c) \/ EndFailed(c)
          PROVE  \E e \in Kinds : Report(e, c)
      BY <3>1 DEF Open, Handshake, Fail, Drop, EndFailed, Kinds
    <3> QED
      BY <2>2, <3>1 DEF IoThread
  <2>4. ~MonitorExit /\ ~RequestStop
    <3>1. ASSUME events' = events PROVE FALSE
      <4>1. Len(events') = Len(events)
        BY <3>1, Zenon
      <4> QED
        BY <2>1, <4>1
    <3> QED
      BY <3>1, Zenon DEF MonitorExit, RequestStop
  <2> QED
    BY <2>3, <2>4, EndMeetsCorrection DEF Next, MonitorThread
<1> QED
  BY Invariance, <1>1, PTL DEF Spec, CorrectionMeetsItsEnd

\* Ahead bounds the balance now; if part of it is a correction, the event it
\* is for brings the balance down by one and is bounded as well.
LEMMA BoundedBelow == IInv => NeverBelow
<1> SUFFICES ASSUME IInv PROVE NeverBelow
  OBVIOUS
<1>1. /\ connected_ \in Int /\ handshake_failed_no_detail_ \in Nat /\ protos \in Nat
      /\ Balance(0) = connected_ + handshake_failed_no_detail_
  BY BalanceType DEF IInv
<1>2. events \in Seq(Events) /\ Len(events) \in Nat
  BY LenProperties DEF IInv, TypeOK
<1>3. CASE handshake_failed_no_detail_ = 0
  <2>1. Balance(0) >= -protos
    BY <1>2 DEF IInv, Ahead
  <2> QED
    BY <1>1, <1>3, <2>1 DEF NeverBelow
<1>4. CASE handshake_failed_no_detail_ # 0
  <2>1. handshake_failed_no_detail_ = 1
    BY <1>4 DEF IInv, Paired
  <2>2. CASE events = <<>>
    <3>1. Balance(0) = Outcome /\ ending # {}
      BY <1>4, <2>2 DEF IInv, InBalance, Paired
    <3>2. Cardinality(ending) \in Nat \ {0} /\ Cardinality(Up) \in Nat
      BY <3>1, OutcomeType, FS_EmptySet DEF IInv
    <3> QED
      BY <1>1, <2>1, <3>1, <3>2 DEF NeverBelow, Outcome
  <2>3. CASE events # <<>>
    <3>1. events[1].what = "disconnected" /\ 1 \in 0 .. Len(events)
      BY <1>2, <1>4, <2>3, EmptySeq DEF IInv, Paired
    <3>2. \A x : Counted(events, 1, x) = IF events[1].what = x THEN 1 ELSE 0
      <4>1. \A x : Counted(events, 0, x) = 0
        BY CountedType
      <4>2. \A x : Counted(events, 0 + 1, x)
                     = Counted(events, 0, x) + (IF events[0 + 1].what = x THEN 1 ELSE 0)
        BY CountedNext
      <4> QED
        BY <4>1, <4>2
    <3>3. Balance(1) = connected_ + handshake_failed_no_detail_ - 1
      BY <1>1, <3>1, <3>2 DEF Balance
    <3>4. Balance(1) >= -protos
      BY <3>1 DEF IInv, Ahead
    <3> QED
      BY <1>1, <2>1, <3>3, <3>4 DEF NeverBelow
  <2> QED
    BY <2>2, <2>3
<1> QED
  BY <1>3, <1>4

\* For any connections: also while mon_th_ is behind, get_connection() is
\* below zero at most by the protocol failures, and at most one correction
\* is pending.
THEOREM CountBoundedBelow == Spec => []NeverBelow
BY Invariance, BoundedBelow, PTL

\* With nothing queued and nothing to come no correction is left.
LEMMA Settles == IInv => CountSettled
<1> SUFFICES ASSUME IInv, events = <<>>, ending = {}
             PROVE  /\ handshake_failed_no_detail_ = 0
                    /\ connected_ = Cardinality(Up) - protos
  BY DEF CountSettled
<1>1. handshake_failed_no_detail_ = 0
  BY DEF IInv, Paired
<1>2. /\ Balance(0) = Outcome
      /\ Balance(0) = connected_ + handshake_failed_no_detail_
      /\ connected_ \in Int /\ protos \in Nat /\ Cardinality(Up) \in Nat
  BY BalanceType, OutcomeType DEF IInv, InBalance
<1>3. Cardinality(ending) = 0
  BY FS_EmptySet
<1> QED
  BY <1>1, <1>2, <1>3 DEF Outcome

\* For any connections: a monitor that has caught up is off by the protocol
\* failures and by nothing else.
THEOREM CaughtUpIsExact == Spec => []CountSettled
BY Invariance, Settles, PTL
=============================================================================
