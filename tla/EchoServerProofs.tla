-------------------------- MODULE EchoServerProofs --------------------------
(***************************************************************************)
(* What stopping means for the worker threads of the echo servers, the     *)
(* types of their state, and that a session echoes the bytes it is sent,   *)
(* for any clients, number of threads and bytes, and sequence of calls.    *)
(***************************************************************************)
EXTENDS EchoServer, FiniteSetTheorems, SequenceTheorems, TLAPS

\* The worker counts are numbers, and there are workers only after a start().
Counts ==
  /\ guard \in BOOLEAN
  /\ idle \in Nat
  /\ exited \in Nat
  /\ starts \in Nat
  /\ idle > 0 \/ exited > 0 \/ jobs # {} \/ stopped => guard \/ starts > 0

\* A thread that has left run(), and an owner inside or past stop(), have
\* seen the context stopped; past stop() no handler is running.
StopOrder ==
  /\ exited > 0 => stopped
  /\ owner # "free" => stopped
  /\ ended => stopped /\ jobs = {}

\* Who has stopped the context: with a guard, only the owner; without one,
\* the last worker, when there was nothing left to run.
WhoStopped ==
  /\ guard /\ stopped => owner # "free" \/ ended
  /\ ~guard => owner = "free" /\ ~ended
  /\ ~guard /\ stopped =>
       /\ jobs = {}
       /\ \A l \in Listeners : ~Spawned(l)
       /\ \A c \in Clients : ~Live(c)

Phases == {"none", "pending", "refused", "read", "write", "over"}

Inv == Counts /\ StopOrder /\ WhoStopped /\ ses \in [Clients -> Phases]

\* A handler is run only by a worker that took it, hence not when the context
\* of an unguarded program is stopped, nor past stop().
LEMMA RunKeeps ==
  ASSUME Inv, NEW k, Run(k)
  PROVE  Inv'
<1>1. /\ jobs # {} /\ jobs' = jobs \ {k} /\ idle' = idle + 1
      /\ UNCHANGED <<guard, stopped, owner, ended, starts, exited>>
  BY DEF Run
<1>2. Counts'
  BY <1>1 DEF Inv, Counts
<1>3. StopOrder'
  BY <1>1 DEF Inv, StopOrder
<1>4. WhoStopped'
  BY <1>1 DEF Inv, WhoStopped
<1>5. ses' \in [Clients -> Phases]
  BY DEF Inv, Phases, Run, Resume, SessionRead, SessionWrite, SessionError,
         ListenerBind, ListenerAccept, ListenerError, Dies
<1> QED
  BY <1>2, <1>3, <1>4, <1>5 DEF Inv

\* Taking a handler needs a context that is not stopped.
LEMMA TakeKeeps ==
  ASSUME Inv, NEW k, Take(k)
  PROVE  Inv'
<1>1. /\ ~stopped /\ idle > 0 /\ idle' = idle - 1
      /\ UNCHANGED <<guard, stopped, owner, ended, starts, exited, ses>>
  BY DEF Take
<1>2. Counts'
  BY <1>1 DEF Inv, Counts
<1>3. StopOrder' /\ WhoStopped'
  BY <1>1 DEF Inv, StopOrder, WhoStopped
<1> QED
  BY <1>1, <1>2, <1>3 DEF Inv

\* run() returns from a stopped context, or from one without a guard that has
\* nothing left to run and that it stops.
LEMMA ReturnKeeps ==
  ASSUME Inv, Return
  PROVE  Inv'
<1>1. /\ idle > 0 /\ idle' = idle - 1 /\ exited' = exited + 1 /\ stopped'
      /\ UNCHANGED <<guard, owner, ended, starts, jobs, lis, ses>>
  BY DEF Return
<1>2. Counts'
  BY <1>1 DEF Inv, Counts
<1>3. StopOrder'
  BY <1>1 DEF Inv, StopOrder
<1>4. WhoStopped'
  <2>1. CASE stopped
    BY <1>1, <2>1 DEF Inv, WhoStopped, Spawned, Live
  <2>2. CASE ~HasWork /\ jobs = {}
    BY <1>1, <2>2 DEF Inv, WhoStopped, HasWork, Spawned, Live
  <2> QED
    BY <2>1, <2>2 DEF Return
<1> QED
  BY <1>1, <1>2, <1>3, <1>4 DEF Inv

\* start() adds workers and a listener; frame does so once, before anything
\* could have stopped.
LEMMA StartKeeps ==
  ASSUME Inv, Start
  PROVE  Inv'
<1>1. /\ starts' = starts + 1
      /\ idle' = idle + (IF guard THEN Threads ELSE 1)
      /\ UNCHANGED <<guard, stopped, owner, ended, jobs, exited, ses>>
      /\ ~guard => starts = 0
  BY DEF Start, Inv, Counts
<1>2. Counts'
  BY <1>1, EchoAssumption DEF Inv, Counts
<1>3. StopOrder'
  BY <1>1 DEF Inv, StopOrder
<1>4. WhoStopped'
  <2>1. CASE guard
    BY <1>1, <2>1 DEF Inv, WhoStopped
  <2>2. CASE ~guard
    BY <1>1, <2>2 DEF Inv, WhoStopped, Counts
  <2> QED
    BY <2>1, <2>2 DEF Inv, Counts
<1> QED
  BY <1>1, <1>2, <1>3, <1>4 DEF Inv

\* stop() stops the context before it joins.
LEMMA StopKeeps ==
  ASSUME Inv, Stop
  PROVE  Inv'
<1>1. /\ guard /\ stopped' /\ owner' # "free"
      /\ UNCHANGED <<guard, ended, starts, idle, jobs, exited, ses>>
  BY DEF Stop, threadVars
<1> QED
  BY <1>1 DEF Inv, Counts, StopOrder, WhoStopped

\* The joins leave no handler running.
LEMMA JoinKeeps ==
  ASSUME Inv, Join
  PROVE  Inv'
<1>1. /\ guard /\ stopped /\ jobs = {} /\ exited' = 0 /\ ended'
      /\ UNCHANGED <<guard, stopped, starts, idle, jobs>>
  BY DEF Join, Inv, WhoStopped, StopOrder, Counts
<1>2. ses' \in [Clients -> Phases]
  BY DEF Join, Inv, Phases
<1> QED
  BY <1>1, <1>2 DEF Inv, Counts, StopOrder, WhoStopped

\* A client changes no session into a live one.
LEMMA ClientKeeps ==
  ASSUME Inv, ClientStep
  PROVE  Inv' /\ \A c \in Clients : Live(c)' => Live(c)
<1>1. UNCHANGED <<guard, stopped, owner, ended, starts, idle, jobs, exited, lis>>
  BY DEF ClientStep, threadVars
<1>2. PICK d \in Clients : Connect(d) \/ Send(d) \/ Shut(d)
  BY DEF ClientStep
<1>3. \A c \in Clients : Live(c)' => Live(c)
  BY <1>2 DEF Connect, Send, Shut, Live, Inv
<1>4. ses' \in [Clients -> Phases]
  BY <1>2 DEF Connect, Send, Shut, Inv, Phases
<1>5. Counts' /\ StopOrder'
  BY <1>1 DEF Inv, Counts, StopOrder
<1>6. WhoStopped'
  BY <1>1, <1>3 DEF Inv, WhoStopped, Spawned
<1> QED
  BY <1>3, <1>4, <1>5, <1>6 DEF Inv

\* Every step keeps the invariant.
LEMMA NextKeeps ==
  ASSUME Inv, [Next]_vars
  PROVE  Inv'
<1>1. ASSUME NEW k \in Coroutines, Take(k) \/ Run(k)
      PROVE  Inv'
  BY <1>1, TakeKeeps, RunKeeps
<1>2. CASE UNCHANGED vars
  BY <1>2 DEF Inv, Counts, StopOrder, WhoStopped, Spawned, Live, vars, threadVars
<1> QED
  BY <1>1, <1>2, ClientKeeps, ReturnKeeps, StartKeeps, StopKeeps, JoinKeeps
     DEF Next

\* The invariant holds of the programs before start().
LEMMA InitInv == Init => Inv
BY DEF Init, Inv, Phases, Counts, StopOrder, WhoStopped

\* Past stop() nothing runs: no handler is taken or finished, and no session
\* comes to life.
LEMMA QuietStep ==
  ASSUME Inv, ended, [Next]_vars
  PROVE  /\ UNCHANGED <<data, echoed, jobs>>
         /\ \A c \in Clients : Live(c)' => Live(c)
<1>1. stopped /\ jobs = {}
  BY DEF Inv, StopOrder
<1>2. \A k \in Coroutines : ~Take(k) /\ ~Run(k)
  BY <1>1 DEF Take, Run
<1>3. CASE ClientStep
  <2>1. UNCHANGED <<data, echoed, jobs>>
    BY <1>3 DEF ClientStep, Connect, Send, Shut, streamVars, threadVars
  <2> QED
    BY <1>3, <2>1, ClientKeeps
<1>4. CASE Return \/ Start \/ Stop
  BY <1>4 DEF Return, Start, Stop, streamVars, threadVars, Live
<1>5. CASE Join
  <2>1. UNCHANGED <<data, echoed, jobs>>
    BY <1>5 DEF Join, streamVars
  <2>2. \A c \in Clients : Live(c)' => Live(c)
    BY <1>5 DEF Join, Live
  <2> QED
    BY <2>1, <2>2
<1>6. CASE UNCHANGED vars
  BY <1>6 DEF vars, streamVars, threadVars, Live
<1> QED
  BY <1>2, <1>3, <1>4, <1>5, <1>6 DEF Next

\* For any clients, threads and calls: no worker leaves run() before stop(),
\* and that of the unguarded program only when nothing is left to serve.
THEOREM WorkersOnlyLeaveOnStop == Spec => []WorkersStay
<1>1. Inv => WorkersStay
  BY DEF Inv, Counts, StopOrder, WhoStopped, WorkersStay
<1>2. Inv /\ [Next]_vars => Inv'
  BY NextKeeps
<1>3. QED BY <1>1, <1>2, InitInv, PTL DEF Spec

\* For any clients, threads and calls: once stop() has returned nothing is
\* accepted, read or written, whatever is called afterwards.
THEOREM StopIsFinal == Spec => QuietAfterStop
<1>1. Inv /\ [Next]_vars
        => [ended => /\ UNCHANGED <<data, echoed, jobs>>
                     /\ \A c \in Clients : Live(c)' => Live(c)]_vars
  BY QuietStep
<1>2. Inv /\ [Next]_vars => Inv'
  BY NextKeeps
<1>3. QED BY <1>1, <1>2, InitInv, PTL DEF Spec, QuietAfterStop

----------------------------------------------------------------------------
(* Types, and the threads that the calls of start() account for *)

\* The types, with what counting the handlers under way rests on.
Typed == ThreadsOK /\ IsFiniteSet(jobs)

\* A handler under way is one that a thread took out of the idle ones.
LEMMA HandlersCounted ==
  ASSUME IsFiniteSet(jobs), NEW k
  PROVE  /\ Cardinality(jobs) \in Nat
         /\ k \notin jobs => /\ IsFiniteSet(jobs \cup {k})
                            /\ Cardinality(jobs \cup {k}) = Cardinality(jobs) + 1
         /\ k \in jobs => /\ IsFiniteSet(jobs \ {k})
                         /\ Cardinality(jobs \ {k}) = Cardinality(jobs) - 1
BY FS_CardinalityType, FS_AddElement, FS_RemoveElement

\* A coroutine's step keeps the phases of listeners and sessions.
LEMMA ResumeTyped ==
  ASSUME ThreadsOK, NEW k \in Coroutines, Resume(k)
  PROVE  /\ lis' \in [Listeners -> {"none", "bind", "accept", "dead"}]
         /\ ses' \in [Clients -> {"none", "pending", "refused", "read", "write", "over"}]
<1>1. CASE k \in Listeners
  <2>1. CASE ListenerBind(k)
    BY <1>1, <2>1 DEF ListenerBind, Dies, ThreadsOK
  <2>2. CASE ListenerAccept(k)
    BY <1>1, <2>2 DEF ListenerAccept, Pending, ThreadsOK
  <2>3. CASE ListenerError(k)
    BY <1>1, <2>3 DEF ListenerError, Dies, ThreadsOK
  <2> QED
    BY <1>1, <2>1, <2>2, <2>3 DEF Resume
<1>2. CASE k \notin Listeners
  <2>1. CASE SessionRead(k)
    BY <2>1 DEF SessionRead, ThreadsOK
  <2>2. CASE SessionWrite(k)
    BY <2>2 DEF SessionWrite, ThreadsOK
  <2>3. CASE SessionError(k)
    BY <2>3 DEF SessionError, ThreadsOK
  <2> QED
    BY <1>2, <2>1, <2>2, <2>3 DEF Resume
<1> QED
  BY <1>1, <1>2

\* No step makes a thread out of nothing or loses a handler's thread.
LEMMA TypedStep == Typed /\ [Next]_vars => Typed'
<1> SUFFICES ASSUME Typed, [Next]_vars PROVE Typed'
  OBVIOUS
<1> DEFINE n == Cardinality(jobs)
<1>1. /\ n \in Nat /\ idle \in Nat /\ exited \in Nat
      /\ starts \in 0 .. MaxStarts /\ Threads \in Nat \ {0} /\ MaxStarts \in Nat \ {0}
      /\ idle + n + exited <= Threads * starts
      /\ Threads * starts \in Nat
  BY FS_CardinalityType, EchoAssumption DEF Typed, ThreadsOK
<1>2. CASE ClientStep
  <2>1. PICK d \in Clients : Connect(d) \/ Send(d) \/ Shut(d)
    BY <1>2 DEF ClientStep
  <2>2. ses' \in [Clients -> {"none", "pending", "refused", "read", "write", "over"}]
    BY <2>1 DEF Connect, Send, Shut, Typed, ThreadsOK
  <2> QED
    BY <1>2, <2>2 DEF ClientStep, threadVars, Typed, ThreadsOK
<1>3. ASSUME NEW k \in Coroutines, Take(k) PROVE Typed'
  <2>1. /\ IsFiniteSet(jobs') /\ Cardinality(jobs') = n + 1
        /\ jobs' \subseteq Coroutines /\ idle' = idle - 1 /\ idle > 0
        /\ UNCHANGED <<guard, stopped, owner, ended, starts, exited, lis, ses>>
    BY <1>3, HandlersCounted DEF Take, Typed, ThreadsOK
  <2>2. idle' \in Nat /\ idle' + (n + 1) + exited <= Threads * starts
    BY <1>1, <2>1
  <2> QED
    BY <2>1, <2>2 DEF Typed, ThreadsOK
<1>4. ASSUME NEW k \in Coroutines, Run(k) PROVE Typed'
  <2>1. /\ IsFiniteSet(jobs') /\ Cardinality(jobs') = n - 1
        /\ jobs' \subseteq Coroutines /\ idle' = idle + 1
        /\ UNCHANGED <<guard, stopped, owner, ended, starts, exited>>
    BY <1>4, HandlersCounted DEF Run, Typed, ThreadsOK
  <2>2. idle' \in Nat /\ idle' + (n - 1) + exited <= Threads * starts
    BY <1>1, <2>1
  <2>3. /\ lis' \in [Listeners -> {"none", "bind", "accept", "dead"}]
        /\ ses' \in [Clients -> {"none", "pending", "refused", "read", "write", "over"}]
    BY <1>4, ResumeTyped DEF Run, Typed
  <2> QED
    BY <2>1, <2>2, <2>3 DEF Typed, ThreadsOK
<1>5. CASE Return
  <2>1. idle' \in Nat /\ exited' \in Nat /\ idle' + n + exited' <= Threads * starts
    BY <1>1, <1>5 DEF Return
  <2> QED
    BY <1>5, <2>1 DEF Return, Typed, ThreadsOK
<1>6. CASE Start
  <2>1. /\ starts' = starts + 1 /\ starts < MaxStarts
        /\ \E t \in {Threads, 1} : idle' = idle + t
        /\ lis' = [lis EXCEPT ![starts + 1] = "bind"]
        /\ UNCHANGED <<guard, stopped, owner, ended, jobs, exited, ses>>
    BY <1>1, <1>6 DEF Start
  <2>2. starts' \in 0 .. MaxStarts /\ starts + 1 \in Listeners
    BY <1>1, <2>1 DEF Listeners
  <2>3. Threads * starts' = Threads * starts + Threads
    BY <1>1, <2>1
  <2>4. idle' \in Nat /\ idle' + n + exited <= Threads * starts'
    BY <1>1, <2>1, <2>3
  <2>5. lis' \in [Listeners -> {"none", "bind", "accept", "dead"}]
    BY <2>1, <2>2 DEF Typed, ThreadsOK
  <2> QED
    BY <2>1, <2>2, <2>4, <2>5 DEF Typed, ThreadsOK
<1>7. CASE Stop
  BY <1>7 DEF Stop, threadVars, Typed, ThreadsOK
<1>8. CASE Join
  <2>1. idle + n + 0 <= Threads * starts
    BY <1>1
  <2>2. /\ lis' \in [Listeners -> {"none", "bind", "accept", "dead"}]
        /\ ses' \in [Clients -> {"none", "pending", "refused", "read", "write", "over"}]
    BY <1>8 DEF Join, Typed, ThreadsOK
  <2> QED
    BY <1>8, <2>1, <2>2 DEF Join, Typed, ThreadsOK
<1>9. CASE UNCHANGED vars
  BY <1>9 DEF vars, threadVars, Typed, ThreadsOK
<1> QED
  BY <1>2, <1>3, <1>4, <1>5, <1>6, <1>7, <1>8, <1>9 DEF Next

\* Before start() there is no thread.
LEMMA InitTyped == Init => Typed
<1> SUFFICES ASSUME Init PROVE Typed
  OBVIOUS
<1>1. IsFiniteSet(jobs) /\ jobs = {} /\ Cardinality(jobs) = 0
  BY FS_EmptySet DEF Init
<1>2. idle + Cardinality(jobs) + exited <= Threads * starts
  BY <1>1, EchoAssumption DEF Init
<1>3. starts \in 0 .. MaxStarts /\ idle \in Nat /\ exited \in Nat
  BY EchoAssumption DEF Init
<1>4. guard \in BOOLEAN /\ stopped \in BOOLEAN /\ ended \in BOOLEAN
  BY DEF Init
<1> QED
  BY <1>1, <1>2, <1>3, <1>4 DEF Init, Typed, ThreadsOK

----------------------------------------------------------------------------
(* The stream of a session *)

\* The three parts of a stream are byte sequences; a session that is about to
\* read has written all it had read before.
Streams ==
  /\ sent \in [Clients -> Nat]
  /\ rx \in [Clients -> Seq(Nat)]
  /\ data \in [Clients -> Seq(Nat)]
  /\ echoed \in [Clients -> Seq(Nat)]
  /\ \A c \in Clients : ses[c] \in {"none", "pending", "read"} => data[c] = <<>>

StreamInv == Streams /\ EchoExact

\* A transfer takes a first part and leaves the rest.
LEMMA SplitAnywhere ==
  ASSUME NEW s \in Seq(Nat), NEW n \in 1 .. Len(s)
  PROVE  /\ SubSeq(s, 1, n) \in Seq(Nat)
         /\ SubSeq(s, n + 1, Len(s)) \in Seq(Nat)
         /\ SubSeq(s, 1, n) \o SubSeq(s, n + 1, Len(s)) = s
         /\ n = Len(s) => SubSeq(s, n + 1, Len(s)) = <<>>
<1>1. Len(s) \in Nat /\ n \in Nat /\ 1 <= n /\ n <= Len(s)
  BY LenProperties
<1>2. \A i \in 1 .. Len(s) : s[i] \in Nat
  BY ElementOfSeq
<1>3. SubSeq(s, 1, n) \in Seq(Nat) /\ SubSeq(s, n + 1, Len(s)) \in Seq(Nat)
  BY <1>1, <1>2, SubSeqProperties
<1>4. SubSeq(s, 1, n) \o SubSeq(s, n + 1, Len(s)) = SubSeq(s, 1, Len(s))
  <2>1. 1 \in 1 .. Len(s) + 1 /\ n \in 1 - 1 .. Len(s) /\ Len(s) \in n .. Len(s)
    BY <1>1
  <2> QED
    BY <2>1, ConcatAdjacentSubSeq
<1>5. SubSeq(s, 1, Len(s)) = s
  BY SubSeqFull
<1>6. n = Len(s) => SubSeq(s, n + 1, Len(s)) = <<>>
  BY <1>1, SubSeqEmpty
<1> QED
  BY <1>3, <1>4, <1>5, <1>6

\* Transfers of bytes regroup a stream and change nothing else.
LEMMA Regroup ==
  ASSUME NEW s \in Seq(Nat), NEW t \in Seq(Nat), NEW u \in Seq(Nat)
  PROVE  (s \o t) \o u = s \o (t \o u)
BY ConcatAssociative, SMTT(30)

\* The i-th byte sent is i: one more byte makes the stream one longer.
LEMMA NextByte ==
  ASSUME NEW n \in Nat
  PROVE  /\ [i \in 1 .. n |-> i] \in Seq(Nat)
         /\ Append([i \in 1 .. n |-> i], n + 1) = [i \in 1 .. n + 1 |-> i]
<1> DEFINE s == [i \in 1 .. n |-> i]
           t == [i \in 1 .. n + 1 |-> i]
<1>1. s \in Seq(Nat) /\ Len(s) = n /\ t \in Seq(Nat) /\ Len(t) = n + 1
  OBVIOUS
<1>2. /\ Append(s, n + 1) \in Seq(Nat) /\ Len(Append(s, n + 1)) = n + 1
      /\ \A i \in 1 .. n : Append(s, n + 1)[i] = s[i]
      /\ Append(s, n + 1)[n + 1] = n + 1
  BY <1>1, AppendProperties
<1>3. \A i \in 1 .. n + 1 : Append(s, n + 1)[i] = t[i]
  BY <1>2
<1>4. Append(s, n + 1) = t
  BY <1>1, <1>2, <1>3, SeqEqual
<1> QED
  BY <1>1, <1>4

\* A read moves bytes from the kernel to an empty buffer.
LEMMA ReadExact ==
  ASSUME StreamInv, NEW c \in Clients, SessionRead(c), UNCHANGED clientVars,
         ses \in [Clients -> Phases]
  PROVE  StreamInv'
<1>1. PICK n \in 1 .. Len(rx[c]) :
        /\ data' = [data EXCEPT ![c] = SubSeq(rx[c], 1, n)]
        /\ rx' = [rx EXCEPT ![c] = SubSeq(@, n + 1, Len(@))]
  BY DEF SessionRead
<1>2. /\ ses[c] = "read" /\ ses' = [ses EXCEPT ![c] = "write"]
      /\ UNCHANGED <<sent, echoed>>
  BY DEF SessionRead, clientVars
<1> DEFINE a == SubSeq(rx[c], 1, n)
           b == SubSeq(rx[c], n + 1, Len(rx[c]))
<1>3. rx[c] \in Seq(Nat) /\ echoed[c] \in Seq(Nat) /\ data[c] = <<>>
  BY <1>2 DEF StreamInv, Streams
<1>4. a \in Seq(Nat) /\ b \in Seq(Nat) /\ a \o b = rx[c]
  BY <1>3, SplitAnywhere
<1>5. Streams'
  BY <1>1, <1>2, <1>4 DEF StreamInv, Streams
<1>6. (echoed[c] \o a) \o b = echoed[c] \o data[c] \o rx[c]
  <2> HIDE DEF a, b
  <2>1. (echoed[c] \o a) \o b = echoed[c] \o (a \o b)
    BY <1>3, <1>4, Regroup
  <2>2. echoed[c] \o data[c] = echoed[c]
    BY <1>3, ConcatEmptySeq
  <2> QED
    BY <1>4, <2>1, <2>2
<1>7. ASSUME NEW d \in Clients
      PROVE  (echoed[d] \o data[d] \o rx[d])' = [i \in 1 .. sent'[d] |-> i]
  <2>1. CASE d = c
    BY <1>1, <1>2, <1>6, <2>1 DEF StreamInv, Streams, EchoExact
  <2>2. CASE d # c
    BY <1>1, <1>2, <2>2 DEF StreamInv, Streams, EchoExact
  <2> QED
    BY <2>1, <2>2
<1> QED
  BY <1>5, <1>7 DEF StreamInv, EchoExact

\* A write moves bytes from the buffer to the client, and the session reads
\* again only when the buffer is empty.
LEMMA WriteExact ==
  ASSUME StreamInv, NEW c \in Clients, SessionWrite(c), UNCHANGED clientVars,
         ses \in [Clients -> Phases]
  PROVE  StreamInv'
<1>1. PICK n \in 1 .. Len(data[c]) :
        /\ echoed' = [echoed EXCEPT ![c] = @ \o SubSeq(data[c], 1, n)]
        /\ data' = [data EXCEPT ![c] = SubSeq(@, n + 1, Len(@))]
        /\ ses' = [ses EXCEPT ![c] = IF n < Len(data[c]) THEN @ ELSE "read"]
  BY DEF SessionWrite
<1>2. ses[c] = "write" /\ UNCHANGED <<sent, rx>>
  BY DEF SessionWrite, clientVars
<1> DEFINE a == SubSeq(data[c], 1, n)
           b == SubSeq(data[c], n + 1, Len(data[c]))
<1>3. /\ rx[c] \in Seq(Nat) /\ echoed[c] \in Seq(Nat) /\ data[c] \in Seq(Nat)
      /\ Len(data[c]) \in Nat
  BY DEF StreamInv, Streams
<1>4. /\ a \in Seq(Nat) /\ b \in Seq(Nat) /\ a \o b = data[c]
      /\ n = Len(data[c]) => b = <<>>
  BY <1>3, SplitAnywhere
<1>5. echoed[c] \o a \in Seq(Nat)
  BY <1>3, <1>4, ConcatProperties
<1>6. ses'[c] = "read" => data'[c] = <<>>
  <2>1. ses'[c] = "read" => n = Len(data[c])
    BY <1>1, <1>2, <1>3
  <2> QED
    BY <1>1, <1>4, <2>1 DEF StreamInv, Streams
<1>7. ASSUME NEW d \in Clients, ses'[d] \in {"none", "pending", "read"}
      PROVE  data'[d] = <<>>
  <2>1. CASE d = c
    BY <1>1, <1>2, <1>6, <1>7, <2>1
  <2>2. CASE d # c
    BY <1>1, <1>7, <2>2 DEF StreamInv, Streams
  <2> QED
    BY <2>1, <2>2
<1>8. Streams'
  BY <1>1, <1>2, <1>4, <1>5, <1>7 DEF StreamInv, Streams
<1>9. (echoed[c] \o a) \o b = echoed[c] \o data[c]
  <2> HIDE DEF a, b
  <2>1. (echoed[c] \o a) \o b = echoed[c] \o (a \o b)
    BY <1>3, <1>4, Regroup, ZenonT(40)
  <2> QED
    BY <1>4, <2>1
<1>10. ASSUME NEW d \in Clients
      PROVE  (echoed[d] \o data[d] \o rx[d])' = [i \in 1 .. sent'[d] |-> i]
  <2>1. CASE d = c
    BY <1>1, <1>2, <1>9, <2>1 DEF StreamInv, Streams, EchoExact
  <2>2. CASE d # c
    BY <1>1, <1>2, <2>2 DEF StreamInv, Streams, EchoExact
  <2> QED
    BY <2>1, <2>2
<1> QED
  BY <1>8, <1>10 DEF StreamInv, EchoExact

\* A client's byte goes to the end of the stream.
LEMMA SendExact ==
  ASSUME StreamInv, NEW c \in Clients, Send(c)
  PROVE  StreamInv'
<1>1. /\ sent' = [sent EXCEPT ![c] = @ + 1]
      /\ rx' = [rx EXCEPT ![c] = Append(@, sent[c] + 1)]
      /\ UNCHANGED <<ses, data, echoed>>
  BY DEF Send
<1> DEFINE x == echoed[c] \o data[c]
           e == sent[c] + 1
<1>2. /\ rx[c] \in Seq(Nat) /\ echoed[c] \in Seq(Nat) /\ data[c] \in Seq(Nat)
      /\ sent[c] \in Nat /\ e \in Nat
  BY DEF StreamInv, Streams
<1>3. x \in Seq(Nat) /\ Append(rx[c], e) \in Seq(Nat) /\ <<e>> \in Seq(Nat)
  BY <1>2, ConcatProperties, AppendProperties
<1>4. Streams'
  BY <1>1, <1>2, <1>3 DEF StreamInv, Streams
<1>5. x \o Append(rx[c], e) = Append(x \o rx[c], e)
  <2> HIDE DEF x, e
  <2>1. Append(rx[c], e) = rx[c] \o <<e>>
    BY <1>2, AppendIsConcat
  <2>2. x \o rx[c] \in Seq(Nat)
    BY <1>2, <1>3, ConcatProperties
  <2>3. Append(x \o rx[c], e) = (x \o rx[c]) \o <<e>>
    BY <1>2, <2>2, AppendIsConcat
  <2>4. \A y \in Seq(Nat) : (x \o rx[c]) \o y = x \o (rx[c] \o y)
    BY <1>2, <1>3, Regroup
  <2> QED
    BY <1>3, <2>1, <2>3, <2>4
<1>6. x \o rx[c] = [i \in 1 .. sent[c] |-> i]
  BY DEF StreamInv, EchoExact
<1>7. Append([i \in 1 .. sent[c] |-> i], e) = [i \in 1 .. e |-> i]
  BY <1>2, NextByte
<1>8. x \o Append(rx[c], e) = [i \in 1 .. e |-> i]
  BY <1>5, <1>6, <1>7
<1>9. ASSUME NEW d \in Clients
      PROVE  (echoed[d] \o data[d] \o rx[d])' = [i \in 1 .. sent'[d] |-> i]
  <2>1. CASE d = c
    BY <1>1, <1>8, <2>1 DEF StreamInv, Streams
  <2>2. CASE d # c
    BY <1>1, <2>2 DEF StreamInv, Streams, EchoExact
  <2> QED
    BY <2>1, <2>2
<1> QED
  BY <1>4, <1>9 DEF StreamInv, EchoExact

\* A step that moves no bytes and leaves a session reading only if it was to
\* read before keeps every stream.
LEMMA NothingMoved ==
  ASSUME StreamInv, UNCHANGED <<sent, rx, data, echoed>>,
         \A c \in Clients : ses'[c] \in {"none", "pending", "read"}
                             => ses[c] \in {"none", "pending", "read"}
  PROVE  StreamInv'
BY DEF StreamInv, Streams, EchoExact

\* Every step keeps every stream exact.
LEMMA StreamStep == Typed /\ StreamInv /\ [Next]_vars => StreamInv'
<1> SUFFICES ASSUME Typed, StreamInv, [Next]_vars PROVE StreamInv'
  OBVIOUS
<1> DEFINE Unread == {"none", "pending", "read"}
<1>1. ses \in [Clients -> Phases]
  BY DEF Typed, ThreadsOK, Phases
<1>2. CASE ClientStep
  <2>1. PICK d \in Clients : Connect(d) \/ Send(d) \/ Shut(d)
    BY <1>2 DEF ClientStep
  <2>2. CASE Connect(d)
    BY <1>1, <2>2, NothingMoved DEF Connect, clientVars, streamVars
  <2>3. CASE Shut(d)
    BY <1>1, <2>3, NothingMoved DEF Shut, streamVars
  <2> QED
    BY <2>1, <2>2, <2>3, SendExact
<1>3. ASSUME NEW k \in Coroutines, Take(k) PROVE StreamInv'
  BY <1>3, NothingMoved DEF Take, clientVars, streamVars
<1>4. ASSUME NEW k \in Coroutines, Run(k) PROVE StreamInv'
  <2>1. UNCHANGED clientVars /\ Resume(k)
    BY <1>4 DEF Run
  <2>2. CASE k \in Listeners
    <3>1. UNCHANGED <<sent, rx, data, echoed>>
      BY <2>1, <2>2 DEF Resume, ListenerBind, ListenerAccept, ListenerError,
                        Dies, clientVars, streamVars
    <3>2. \A c \in Clients : ses'[c] \in Unread => ses[c] \in Unread
      BY <1>1, <2>1, <2>2 DEF Resume, ListenerBind, ListenerAccept,
                              ListenerError, Dies, Pending
    <3> QED
      BY <3>1, <3>2, NothingMoved
  <2>3. CASE k \notin Listeners
    <3>1. k \in Clients
      BY <2>3 DEF Coroutines
    <3>2. CASE SessionError(k)
      BY <1>1, <2>1, <3>1, <3>2, NothingMoved
         DEF SessionError, clientVars, streamVars
    <3> QED
      BY <1>1, <2>1, <2>3, <3>1, <3>2, ReadExact, WriteExact DEF Resume
  <2> QED
    BY <2>2, <2>3
<1>5. CASE Return \/ Start \/ Stop
  BY <1>5, NothingMoved DEF Return, Start, Stop, clientVars, streamVars
<1>6. CASE Join
  <2>1. \A c \in Clients : ses'[c] \in Unread => ses[c] \in Unread
    BY <1>1, <1>6 DEF Join
  <2> QED
    BY <1>6, <2>1, NothingMoved DEF Join, clientVars, streamVars
<1>7. CASE UNCHANGED vars
  BY <1>7, NothingMoved DEF vars, clientVars, streamVars
<1> QED
  BY <1>2, <1>3, <1>4, <1>5, <1>6, <1>7 DEF Next

\* Before the first byte every stream is empty.
LEMMA InitStreams == Init => StreamInv
<1> SUFFICES ASSUME Init PROVE StreamInv
  OBVIOUS
<1>1. Streams
  BY DEF Init, Streams
<1>2. [i \in 1 .. 0 |-> i] = <<>>
  <2>1. [i \in 1 .. 0 |-> i] \in Seq(Nat) /\ Len([i \in 1 .. 0 |-> i]) = 0
    OBVIOUS
  <2> QED
    BY <2>1, EmptySeq
<1>3. <<>> \o <<>> = <<>>
  BY ConcatEmptySeq, EmptySeq
<1>4. EchoExact
  BY <1>2, <1>3 DEF Init, EchoExact
<1> QED
  BY <1>1, <1>4 DEF StreamInv

\* For any clients, bytes and threads, and however reads and writes split the
\* stream: what is echoed, buffered and received is what was sent.
THEOREM EchoIsExact == Spec => []EchoExact
<1>1. StreamInv => EchoExact
  BY DEF StreamInv
<1> QED
  BY <1>1, InitStreams, InitTyped, TypedStep, StreamStep, PTL DEF Spec

\* A client's sending side is open, shut down, or reset.
ShutOK == shut \in [Clients -> {"no", "fin", "rst"}]

\* Only the client touches its sending side.
LEMMA ShutStep == ShutOK /\ [Next]_vars => ShutOK'
<1> SUFFICES ASSUME ShutOK, [Next]_vars PROVE ShutOK'
  OBVIOUS
<1>1. CASE ClientStep
  BY <1>1 DEF ClientStep, Connect, Send, Shut, clientVars, ShutOK
<1>2. CASE UNCHANGED shut
  BY <1>2 DEF ShutOK
<1>3. ClientStep \/ UNCHANGED shut
  BY DEF Next, Take, Run, Return, Start, Stop, Join, vars, clientVars
<1> QED
  BY <1>1, <1>2, <1>3

\* Every variable keeps to its domain, and the threads between handlers, in
\* handlers and past run() are never more than start() has made.
THEOREM TypeCorrect == Spec => []TypeOK
<1>1. Typed /\ StreamInv /\ ShutOK => TypeOK
  BY DEF Typed, StreamInv, Streams, ShutOK, TypeOK
<1>2. Init => ShutOK
  BY DEF Init, ShutOK
<1> QED
  BY <1>1, <1>2, InitTyped, TypedStep, InitStreams, StreamStep, ShutStep, PTL DEF Spec
=============================================================================
