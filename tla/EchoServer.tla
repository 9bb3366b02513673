----------------------------- MODULE EchoServer -----------------------------
(***************************************************************************)
(* The coroutine echo servers: class Server (program/coroutine/server.cpp) *)
(* and the single-threaded program/frame/main.cpp, which runs the same     *)
(* coroutines in main and without a work guard.                            *)
(*                                                                         *)
(* A listener and the sessions it spawns are coroutines of one io_context. *)
(* A worker thread in ctx.run() takes a coroutine whose operation has      *)
(* completed and runs it up to its next co_await; different workers run    *)
(* different coroutines side by side.  All coroutines are spawned detached,*)
(* so an exception that leaves one ends it and nothing else.               *)
(***************************************************************************)
EXTENDS Naturals, Sequences, FiniteSets, Functions

CONSTANTS Clients,
          Threads,      \* worker threads of a Server
          MaxBytes,     \* bound: bytes the clients send together
          MaxStarts     \* bound: calls of start()

ASSUME EchoAssumption ==
  /\ {Threads, MaxStarts} \subseteq Nat \ {0}
  /\ MaxBytes \in Nat
  /\ Clients \cap (1 .. MaxStarts) = {}

VARIABLES guard,        \* a work guard is held: Server, not frame
          stopped,      \* ctx has been stopped
          owner,        \* "free", "joining" (in stop), "dying" (in ~Server), "gone"
          ended,        \* some stop() has returned
          starts,       \* calls of start() so far
          idle,         \* workers between two handlers
          jobs,         \* coroutines that a worker is running
          exited,       \* workers whose run() has returned, not yet joined
          lis,          \* per call of start(): "none", "bind", "accept", "dead"
          ses,          \* per client: "none", "pending", "refused",
                        \* "read", "write", "over"
          sent,         \* per client: bytes sent, the i-th being i
          shut,         \* per client: "no", "fin" or "rst"
          rx,           \* per client: received by the kernel, not yet read
          data,         \* per session: read, not yet written
          echoed        \* per session: written

threadVars == <<idle, jobs, exited>>
clientVars == <<sent, shut>>
streamVars == <<rx, data, echoed>>
vars == <<guard, stopped, owner, ended, starts, threadVars, lis, ses,
          clientVars, streamVars>>

Listeners == 1 .. MaxStarts
Listening == \E l \in Listeners : lis[l] = "accept"
Pending   == {c \in Clients : ses[c] = "pending"}
Live(c)   == ses[c] \in {"read", "write"}
Spawned(l) == lis[l] \in {"bind", "accept"}

Init ==
  /\ guard \in BOOLEAN
  /\ stopped = FALSE
  /\ owner = "free"
  /\ ended = FALSE
  /\ starts = 0
  /\ idle = 0 /\ jobs = {} /\ exited = 0
  /\ lis = [l \in Listeners |-> "none"]
  /\ ses = [c \in Clients |-> "none"]
  /\ sent = [c \in Clients |-> 0]
  /\ shut = [c \in Clients |-> "no"]
  /\ rx = [c \in Clients |-> <<>>]
  /\ data = [c \in Clients |-> <<>>]
  /\ echoed = [c \in Clients |-> <<>>]

----------------------------------------------------------------------------
(* Slips: mistaken forms of definitions below, which no specification uses *)
(* and the properties reject.                                              *)

\* no work guard
HasWorkSlip ==
  \/ \E l \in Listeners : Spawned(l)
  \/ \E c \in Clients : Live(c)

\* write_some in place of async_write: what does not fit is forgotten
WriteSlip(c) ==
  /\ ses[c] = "write"
  /\ shut[c] # "rst"
  /\ \E n \in 1 .. Len(data[c]) :
       echoed' = [echoed EXCEPT ![c] = @ \o SubSeq(data[c], 1, n)]
  /\ data' = [data EXCEPT ![c] = <<>>]
  /\ ses' = [ses EXCEPT ![c] = "read"]
  /\ UNCHANGED <<lis, rx>>

\* the threads are detached
JoinSlip ==
  /\ owner \in {"joining", "dying"}
  /\ exited' = 0
  /\ ended' = TRUE
  /\ owner' = IF owner = "joining" THEN "free" ELSE "gone"
  /\ UNCHANGED <<guard, stopped, starts, idle, jobs, lis, ses,
                 clientVars, streamVars>>

\* stop() gives up the work guard and lets the coroutines finish
StopSlip ==
  /\ guard
  /\ owner = "free"
  /\ guard' = FALSE
  /\ owner' \in {"joining", "dying"}
  /\ UNCHANGED <<stopped, ended, starts, threadVars, lis, ses,
                 clientVars, streamVars>>

\* one connection per listener
AcceptSlip(l) ==
  /\ lis[l] = "accept"
  /\ \E c \in Pending : ses' = [ses EXCEPT ![c] = "read"]
  /\ lis' = [lis EXCEPT ![l] = "dead"]
  /\ UNCHANGED streamVars

\* a client that has shut down its sending side is taken to be gone
SessionErrorSlip(c) ==
  /\ Live(c)
  /\ shut[c] # "no"
  /\ ses' = [ses EXCEPT ![c] = "over"]
  /\ UNCHANGED <<lis, streamVars>>

\* a thread that has returned is counted as running
ReturnSlip ==
  /\ idle > 0
  /\ stopped
  /\ exited' = exited + 1
  /\ UNCHANGED <<guard, stopped, owner, ended, starts, idle, jobs, lis, ses,
                 clientVars, streamVars>>

----------------------------------------------------------------------------
(* The clients and the kernel *)

Connect(c) ==
  /\ ses[c] = "none"
  /\ Listening
  /\ ses' = [ses EXCEPT ![c] = "pending"]
  /\ UNCHANGED <<clientVars, streamVars>>

\* From the backlog on the kernel receives for the server.
Send(c) ==
  /\ ses[c] = "pending" \/ Live(c)
  /\ shut[c] = "no"
  /\ FoldFunction(+, 0, sent) < MaxBytes
  /\ sent' = [sent EXCEPT ![c] = @ + 1]
  /\ rx' = [rx EXCEPT ![c] = Append(@, sent[c] + 1)]
  /\ UNCHANGED <<ses, shut, data, echoed>>

\* The client shuts down its sending side, or resets the connection.
Shut(c) ==
  /\ ses[c] = "pending" \/ Live(c)
  /\ shut[c] # "rst"
  /\ shut' = [shut EXCEPT ![c] = IF @ = "no" THEN "fin" ELSE "rst"]
  /\ UNCHANGED <<ses, sent, streamVars>>

ClientStep ==
  /\ \E c \in Clients : Connect(c) \/ Send(c) \/ Shut(c)
  /\ UNCHANGED <<guard, stopped, owner, ended, starts, threadVars, lis>>

----------------------------------------------------------------------------
(* session, one step per co_await *)

\* async_read_some returns with at least one byte and as many as there are
\* and fit into the buffer.
SessionRead(c) ==
  /\ ses[c] = "read"
  /\ \E n \in 1 .. Len(rx[c]) :
       /\ data' = [data EXCEPT ![c] = SubSeq(rx[c], 1, n)]
       /\ rx' = [rx EXCEPT ![c] = SubSeq(@, n + 1, Len(@))]
  /\ ses' = [ses EXCEPT ![c] = "write"]
  /\ UNCHANGED <<lis, echoed>>

\* async_write goes on until everything is written.
SessionWrite(c) ==
  /\ ses[c] = "write"
  /\ shut[c] # "rst"
  /\ \E n \in 1 .. Len(data[c]) :
       /\ echoed' = [echoed EXCEPT ![c] = @ \o SubSeq(data[c], 1, n)]
       /\ data' = [data EXCEPT ![c] = SubSeq(@, n + 1, Len(@))]
       /\ ses' = [ses EXCEPT ![c] = IF n < Len(data[c]) THEN @ ELSE "read"]
  /\ UNCHANGED <<lis, rx>>

\* eof once everything has been read, or connection_reset; the catch ends
\* the coroutine and closes the socket.
SessionError(c) ==
  /\ \/ ses[c] = "read" /\ shut[c] = "fin" /\ rx[c] = <<>>
     \/ Live(c) /\ shut[c] = "rst"
  /\ ses' = [ses EXCEPT ![c] = "over"]
  /\ UNCHANGED <<lis, streamVars>>

----------------------------------------------------------------------------
(* listener *)

\* Closing the acceptor resets the connections it has not accepted.
Dies(l) ==
  /\ lis' = [lis EXCEPT ![l] = "dead"]
  /\ ses' = [c \in Clients |-> IF lis[l] = "accept" /\ c \in Pending
                               THEN "refused" ELSE ses[c]]
  /\ UNCHANGED streamVars

\* open, set_option, bind, listen.  An address in use, by another process
\* or by an earlier listener, is an exception.
ListenerBind(l) ==
  /\ lis[l] = "bind"
  /\ \/ /\ ~Listening
        /\ lis' = [lis EXCEPT ![l] = "accept"]
        /\ UNCHANGED <<ses, streamVars>>
     \/ Dies(l)

ListenerAccept(l) ==
  /\ lis[l] = "accept"
  /\ \E c \in Pending : ses' = [ses EXCEPT ![c] = "read"]
  /\ UNCHANGED <<lis, streamVars>>

\* async_accept fails, for want of a descriptor say: nothing catches it.
ListenerError(l) ==
  /\ lis[l] = "accept"
  /\ Pending # {}
  /\ Dies(l)

----------------------------------------------------------------------------
(* io_context *)

\* Its operation has completed.
Ready(k) ==
  IF k \in Listeners
    THEN lis[k] = "bind" \/ (lis[k] = "accept" /\ Pending # {})
    ELSE \/ ses[k] = "write"
         \/ ses[k] = "read" /\ (rx[k] # <<>> \/ shut[k] # "no")

Resume(k) ==
  IF k \in Listeners
    THEN ListenerBind(k) \/ ListenerAccept(k) \/ ListenerError(k)
    ELSE SessionRead(k) \/ SessionWrite(k) \/ SessionError(k)

HasWork ==
  \/ guard
  \/ \E l \in Listeners : Spawned(l)
  \/ \E c \in Clients : Live(c)

\* A worker in run() takes a handler ...
Take(k) ==
  /\ idle > 0
  /\ ~stopped
  /\ k \notin jobs
  /\ Ready(k)
  /\ idle' = idle - 1
  /\ jobs' = jobs \cup {k}
  /\ UNCHANGED <<guard, stopped, owner, ended, starts, exited, lis, ses,
                 clientVars, streamVars>>

\* ... and runs it to its end, stopped or not.
Run(k) ==
  /\ k \in jobs
  /\ Resume(k)
  /\ jobs' = jobs \ {k}
  /\ idle' = idle + 1
  /\ UNCHANGED <<guard, stopped, owner, ended, starts, exited, clientVars>>

\* run() returns when the context is stopped, and stops it when there is no
\* work left.
Return ==
  /\ idle > 0
  /\ stopped \/ (~HasWork /\ jobs = {})
  /\ stopped' = TRUE
  /\ idle' = idle - 1
  /\ exited' = exited + 1
  /\ UNCHANGED <<guard, owner, ended, starts, jobs, lis, ses,
                 clientVars, streamVars>>

----------------------------------------------------------------------------
(* Server::start, Server::stop, ~Server, and main of frame *)

Start ==
  /\ owner = "free"
  /\ starts < (IF guard THEN MaxStarts ELSE 1)
  /\ starts' = starts + 1
  /\ lis' = [lis EXCEPT ![starts + 1] = "bind"]
  /\ idle' = idle + (IF guard THEN Threads ELSE 1)
  /\ UNCHANGED <<guard, stopped, owner, ended, jobs, exited, ses,
                 clientVars, streamVars>>

\* ctx.stop(), then the joins; ~Server begins with the same.
Stop ==
  /\ guard
  /\ owner = "free"
  /\ stopped' = TRUE
  /\ owner' \in {"joining", "dying"}
  /\ UNCHANGED <<guard, ended, starts, threadVars, lis, ses,
                 clientVars, streamVars>>

\* Every worker has been joined.  The coroutines, if stop() was called, stay
\* where they are with their sockets open; ~Server destroys them.
Join ==
  /\ owner \in {"joining", "dying"}
  /\ idle = 0 /\ jobs = {}
  /\ exited' = 0
  /\ ended' = TRUE
  /\ \/ owner = "joining" /\ owner' = "free" /\ UNCHANGED <<lis, ses>>
     \/ /\ owner = "dying"
        /\ owner' = "gone"
        /\ lis' = [l \in Listeners |-> "dead"]
        /\ ses' = [c \in Clients |->
                     IF c \in Pending THEN "refused"
                     ELSE IF Live(c) THEN "over" ELSE ses[c]]
  /\ UNCHANGED <<guard, stopped, starts, idle, jobs, clientVars, streamVars>>

Coroutines == Listeners \cup Clients

Next ==
  \/ ClientStep
  \/ \E k \in Coroutines : Take(k) \/ Run(k)
  \/ Return
  \/ Start \/ Stop \/ Join

Spec == Init /\ [][Next]_vars

\* Every worker runs, and the context hands out ready handlers in turn.
FairSpec ==
  /\ Spec
  /\ \A k \in Coroutines : WF_vars(Take(k)) /\ WF_vars(Run(k))
  /\ WF_vars(Return)
  /\ WF_vars(Join)

----------------------------------------------------------------------------
(* Properties *)

\* The threads and the coroutines they run
ThreadsOK ==
  /\ {guard, stopped, ended} \subseteq BOOLEAN
  /\ owner \in {"free", "joining", "dying", "gone"}
  /\ starts \in 0 .. MaxStarts
  /\ {idle, exited} \subseteq Nat
  /\ jobs \subseteq Coroutines
  /\ lis \in [Listeners -> {"none", "bind", "accept", "dead"}]
  /\ ses \in [Clients -> {"none", "pending", "refused", "read", "write", "over"}]
  /\ idle + Cardinality(jobs) + exited <= Threads * starts

\* Every variable keeps to its domain, and the threads between handlers, in
\* handlers and past run() are never more than start() has made.
TypeOK ==
  /\ ThreadsOK
  /\ sent \in [Clients -> Nat]
  /\ shut \in [Clients -> {"no", "fin", "rst"}]
  /\ {rx, data, echoed} \subseteq [Clients -> Seq(Nat)]

\* The echo is exact: nothing is lost, repeated or reordered between the
\* reads and the writes of a session, however reads and writes are split;
\* what a session has not written when it ends is a tail of the stream.
EchoExact ==
  \A c \in Clients :
    echoed[c] \o data[c] \o rx[c] = [i \in 1 .. sent[c] |-> i]

\* No worker leaves run() before stop() is called.  Without a guard, as in
\* frame, it leaves only when the listener has died and the last session is
\* over: the process then serves nobody, and goes on.
WorkersStay ==
  exited > 0 /\ owner = "free" =>
    \/ guard /\ ended
    \/ /\ ~guard
       /\ \A l \in Listeners : ~Spawned(l)
       /\ \A c \in Clients : ~Live(c)

\* When stop() has returned no worker is in a handler, and none enters one
\* again: nothing is accepted, read or written any more, not even after
\* another start(), since the context stays stopped.
QuietAfterStop ==
  [][ended => /\ UNCHANGED <<data, echoed, jobs>>
              /\ \A c \in Clients : Live(c)' => Live(c)]_vars

\* A connection is accepted unless its listener dies or the server stops.
Accepted ==
  \A c \in Clients : ses[c] = "pending" ~> (ses[c] # "pending" \/ stopped)

\* What a client has sent is written back, also when it has shut down its
\* sending side: a session ends early only by a reset or with the server.
Echoes ==
  \A c \in Clients :
    Live(c) /\ Len(echoed[c]) < sent[c]
      ~> (Len(echoed[c]) = sent[c] \/ shut[c] = "rst" \/ stopped)

\* stop() and ~Server return: the joins do not wait for clients.
StopReturns == owner \in {"joining", "dying"} ~> owner \in {"free", "gone"}
=============================================================================
