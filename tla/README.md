# NUMS messaging gateway: TLA+ models, model checking and proofs

The repository holds a messaging gateway (`cpp/program/newbee`) with the
libraries it is built from, a console client, and a number of unrelated
exercises. This directory models the gateway: the thread-safe queue between
its threads, the ZeroMQ front end with its connection monitor, the worker that
talks to the SMSC over TCP, and the process that starts, stops and destroys
them; and beside it the reloading configuration with the log level it governs,
and the coroutine echo servers.

All paths below are relative to `src/cpp/`.

## 1. Inventory

| Component | State | Operations | Interacts with |
|---|---|---|---|
| `ThreadSafeQueue<T>` (`include/zserver/ThreadSafeQueue.hpp`) | `q_`, `mtx_`, `cv_` | `push_noti`, `pop_wait`, `pop_wait_for`, `notify_all` | producers, consumers, `std::stop_token` |
| `nums::Header`, `nums::Packet` (`include/newbee`, `lib/newbee/dataElement.cpp`) | four character fields and a `std::variant` body; the static counter `Header::seq` | constructors, `parse_json`, `to_json`, `serialize`, `deserialize` | both threads draw from `seq` |
| `zmq_server` (`lib/zserver/zmq_server.cpp`) | REP socket, thread `zmq_cli_thread_` | `start`, `stop`, `zmq_cli_monitor` | REQ clients, pushes `outq_`, pops `inq_` |
| `numsworker` (`lib/numsworker/numsworker.cpp`) | `retry_cnt_`, thread `outq_thread_` | `start`, `stop`, `outq_monitor`, `sendMsg`, `recvMsg`, `recvHeader`, `recvBody` | pops `outq_`, pushes both queues, SMSC |
| `TcpClient` (`lib/numsworker/TcpClient.cpp`) | `fd_` | `connect`, `send_all`, `read_exact`, `close` | used by `numsworker` |
| `zmq_client` (`lib/zclient/zmq_client.cpp`) | REQ socket | `input_msg`, `start`, `stop` | one request, then a blocking receive |
| `newbee` main (`program/newbee/main.cpp`) | the two queues, a 20 s timer | starts both threads, stops them when the timer fires, destroys everything | everything above |
| `plk_monitor_t` (`include/zserver/zmq_monitor.hpp`) | four connection counters | socket event callbacks | libzmq's monitor |
| `configuration`, `loglevel_checker` (`lib/common`) | parsed file, its modification time, log level | `init`, getters, `do_realtime`, `loglevel_checker::start` | the file system, spdlog |
| coroutine echo servers (`program/coroutine`, `program/frame`) | `io_context`, work guard, worker threads, sessions | `listener`, `session`, `start`, `stop`, `~Server` | boost.asio, TCP clients |
| `send_link`, `zmq.cpp`, `Queue.hpp` | | | forerunners that nothing starts |
| exercises (`program/{myapp,prac_sync,thread_song,zserver}`) | | | |

`include/boost`, `spdlog`, `nlohmann`, `rapidjson`, `toml.hpp`, `zmq.hpp` are
third-party; `lib/{gwlib,diameter,SimMap,SimCommon,mapDmaqi,mdbCommonLib,flk_dbm,Debug,FlkIconv}`
are older C libraries that none of these programs links.

How the parts interact:

    client --REQ/REP--> zmq thread --outq_--> worker --TCP--> SMSC
    client <--REQ/REP-- zmq thread <--inq_--- worker <--TCP-- SMSC

The zmq thread receives a JSON request, turns it into a packet under a fresh
sequence number, pushes it to `outq_`, waits at most a second for something in
`inq_`, and sends that as the reply. The worker opens a connection, takes a
packet from `outq_` (or makes a LINK after five idle seconds), sends it, and
runs `recvMsg` until it has an answer, which goes into `inq_`.

What is hard here: the wait/notify/stop protocol of the queue; the alternation
that a REP socket enforces against time limits and parse errors; a reply queue
without correlation; retransmission with a counter that outlives its packet;
reads that time out in the middle of a message; a header used after it was
found missing; sockets that are overwritten rather than closed; stopping
threads that wait in five different places, and destroying what they use; a
connection count pieced together from pairs of events; a file that changes
between a look at its time and the parse; and coroutines whose exceptions
nobody sees, on threads that are stopped in the middle of a handler. `PROJECT.json` lists each of these
under `hazards`, at its line.

The worker's source file is ahead of its header (`recvMsg` takes the packet
that was sent, timeouts are given as plain numbers, and the drain after a
connect calls `recvMsg(0ms)`, for which there is no overload). The `.cpp` file
is the reference. `recvMsg(0ms)` is read the way its comment and the timeout
convention of `read_exact` have it: a receive that does not wait and has no
packet to retransmit. Main's timer handler calls `s.cancel()`
(`program/newbee/main.cpp:47`) on a name that is not declared, so that line
does not compile as written; the model takes the handler without it, as the
two calls of `stop()` and `io.stop()`.

## 2. Modules

| Module | Models |
|---|---|
| `FifoQueue` | what the queue promises: push, pop and the empty-handed return happen at one instant |
| `ThreadSafeQueue` | the queue as written, one action per step of the mutex and the condition variable |
| `ThreadSafeQueueProofs` | the inductive invariant of the queue, and that it implements `FifoQueue` |
| `NumsPackets` | packets: message type, sequence number, body alternative; constructors and `parse_json` |
| `NumsShared` | the state the two threads share, and main's stops |
| `ZmqServer` | `zmq_cli_monitor` and the clients |
| `NumsWorker` | `outq_monitor`, `recvMsg` and `TcpClient`, and the SMSC |
| `NumsGateway` | the composition, its fairness and its properties |
| `NumsGatewayProofs` | the inductive invariant of the gateway |
| `NumsTeardown` | the gateway together with the end of the process: the destruction of main's locals, member by member, and the joins |
| `ConnMonitor` | `plk_monitor_t`, its thread, and the events libzmq raises |
| `ConfigReload` | `configuration::init`, `do_realtime`, `loglevel_checker` and the `init()` that starts it |
| `ConfigReloadProofs` | what holds of `ConfigReload` for any texts, times and writes |
| `EchoServer` | `Server` of `program/coroutine` and the program `frame` |
| `NumsTeardownProofs` | the order of destruction, and what of the gateway survives it |
| `ConnMonitorProofs` | what the connection counter is worth, for any number of connections |
| `EchoServerProofs` | workers and `stop()`, types, and the byte streams of the sessions |
| `MCThreadSafeQueue`, `MCNumsGateway`, `MCNumsTeardown`, `MCConnMonitor`, `MCConfigReload`, `MCEchoServer` | instances for TLC |

### ThreadSafeQueue

`push_noti` is PushCall, PushLock, PushEnqueue, PushNotify, PushUnlock.
`pop_wait` and `pop_wait_for` are the same code but for the time limit: PopCall
(which records whether there is one), PopLock, PopTest (the predicate), PopPark
(release the mutex and sleep, in one step as the standard requires), PopTake,
PopGiveUp. A sleeper is woken by a notification, by its time limit, by the stop
callback, or for no reason. `request_stop` is two steps, the flag and then the
callback, because another thread runs between them. `history` is a ghost
variable.

### NumsPackets

The message type keeps the six values that `msg_type_enum` recognises, the
zero-filled field of a fresh header (`Blank`), and one value for all other text
(`Text`). `NotJson` stands for a request that does not parse as JSON or lacks a
field that `Header::parse_json` asks for. Sequence numbers are those the gateway issued, or one of three marks:
none, one of the SMSC's own, and bytes that are not a header (`JunkSeq`).
`PacketOf` is `explicit Packet(MsgType)`, which fills the header for LINK only.

### ZmqServer

One action per blocking point or effect of the loop. libzmq is modelled by the
rule that matters: a REP socket that owes a reply fails to receive, `zmq.hpp`
throws, and since `recv` is outside the `try` block the process terminates
(`fate = "efsm"`). An unknown message type throws after `parse_json` has taken
a sequence number, a text that is not JSON before. `j.dump()` throws on a reply
that is not UTF-8, which a header of indeterminate bytes or a body read after
one may be; the exception is caught and the reply stays owed.

### NumsWorker

The TCP stream is a sequence of headers and bodies, first under way (`todo`)
and then arrived (`rx`). A read fails when its piece has not arrived; if part
of it had, that part is consumed and the connection is torn, after which
whatever is read as a header is not one. The length in such a header may cover
any number of pieces, none included, end inside one, or never be satisfied.
A send on a connection that the SMSC has closed fails, or raises SIGPIPE, which
nobody handles (`fate = "sigpipe"`). `*rep_h` on an empty optional yields
an indeterminate header (any type in `Garbage`) or the end of the process.
`fds` counts open sockets: `connect` overwrites `fd_` without closing it.
The SMSC is outside the repository; it is
modelled from what `recvMsg` expects of it: 1 is answered by 2, 3 by 4 and 5,
and a LINK of its own may come before, between or after these
messages.

### NumsTeardown

`down` counts how many members have been destroyed, in the order that the
declarations give (`Order`): `serv_host`, `smsc_`, `outq_thread_` of the
worker, `mon_th_`, `monitor_`, `sock_`, `ctx_`, `zmq_cli_thread_` of the server,
then the queues. The destruction of a `jthread` waits for the thread. Until
then the threads take the steps of `NumsGateway`; the zmq thread, once `sock_`
is closed, fails in `recv` (the exception leaves the thread: `fate =
"closed"`) and in `send` (it is caught). The worker goes on with what the
destroyed `serv_host` and `smsc_` last held: the 15 characters of the host
lie inside the string object and `TcpClient` has no destructor.

### ConnMonitor

A connection is opened, and either completes its handshake and later drops, or
fails without detail or with a protocol error. libzmq reports each step; for a
failed connection it reports the failure and then "disconnected", and its one
I/O thread does nothing else in between. An event carries the connection it is
about (`from`), which the handlers do not look at: the code has only its
counters. The monitor thread takes one event at
a time and may be several behind. Every handler of the class is an action.

### ConfigReload

Of the file only the text of `log_level` matters, whether it parses, whether
it is there, and its modification time, which a write may set to any value.
`do_realtime` is two steps, the look at the time and the parse, because the
file can change in between. `get_string` turns an absent or empty value into
the default; `to_spdlog_level` folds case and maps everything unknown to info;
a level is set again only when its spelling differs by more than case. The
constant `Lower` is the folding of `boost::iequals`: any function on the texts
that is idempotent and leaves the names of the levels and the empty text as
they are.

### EchoServer

A coroutine runs from one `co_await` to the next on a worker that took it
(`Take`, `Run`), also when the context has been stopped meanwhile. The listener
may fail to bind or to accept; the coroutine is detached, so the exception ends
it and nothing else, and closing the acceptor resets the connections it had not
accepted. `guard` tells the two programs apart: `Server` holds a work guard,
`frame` runs the context in main without one, and its `run()` returns when no
coroutine is left. `start`, `stop` and `~Server` may be called in any order that
a caller can write. The n-th byte a client sends is n; a read or a write moves
any number of bytes that are there, and the client takes what it is sent.

### Slips

The operators whose names end in `Slip` are mistaken forms of actions. No
specification uses them; each shows that some property is able to fail, by
taking the action's place (`mutants` in `PROJECT.json`).

## 3. What the runs check

| Run | Instance | Properties |
|---|---|---|
| `queue_safety` | 2 producers, 2 consumers, 2 pushes each | TypeOK, Exclusion, NoLostWakeup, NoLostStop, ExactlyOnce, ImplementsFifo |
| `queue_liveness` | 2 producers, 1 consumer, 1 push each, weak fairness | StopReturns, WorkIsPickedUp |
| `gateway_faults` | 1 client, 2 requests, one SMSC LINK, one drop, one misleading garbage header | TypeOK, AnswersAreCurrent, NoDoubleQueueing |
| `gateway_settles` | 2 clients, types 1, 3 and 5 and texts that are not JSON, one idle period, 2 descriptors, fair zmq thread | ClientsAccounted, NoDoubleQueueing, RequestSettled |
| `gateway_stops` | 1 client, a drop, everything fair, SMSC reachable, to the end of the process | SharedOutlivesThreads, StopEndsServer, StopEndsWorker, ProcessExits |
| `conn_monitor` | 3 connections, up to 6 events waiting | TypeOK, NeverBelow, CountSettled, CorrectionMeetsItsEnd |
| `config_reload` | 3 writes, 2 modification times, six texts of the level, two of them in two spellings | TypeOK, LevelAgrees, SeenIsLoaded, LevelFollowsFile, StopEndsChecker |
| `echo` | 2 clients, 2 bytes, 2 threads per start, 2 starts | TypeOK, EchoExact, WorkersStay, QuietAfterStop, Accepted, Echoes, StopReturns |

- **NoLostWakeup**: sleepers never stay asleep over an element that nobody
  awake is about to look at; `notify_one` per push is enough, although a
  notified consumer may find the queue empty again and one that times out may
  take the element.
- **NoLostStop**: a stopped consumer does not sleep unless its callback is
  still to come.
- **ExactlyOnce**: the queue is the tail of everything pushed, in order, and no
  element that a consumer holds is still queued or held by another.
- **ImplementsFifo**: a timed-out pop still takes an element that is there;
  nullopt means empty.
- **ClientsAccounted**: the clients that wait are those in the pipe and the one
  that is owed a reply, also when the process has been terminated.
- **AnswersAreCurrent**: `recvMsg` compares no sequence numbers, and still what
  it returns is the answer to the packet just sent or garbage. This rests on
  the reconnect before every packet; reusing the connection would break it.
- **NoDoubleQueueing**: a numbered packet waits in `outq_` at most once.
- **RequestSettled**: a request is answered, or the gateway stops or
  terminates. It never serves on while a client hangs; the price is that one
  slow answer terminates the process.
- **StopEndsServer**, **StopEndsWorker**: `stop()` ends the threads, wherever
  they are.
- **ProcessExits**: the joins that end main return. **SharedOutlivesThreads**:
  the queues and the monitor are destroyed after the threads that use them,
  whichever ends last.
- **CorrectionMeetsItsEnd**: a disconnection uses up a correction exactly if it
  ends a connection whose handshake failed without detail, although the handler
  sees only a counter, other connections come and go, and the monitor thread is
  behind. **CountSettled**: when it has caught up no correction is left over,
  and `get_connection()` is the number of peers less one for every protocol
  failure so far. **NeverBelow**: the count is below zero at most by these.
- **SeenIsLoaded**: `do_realtime` never records a version as seen that it has
  not loaded, even if the file changes between its two looks or does not parse;
  the exceptions are its first call, which records whatever is there, and a
  write that leaves the recorded time behind.
- **LevelFollowsFile**: every other version that parses gets its level into
  force. **LevelAgrees**: `log_level_` and spdlog's level never come apart,
  which the skipped `set_level` relies on. **StopEndsChecker**: the checker's
  naps end with the stop.
- **EchoExact**: a session's stream is what was sent, no byte lost, doubled or
  out of order. **Echoes**: all of it is written back, also after a half-close.
- **Accepted**: a connection is accepted unless the listener dies or the server
  stops. **WorkersStay**: no worker leaves `run()` before `stop()`, whatever
  happens to the coroutines; without a guard it leaves when the listener has
  died and the last session is over.
- **QuietAfterStop**: when `stop()` has returned no handler runs any more, not
  even after another `start()`: the context stays stopped. **StopReturns**: the
  joins in `stop()` and `~Server` do not wait for clients.

Bounds. Two producers and two consumers are the fewest with which a
notification can go to the wrong sleeper, and two pushes each let a queue grow
while a consumer is between its wakeup and its test. Two clients are enough for
a request to wait behind a debt; two requests of one client for a retry count
or a late answer to meet the next packet. `MaxIdle`, `MaxLinks`, `MaxDrops` and
`MaxGarbage` cap how often the environment does something, `MaxFds` is the
process's descriptor limit. Three connections let one be up, one fail and one
come or go at the same time; `MaxQueued` lets the monitor thread fall behind by
both reports of a failure and all of the others. Three writes are a change
before the first check, one between the look and the parse, and a repair; with
two times every write is older, newer or the same. Two starts are a second
listener on a taken port, and a restart after `stop()`. Two bytes are the fewest
for a split write; `MaxBytes` counts all clients together. Deadlock is not an
error in these runs: a stopped or terminated process takes no more steps.

Fairness. The scheduler runs a thread that can run (weak fairness of the zmq
thread and the worker; every wait in them has a time limit). The connect loop is
the exception: `FairSpec` asks nothing of it, as an unreachable SMSC makes
`connect` fail for ever; `ReachableSpec` adds that a connect that can succeed
does so in the end. Clients read the replies they are sent. Main's timer goes
off. `RequestSettled` needs only the zmq thread and the clients.
`FairTeardownSpec` is `ReachableSpec` with main going on to destroy what it can
and the monitor thread running. The monitor thread, the checker and the echo
server's workers wait for a clock, or for an event that has occurred; the
`io_context` hands out completed handlers in turn, so none is passed over for
ever.

### Where the code departs from its comments

Each of these runs must fail; the trace is the evidence for a finding in
`PROJECT.json`.

| Run | Property | What happens |
|---|---|---|
| `one_to_one` | RecvSendOneToOne | a reply timeout or a parse error leads back to `recv` without a send, and the REP socket throws |
| `reply_answers` | ReplyAnswersRequest | the answer to the worker's own LINK is sent to a client |
| `stop_no_descriptor` | StopEndsWorker | leaked descriptors make that loop endless even with a reachable SMSC |
| `teardown` | MembersOutliveThreads | threads are the first members and so are joined last: the worker connects with `serv_host` gone, the zmq thread receives on a closed `sock_` |

The models show more departures of this kind, which have no run of their own:

- Acknowledgements have an empty header, so the test in `outq_monitor` that
  exempts them from `recvMsg` never holds (numsworker.cpp:67).
- `retry_cnt` is not reset by success, so the next packet is given up without a
  retransmission (numsworker.cpp:114).
- The connect loop ignores the stop token also when the SMSC is merely down
  (`FairSpec` without `ReachableSpec`); `stop_no_descriptor` shows the same
  loop in its harder form.
- A reset by the SMSC can end the whole gateway by SIGPIPE instead of the retry
  that `send_all`'s result is meant for (TcpClient.cpp:42).
- A protocol failure lowers `connected_` for good (zmq_monitor.hpp:30).
- A file that changes between `configuration::init` and the checker's first
  look is not loaded until it changes again (configuration.cpp:205), and
  `init()` starts no checker at all when the first load fails (init.cpp:10).
- An error in `async_accept` silently ends an echo server's service
  (server.cpp:76); in `frame` the handler that prints "fatal" cannot be reached
  by it (frame/main.cpp:98). `start()` after `stop()` serves nobody.

Also, `dataElement.hpp:25` says that `msg_len` counts header and body while
`set_msg_len` writes the size of the body; the length field is not part of the
model.

## 4. What is proved

All theorems hold for every value of the constants: any finite sets of
producers, consumers and connections, any clients, any bounds. Every invariant
and every action property that a passing run checks is a theorem.

Assumptions on the constants (named in the modules that declare them, and
evaluated by TLC): producers and consumers are finite and disjoint, `Free`,
`NullOpt`, `Pending` and `NoClient` are none of the values they stand beside,
message types and garbage are among `Wires`, connections are finitely many, an
echo client is not also a listener, bounds are natural numbers.

**ThreadSafeQueueProofs.** `IInv` is `TypeOK`, `Exclusion`, `NoLostWakeup`,
`NoLostStop` and `Bookkeeping`. `NoLostWakeup` counts: while somebody sleeps,
the elements in the queue are no more than the consumers that are awake in a
call and the producers that are about to notify. It is not inductive without
`Exclusion` (between the test and the sleep nobody pushes) and without the part
of `Bookkeeping` that ties the wait set to the threads at "asleep".

- `TypeCorrect`, `MutualExclusion`, `NotifyOneSuffices`, `StopReachesSleeper`:
  `Spec => []P` for TypeOK, Exclusion, NoLostWakeup, NoLostStop.
- `Refinement`: `Spec => ImplementsFifo`. PushEnqueue maps to Push, PopTake to
  Pop, PopGiveUp to PopNothing, PopCall to Call, RequestStop to RequestStop, and
  everything else stutters. The invariant supplies that a consumer that gives
  up sees an empty queue and has timed out or was stopped.
- `EachElementOnce`: `Spec => []ExactlyOnce`. The property says that what a
  consumer holds is not in the queue, but not where it came from, so a push
  could bring it back. `Provenance` says where: the elements of `history` are
  all different, the queue is the part of it that has not been taken, and what
  a consumer holds lies in the part that has. A producer's next element is new
  because its number is above all that it has pushed.

**NumsGatewayProofs.** `CoreInv` is `TypeOK`, `ClientsAccounted`,
`AnswersAreCurrent` and `SocketOpen` (during an exchange at least one socket is
open, without which `close()` could count below zero). Each part is
preserved separately, one step per action.

- `TypeCorrect`, `NoClientForgotten`, `OnlyCurrentAnswers`: `Spec => []P` for
  TypeOK, ClientsAccounted, AnswersAreCurrent. The last rests on three facts:
  a new connection is empty, a send adds only pieces with the packet's number,
  and the packet changes only before anything was sent on its connection.
- `QueuedOnce`: `Spec => []NoDoubleQueueing`. The strengthening `Numbered` adds
  that every number in use is below the counter, that the packet the zmq thread
  is about to push is not the worker's, and that the worker's packet is back in
  `outq_` only once `retry_cnt_` is 1, from the send to the end of the exchange.
  `AppendSeqs` and `TailSeqs` say what a push and a pop do to the numbers.

**ConfigReloadProofs.** `TypeOK` and `LevelAgrees` are inductive as they stand,
the second over the first; the assumptions are that the texts include the
default and exclude the marks for a broken and a missing file, what `Lower`
does, and that times are positive.

- `TypeCorrect`: nothing that did not parse is ever in `g_config`.
- `LevelInForce`: `Spec => []LevelAgrees`.
- `NothingOverlooked`: `Spec => SeenIsLoaded`, step by step: of all actions only
  StatFirst and Write can make a version count as seen that is not loaded.

**NumsTeardownProofs.** `Joined` says of each jthread that once `down` has
passed it in `Order` the thread has ended; it is inductive because none of the
steps of a thread follows its end.

- `QueuesOutliveThreads`: `TeardownSpec => []SharedOutlivesThreads`.
- `GatewaySoundToTheEnd`: `ClientsAccounted`, `AnswersAreCurrent` and
  `NoDoubleQueueing` hold to the last destructor. Every step of the teardown is
  a step of the gateway, or leaves it alone, except `recv` and `send` on the
  closed socket; for these two `CoreInv` and `Numbered` are shown again.

**ConnMonitorProofs.** The properties say nothing of the counter while events
wait. The invariant looks ahead: `Balance(k)` is what `connected_` and the
pending correction come to when `k` of the queued events have been handled.
`InBalance` fixes it for all of them, `Ahead` bounds it for every `k`. Handling
an event shifts the balances by one place; a report adds one at the end.

Which counter an event lowers takes three more parts. `Named`: a report of an
end is about a connection that has ended that way. `Paired`: right after
"no_detail", or first in the queue while a correction is pending, comes the
disconnection of a connection that failed without detail, unless the I/O thread
has yet to report it. `Announced` is the converse: right before such a
disconnection is its "no_detail", or the correction is pending. Together they
say that a correction is pending exactly when the next disconnection is its own.

- `TypeCorrect`, `CountBoundedBelow`, `CaughtUpIsExact`: `Spec => []P` for
  TypeOK, NeverBelow, CountSettled.
- `CorrectionsMatch`: `Spec => CorrectionMeetsItsEnd`.

**EchoServerProofs.** `Inv` adds to the types that a context is stopped before
anybody leaves `run()` or gets past `stop()`, that past `stop()` no handler is
under way, and who may have stopped it: the owner if there is a guard, and
otherwise the last worker, with nothing left to run. The last part is what
makes `WorkersStay` inductive: once frame's context has run dry no coroutine
can come back to life.

- `WorkersOnlyLeaveOnStop`: `Spec => []WorkersStay`.
- `StopIsFinal`: `Spec => QuietAfterStop`.
- `TypeCorrect`: `Spec => []TypeOK`. The part with content is the accounting of
  the workers: a handler under way is a worker taken from the idle ones, and
  all of them together are no more than `start()` created. The types of the
  streams come from the invariant of `EchoIsExact`.
- `EchoIsExact`: `Spec => []EchoExact`. A read appends to what was echoed only
  if nothing is left in between, so the invariant adds that a session that is
  about to read has written all of its `data`. A read or a write that moves any
  part of what is there regroups the concatenation and leaves its value alone.

Only model-checked: the liveness properties (StopReturns, WorkIsPickedUp,
RequestSettled, StopEndsServer, StopEndsWorker, ProcessExits, LevelFollowsFile,
StopEndsChecker, Accepted, Echoes). They rest on fairness, which the prover does not handle.

## 5. Not modelled, and the plan

Not modelled: third-party and unlinked code, the forerunners and exercises of
the inventory, logging, the console prompts, and the text of JSON. The length
field and the byte layout of packets (`set_msg_len`, `serialize`,
`deserialize`) are below the level of the model, in which a header or a body is
one piece that has arrived, or has not, or was torn. `get_connection()` has no
caller, so the unsynchronised read of `connected_` it would be is not modelled.
The programs that use `Server` never stop it; `stop` and `~Server` are modelled
because they are its interface.

Planned: `TcpFraming`, with `serialize`, `deserialize`, `send_all` and
`read_exact` at the level of bytes and with `msg_len`, as a refinement of the
pieces of `NumsWorker`.
