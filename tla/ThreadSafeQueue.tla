-------------------------- MODULE ThreadSafeQueue --------------------------
(***************************************************************************)
(* ThreadSafeQueue<T> (include/zserver/ThreadSafeQueue.hpp): a std::queue  *)
(* behind a std::mutex and a std::condition_variable_any.  Each gateway    *)
(* thread talks to the others only through two such queues.                *)
(*                                                                         *)
(* One action is one atomic step of one thread.  The condition variable is *)
(* external code and is modelled by what the standard says of it:          *)
(*   - giving up mtx_ and going to sleep is one step (Park), and so is the *)
(*     test of the stop_token just before it, because request_stop's       *)
(*     callback takes the condition variable's own lock;                   *)
(*   - a sleeper may be woken by notify_one, notify_all, the stop callback,*)
(*     the deadline of wait_for, or for no reason at all;                  *)
(*   - a woken thread competes for mtx_ again before it looks at the queue.*)
(***************************************************************************)
EXTENDS Integers, Sequences, FiniteSets

CONSTANTS Producers,    \* threads that call push_noti
          Consumers,    \* threads that call pop_wait / pop_wait_for
          MaxPush,      \* bound: how often one producer pushes
          NullOpt,      \* std::nullopt
          Pending,      \* a call that has not returned
          Free          \* mtx_ has no owner

ASSUME ThreadsAssumption ==
  /\ IsFiniteSet(Producers)
  /\ IsFiniteSet(Consumers)
  /\ Producers \cap Consumers = {}
  /\ Free \notin Producers \cup Consumers
ASSUME MaxPushAssumption == MaxPush \in Nat
ASSUME ResultsAssumption ==
  /\ NullOpt # Pending
  /\ NullOpt \notin Producers \X Nat
  /\ Pending \notin Producers \X Nat

VARIABLES q,            \* q_
          mtx,          \* the owner of mtx_, or Free
          waiting,      \* consumers asleep inside cv_
          pc,           \* where each thread is
          timed,        \* consumers whose current call is pop_wait_for
          expired,      \* consumers whose wait_for reported a timeout
          stopped,      \* consumers whose stop_token is signalled
          callback,     \* consumers whose stop callback has yet to run
          sent,         \* how many elements each producer has made
          res,          \* what each consumer's last call returned, or Pending
          history       \* ghost: everything ever pushed, in order

vars == <<q, mtx, waiting, pc, timed, expired, stopped, callback, sent, res,
          history>>

Threads == Producers \cup Consumers

\* Elements are told apart by their producer and the order it made them in.
Values == Producers \X (1 .. MaxPush)

\* Threads that are inside a critical section of mtx_.
Holding == {"enqueue", "notify", "unlock", "test", "park", "take", "giveup"}

\* Consumers that are awake in a call and will still look at the queue.
Awake == {c \in Consumers : pc[c] \in {"lock", "relock", "test", "take"}}

\* Producers that have appended an element and not yet called notify_one.
Notifying == {p \in Producers : pc[p] = "notify"}

Init ==
  /\ q = << >>
  /\ mtx = Free
  /\ waiting = {}
  /\ pc = [t \in Threads |-> "idle"]
  /\ timed = {}
  /\ expired = {}
  /\ stopped = {}
  /\ callback = {}
  /\ sent = [p \in Producers |-> 0]
  /\ res = [c \in Consumers |-> NullOpt]
  /\ history = << >>

----------------------------------------------------------------------------
(* Slips: forms of the actions below with a mistake that this code could   *)
(* have.  No specification uses them; the properties are known to reject   *)
(* each of them.                                                           *)

\* push_noti without its lock_guard
PushLockSlip(p) ==
  /\ pc[p] = "lock"
  /\ mtx' = p
  /\ pc' = [pc EXCEPT ![p] = "enqueue"]
  /\ UNCHANGED <<q, waiting, timed, expired, stopped, callback, sent, res,
                 history>>

\* notify_one only when the queue was empty before the push
PushNotifySlip(p) ==
  /\ pc[p] = "notify"
  /\ \/ /\ waiting = {} \/ Len(q) > 1
        /\ waiting' = waiting
        /\ pc' = [pc EXCEPT ![p] = "unlock"]
     \/ \E c \in waiting :
          /\ Len(q) = 1
          /\ waiting' = waiting \ {c}
          /\ pc' = [pc EXCEPT ![p] = "unlock", ![c] = "relock"]
  /\ UNCHANGED <<q, mtx, timed, expired, stopped, callback, sent, res,
                 history>>

\* no notification at all
PushSilentSlip(p) ==
  /\ pc[p] = "notify"
  /\ pc' = [pc EXCEPT ![p] = "unlock"]
  /\ UNCHANGED <<q, mtx, waiting, timed, expired, stopped, callback, sent, res,
                 history>>

\* a pop that trusts the timeout instead of looking at the queue again
PopTestSlip(c) ==
  /\ pc[c] = "test"
  /\ pc' = [pc EXCEPT ![c] = IF c \in expired THEN "giveup"
                             ELSE IF q # << >> THEN "take" ELSE "park"]
  /\ UNCHANGED <<q, mtx, waiting, timed, expired, stopped, callback, sent,
                 res, history>>

\* a wait that is not given the stop_token
PopParkSlip(c) ==
  /\ pc[c] = "park"
  /\ pc' = [pc EXCEPT ![c] = "asleep"]
  /\ waiting' = waiting \cup {c}
  /\ mtx' = Free
  /\ UNCHANGED <<q, timed, expired, stopped, callback, sent, res, history>>

\* front() without pop()
PopTakeSlip(c) ==
  /\ pc[c] = "take"
  /\ res' = [res EXCEPT ![c] = Head(q)]
  /\ mtx' = Free
  /\ pc' = [pc EXCEPT ![c] = "idle"]
  /\ UNCHANGED <<q, waiting, timed, expired, stopped, callback, sent, history>>

\* the element is moved from before it is pushed
PushEnqueueSlip(p) ==
  /\ pc[p] = "enqueue"
  /\ q' = Append(q, <<p, 0>>)
  /\ history' = Append(history, <<p, sent[p]>>)
  /\ pc' = [pc EXCEPT ![p] = "notify"]
  /\ UNCHANGED <<mtx, waiting, timed, expired, stopped, callback, sent, res>>

----------------------------------------------------------------------------
(* push_noti *)

PushCall(p) ==
  /\ pc[p] = "idle"
  /\ sent[p] < MaxPush
  /\ pc' = [pc EXCEPT ![p] = "lock"]
  /\ sent' = [sent EXCEPT ![p] = @ + 1]
  /\ UNCHANGED <<q, mtx, waiting, timed, expired, stopped, callback, res,
                 history>>

\* std::lock_guard lock(mtx_)
PushLock(p) ==
  /\ pc[p] = "lock"
  /\ mtx = Free
  /\ mtx' = p
  /\ pc' = [pc EXCEPT ![p] = "enqueue"]
  /\ UNCHANGED <<q, waiting, timed, expired, stopped, callback, sent, res,
                 history>>

\* q_.push(std::move(value))
PushEnqueue(p) ==
  /\ pc[p] = "enqueue"
  /\ q' = Append(q, <<p, sent[p]>>)
  /\ history' = Append(history, <<p, sent[p]>>)
  /\ pc' = [pc EXCEPT ![p] = "notify"]
  /\ UNCHANGED <<mtx, waiting, timed, expired, stopped, callback, sent, res>>

\* cv_.notify_one(): some sleeper is woken, when there is one.
PushNotify(p) ==
  /\ pc[p] = "notify"
  /\ \/ /\ waiting = {}
        /\ waiting' = waiting
        /\ pc' = [pc EXCEPT ![p] = "unlock"]
     \/ \E c \in waiting :
          /\ waiting' = waiting \ {c}
          /\ pc' = [pc EXCEPT ![p] = "unlock", ![c] = "relock"]
  /\ UNCHANGED <<q, mtx, timed, expired, stopped, callback, sent, res,
                 history>>

\* ~lock_guard
PushUnlock(p) ==
  /\ pc[p] = "unlock"
  /\ mtx' = Free
  /\ pc' = [pc EXCEPT ![p] = "idle"]
  /\ UNCHANGED <<q, waiting, timed, expired, stopped, callback, sent, res,
                 history>>

----------------------------------------------------------------------------
(* pop_wait and pop_wait_for: the same steps, but only the second can      *)
(* time out.                                                               *)

PopCall(c, isTimed) ==
  /\ pc[c] = "idle"
  /\ pc' = [pc EXCEPT ![c] = "lock"]
  /\ timed' = IF isTimed THEN timed \cup {c} ELSE timed \ {c}
  /\ expired' = expired \ {c}
  /\ res' = [res EXCEPT ![c] = Pending]
  /\ UNCHANGED <<q, mtx, waiting, stopped, callback, sent, history>>

\* std::unique_lock lock(mtx_), and taking it again after a wait
PopLock(c) ==
  /\ pc[c] \in {"lock", "relock"}
  /\ mtx = Free
  /\ mtx' = c
  /\ pc' = [pc EXCEPT ![c] = "test"]
  /\ UNCHANGED <<q, waiting, timed, expired, stopped, callback, sent, res,
                 history>>

\* The predicate [&]{ return !q_.empty(); } under mtx_.
PopTest(c) ==
  /\ pc[c] = "test"
  /\ pc' = [pc EXCEPT ![c] = IF q # << >> THEN "take"
                             ELSE IF c \in expired THEN "giveup" ELSE "park"]
  /\ UNCHANGED <<q, mtx, waiting, timed, expired, stopped, callback, sent,
                 res, history>>

\* No element: leave if a stop was requested, else release mtx_ and sleep.
PopPark(c) ==
  /\ pc[c] = "park"
  /\ IF c \in stopped
     THEN /\ pc' = [pc EXCEPT ![c] = "giveup"]
          /\ UNCHANGED <<mtx, waiting>>
     ELSE /\ pc' = [pc EXCEPT ![c] = "asleep"]
          /\ waiting' = waiting \cup {c}
          /\ mtx' = Free
  /\ UNCHANGED <<q, timed, expired, stopped, callback, sent, res, history>>

\* T v = std::move(q_.front()); q_.pop(); return v;
PopTake(c) ==
  /\ pc[c] = "take"
  /\ res' = [res EXCEPT ![c] = Head(q)]
  /\ q' = Tail(q)
  /\ mtx' = Free
  /\ pc' = [pc EXCEPT ![c] = "idle"]
  /\ UNCHANGED <<waiting, timed, expired, stopped, callback, sent, history>>

\* if (q_.empty()) return std::nullopt;
PopGiveUp(c) ==
  /\ pc[c] = "giveup"
  /\ res' = [res EXCEPT ![c] = NullOpt]
  /\ mtx' = Free
  /\ pc' = [pc EXCEPT ![c] = "idle"]
  /\ UNCHANGED <<q, waiting, timed, expired, stopped, callback, sent, history>>

----------------------------------------------------------------------------
(* The condition variable and the stop_token *)

Awaken(S) ==
  /\ waiting' = waiting \ S
  /\ pc' = [t \in Threads |-> IF t \in S THEN "relock" ELSE pc[t]]

\* The deadline of wait_for passes while c sleeps.
TimeOut(c) ==
  /\ c \in waiting \cap timed
  /\ Awaken({c})
  /\ expired' = expired \cup {c}
  /\ UNCHANGED <<q, mtx, timed, stopped, callback, sent, res, history>>

\* cv_ may wake a sleeper for no reason.
SpuriousWakeup(c) ==
  /\ c \in waiting
  /\ Awaken({c})
  /\ UNCHANGED <<q, mtx, timed, expired, stopped, callback, sent, res,
                 history>>

\* ThreadSafeQueue::notify_all, which takes no lock.
NotifyAll ==
  /\ waiting # {}
  /\ Awaken(waiting)
  /\ UNCHANGED <<q, mtx, timed, expired, stopped, callback, sent, res,
                 history>>

\* std::jthread::request_stop: the flag first ...
RequestStop(c) ==
  /\ c \notin stopped
  /\ stopped' = stopped \cup {c}
  /\ callback' = callback \cup {c}
  /\ UNCHANGED <<q, mtx, waiting, pc, timed, expired, sent, res, history>>

\* ... then the callback that the wait registered, a notify_all on cv_.
StopCallback(c) ==
  /\ c \in callback
  /\ callback' = callback \ {c}
  /\ Awaken(waiting)
  /\ UNCHANGED <<q, mtx, timed, expired, stopped, sent, res, history>>

----------------------------------------------------------------------------
PushStep(p) ==
  PushCall(p) \/ PushLock(p) \/ PushEnqueue(p) \/ PushNotify(p) \/ PushUnlock(p)

PopStep(c) ==
  PopLock(c) \/ PopTest(c) \/ PopPark(c) \/ PopTake(c) \/ PopGiveUp(c)

Next ==
  \/ \E p \in Producers : PushStep(p)
  \/ \E c \in Consumers :
       \/ \E isTimed \in BOOLEAN : PopCall(c, isTimed)
       \/ PopStep(c)
       \/ TimeOut(c)
       \/ SpuriousWakeup(c)
       \/ RequestStop(c)
       \/ StopCallback(c)
  \/ NotifyAll

Spec == Init /\ [][Next]_vars

(* A thread that can run does run, request_stop runs its callback, and a   *)
(* deadline passes.  Nobody is obliged to push, pop, stop or notify.       *)
Fairness ==
  /\ \A p \in Producers :
       WF_vars(PushLock(p) \/ PushEnqueue(p) \/ PushNotify(p) \/ PushUnlock(p))
  /\ \A c \in Consumers :
       /\ WF_vars(PopStep(c))
       /\ WF_vars(TimeOut(c))
       /\ WF_vars(StopCallback(c))

FairSpec == Spec /\ Fairness

----------------------------------------------------------------------------
(* Properties *)

\* Every variable keeps to its domain.
TypeOK ==
  /\ q \in Seq(Values)
  /\ mtx \in Threads \cup {Free}
  /\ waiting \subseteq Consumers
  /\ pc \in [Threads -> {"idle", "lock", "relock", "asleep"} \cup Holding]
  /\ timed \subseteq Consumers
  /\ expired \subseteq Consumers
  /\ stopped \subseteq Consumers
  /\ callback \subseteq stopped
  /\ sent \in [Producers -> 0 .. MaxPush]
  /\ res \in [Consumers -> Values \cup {NullOpt, Pending}]
  /\ history \in Seq(Values)

\* At most one thread is between the lock and the unlock of mtx_, so the
\* emptiness that PopTest saw is still true when PopPark sleeps and the
\* element it saw is still there when PopTake takes it.
Exclusion ==
  /\ \A t \in Threads : pc[t] \in Holding <=> mtx = t
  /\ \A c \in Consumers : pc[c] \in {"park", "giveup"} => q = << >>
  /\ \A c \in Consumers : pc[c] = "take" => q # << >>

\* No wakeup is lost: while some consumer sleeps, each element in the queue
\* is matched by a push that has yet to notify or by a consumer that is
\* awake and will look.  A sleeper is never left behind with work in q_.
NoLostWakeup ==
  waiting # {} =>
    Len(q) <= Cardinality(Awake) + Cardinality(Notifying)

\* No stop is lost: a consumer that sleeps after its stop was requested will
\* still be woken by the callback of that request.
NoLostStop ==
  \A c \in waiting \cap stopped : c \in callback

\* Nothing is lost, duplicated or reordered: the queue is always a final
\* segment of everything pushed, and a taken element is never seen again.
ExactlyOnce ==
  /\ Len(q) <= Len(history)
  /\ q = SubSeq(history, Len(history) - Len(q) + 1, Len(history))
  /\ \A c \in Consumers :
       /\ \A i \in 1 .. Len(q) : res[c] # q[i]
       /\ \A d \in Consumers \ {c} : res[c] \in Values => res[c] # res[d]

\* A stop gets every consumer out of its call, even one in pop_wait, which
\* has no time limit.
StopReturns ==
  \A c \in Consumers : (c \in stopped) ~> (pc[c] = "idle")

\* A consumer asleep in pop_wait while elements arrive does not sleep on: it
\* wakes, or somebody else takes the elements.
WorkIsPickedUp ==
  \A c \in Consumers :
    (c \in waiting /\ q # << >>) ~> (c \notin waiting \/ q = << >>)

\* Every operation takes effect at one instant, as FifoQueue says.
Abstract == INSTANCE FifoQueue WITH queue <- q

ImplementsFifo == Abstract!Spec
=============================================================================
