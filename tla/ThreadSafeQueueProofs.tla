----------------------- MODULE ThreadSafeQueueProofs -----------------------
(***************************************************************************)
(* Proofs about ThreadSafeQueue, for any finite sets of producers and      *)
(* consumers and any number of pushes.                                     *)
(*                                                                         *)
(* IInv is the inductive invariant.  Beside the properties themselves it   *)
(* says where the ghost and the bookkeeping stand: the wait set is the set *)
(* of threads at "asleep" (a notification moves both), a producer on its   *)
(* way to the enqueue has made an element, a call is pending exactly while *)
(* its thread is away from "idle", and a consumer that gives up has a      *)
(* reason to.                                                              *)
(***************************************************************************)
EXTENDS ThreadSafeQueue, FiniteSetTheorems, SequenceTheorems, TLAPS

Bookkeeping ==
  /\ \A c \in Consumers : c \in waiting <=> pc[c] = "asleep"
  /\ \A p \in Producers : pc[p] \in {"lock", "enqueue"} => sent[p] \in 1 .. MaxPush
  /\ \A p \in Producers : pc[p] \in {"idle", "lock", "enqueue", "notify", "unlock"}
  /\ \A c \in Consumers : res[c] = Pending <=> pc[c] # "idle"
  /\ expired \subseteq timed
  /\ \A c \in Consumers : pc[c] = "giveup" => c \in expired \cup stopped

IInv ==
  /\ TypeOK
  /\ Exclusion
  /\ Bookkeeping
  /\ NoLostWakeup
  /\ NoLostStop

----------------------------------------------------------------------------
(* Facts about the sets that NoLostWakeup counts. *)

\* The two counted sets are finite, so their cardinalities are numbers.
LEMMA CountedSetsFinite ==
  /\ IsFiniteSet(Awake)
  /\ IsFiniteSet(Notifying)
  /\ Cardinality(Awake) \in Nat
  /\ Cardinality(Notifying) \in Nat
<1>1. Awake \in SUBSET Consumers /\ Notifying \in SUBSET Producers
  BY DEF Awake, Notifying
<1>2. IsFiniteSet(Consumers) /\ IsFiniteSet(Producers)
  BY ThreadsAssumption
<1>3. IsFiniteSet(Awake) /\ IsFiniteSet(Notifying)
  BY <1>1, <1>2, FS_Subset
<1> QED
  BY <1>3, FS_CardinalityType

LEMMA CountedSetsFinitePrime ==
  /\ IsFiniteSet(Awake')
  /\ IsFiniteSet(Notifying')
  /\ Cardinality(Awake') \in Nat
  /\ Cardinality(Notifying') \in Nat
<1>1. Awake' \in SUBSET Consumers /\ Notifying' \in SUBSET Producers
  BY DEF Awake, Notifying
<1>2. IsFiniteSet(Consumers) /\ IsFiniteSet(Producers)
  BY ThreadsAssumption
<1>3. IsFiniteSet(Awake') /\ IsFiniteSet(Notifying')
  BY <1>1, <1>2, FS_Subset
<1> QED
  BY <1>3, FS_CardinalityType

----------------------------------------------------------------------------
(* Type correctness and mutual exclusion *)

\* No thread has run: everything is empty and free.
LEMMA InitIInv == Init => IInv
<1> SUFFICES ASSUME Init PROVE IInv
  OBVIOUS
<1>1. TypeOK
  BY MaxPushAssumption DEF Init, TypeOK, Holding, Threads
<1>2. Exclusion
  BY ThreadsAssumption DEF Init, Exclusion, Holding, Threads
<1>3. Bookkeeping
  BY ResultsAssumption DEF Init, Bookkeeping, Threads
<1>4. NoLostWakeup /\ NoLostStop
  BY DEF Init, NoLostWakeup, NoLostStop
<1> QED
  BY <1>1, <1>2, <1>3, <1>4 DEF IInv

\* Every step keeps every variable in its domain.
LEMMA TypeOKStep == IInv /\ [Next]_vars => TypeOK'
<1> SUFFICES ASSUME IInv, [Next]_vars PROVE TypeOK'
  OBVIOUS
<1> USE DEF IInv, TypeOK, Threads, Holding
<1>1. ASSUME NEW p \in Producers, PushCall(p) PROVE TypeOK'
  BY <1>1, MaxPushAssumption DEF PushCall
<1>2. ASSUME NEW p \in Producers, PushLock(p) PROVE TypeOK'
  BY <1>2 DEF PushLock
<1>3. ASSUME NEW p \in Producers, PushEnqueue(p) PROVE TypeOK'
  <2>1. <<p, sent[p]>> \in Values
    BY <1>3 DEF PushEnqueue, Bookkeeping, Values
  <2> QED
    BY <1>3, <2>1 DEF PushEnqueue
<1>4. ASSUME NEW p \in Producers, PushNotify(p) PROVE TypeOK'
  BY <1>4 DEF PushNotify
<1>5. ASSUME NEW p \in Producers, PushUnlock(p) PROVE TypeOK'
  BY <1>5 DEF PushUnlock
<1>6. ASSUME NEW c \in Consumers, NEW isTimed \in BOOLEAN, PopCall(c, isTimed)
      PROVE  TypeOK'
  BY <1>6 DEF PopCall
<1>7. ASSUME NEW c \in Consumers, PopLock(c) PROVE TypeOK'
  BY <1>7 DEF PopLock
<1>8. ASSUME NEW c \in Consumers, PopTest(c) PROVE TypeOK'
  BY <1>8 DEF PopTest
<1>9. ASSUME NEW c \in Consumers, PopPark(c) PROVE TypeOK'
  BY <1>9 DEF PopPark
<1>10. ASSUME NEW c \in Consumers, PopTake(c) PROVE TypeOK'
  <2>1. q # << >>
    BY <1>10 DEF PopTake, Exclusion
  <2>2. Head(q) \in Values /\ Tail(q) \in Seq(Values)
    BY <2>1, HeadTailProperties
  <2> QED
    BY <1>10, <2>2 DEF PopTake
<1>11. ASSUME NEW c \in Consumers, PopGiveUp(c) PROVE TypeOK'
  BY <1>11 DEF PopGiveUp
<1>12. ASSUME NEW c \in Consumers, TimeOut(c) PROVE TypeOK'
  BY <1>12 DEF TimeOut, Awaken
<1>13. ASSUME NEW c \in Consumers, SpuriousWakeup(c) PROVE TypeOK'
  BY <1>13 DEF SpuriousWakeup, Awaken
<1>14. ASSUME NEW c \in Consumers, RequestStop(c) PROVE TypeOK'
  BY <1>14 DEF RequestStop
<1>15. ASSUME NEW c \in Consumers, StopCallback(c) PROVE TypeOK'
  BY <1>15 DEF StopCallback, Awaken
<1>16. CASE NotifyAll
  BY <1>16 DEF NotifyAll, Awaken
<1>17. CASE UNCHANGED vars
  BY <1>17 DEF vars
<1> QED
  BY <1>1, <1>2, <1>3, <1>4, <1>5, <1>6, <1>7, <1>8, <1>9, <1>10, <1>11,
     <1>12, <1>13, <1>14, <1>15, <1>16, <1>17 DEF Next, PushStep, PopStep

\* No step lets a second thread into a critical section or changes the queue
\* behind the back of the thread that owns mtx_.
LEMMA ExclusionStep == IInv /\ [Next]_vars => Exclusion'
<1> SUFFICES ASSUME IInv, [Next]_vars PROVE Exclusion'
  OBVIOUS
<1> USE ThreadsAssumption DEF IInv, TypeOK, Exclusion, Threads, Holding
<1>1. ASSUME NEW p \in Producers, PushCall(p) PROVE Exclusion'
  BY <1>1 DEF PushCall
<1>2. ASSUME NEW p \in Producers, PushLock(p) PROVE Exclusion'
  BY <1>2 DEF PushLock
<1>3. ASSUME NEW p \in Producers, PushEnqueue(p) PROVE Exclusion'
  BY <1>3 DEF PushEnqueue
<1>4. ASSUME NEW p \in Producers, PushNotify(p) PROVE Exclusion'
  <2>1. CASE pc' = [pc EXCEPT ![p] = "unlock"]
    BY <1>4, <2>1 DEF PushNotify, Bookkeeping
  <2>2. ASSUME NEW c \in waiting,
               pc' = [pc EXCEPT ![p] = "unlock", ![c] = "relock"]
        PROVE  Exclusion'
    <3>1. c \in Consumers /\ pc[c] = "asleep" /\ c # p
      BY <2>2 DEF Bookkeeping
    <3>2. \A t \in Threads : pc'[t] \in Holding <=> pc[t] \in Holding
      BY <1>4, <2>2, <3>1 DEF PushNotify
    <3>3. \A d \in Consumers : pc'[d] # "relock" => pc'[d] = pc[d]
      BY <1>4, <2>2, <3>1 DEF PushNotify
    <3>4. q' = q /\ mtx' = mtx
      BY <1>4 DEF PushNotify
    <3> QED
      BY <3>2, <3>3, <3>4
  <2> QED
    BY <1>4, <2>1, <2>2 DEF PushNotify
<1>5. ASSUME NEW p \in Producers, PushUnlock(p) PROVE Exclusion'
  BY <1>5 DEF PushUnlock
<1>6. ASSUME NEW c \in Consumers, NEW isTimed \in BOOLEAN, PopCall(c, isTimed)
      PROVE  Exclusion'
  BY <1>6 DEF PopCall
<1>7. ASSUME NEW c \in Consumers, PopLock(c) PROVE Exclusion'
  BY <1>7 DEF PopLock
<1>8. ASSUME NEW c \in Consumers, PopTest(c) PROVE Exclusion'
  BY <1>8 DEF PopTest
<1>9. ASSUME NEW c \in Consumers, PopPark(c) PROVE Exclusion'
  <2>1. CASE c \in stopped
    BY <1>9, <2>1 DEF PopPark
  <2>2. CASE c \notin stopped
    BY <1>9, <2>2 DEF PopPark
  <2> QED
    BY <2>1, <2>2
<1>10. ASSUME NEW c \in Consumers, PopTake(c) PROVE Exclusion'
  BY <1>10 DEF PopTake
<1>11. ASSUME NEW c \in Consumers, PopGiveUp(c) PROVE Exclusion'
  BY <1>11 DEF PopGiveUp
<1>12. ASSUME NEW c \in Consumers, TimeOut(c) PROVE Exclusion'
  BY <1>12 DEF TimeOut, Awaken, Bookkeeping
<1>13. ASSUME NEW c \in Consumers, SpuriousWakeup(c) PROVE Exclusion'
  BY <1>13 DEF SpuriousWakeup, Awaken, Bookkeeping
<1>14. ASSUME NEW c \in Consumers, RequestStop(c) PROVE Exclusion'
  BY <1>14 DEF RequestStop
<1>15. ASSUME NEW c \in Consumers, StopCallback(c) PROVE Exclusion'
  BY <1>15 DEF StopCallback, Awaken, Bookkeeping
<1>16. CASE NotifyAll
  BY <1>16 DEF NotifyAll, Awaken, Bookkeeping
<1>17. CASE UNCHANGED vars
  BY <1>17 DEF vars
<1> QED
  BY <1>1, <1>2, <1>3, <1>4, <1>5, <1>6, <1>7, <1>8, <1>9, <1>10, <1>11,
     <1>12, <1>13, <1>14, <1>15, <1>16, <1>17 DEF Next, PushStep, PopStep

\* The wait set, the pending results and the reasons to give up keep in step
\* with the threads.
LEMMA BookkeepingStep == IInv /\ [Next]_vars => Bookkeeping'
<1> SUFFICES ASSUME IInv, [Next]_vars PROVE Bookkeeping'
  OBVIOUS
<1> USE ThreadsAssumption, ResultsAssumption, MaxPushAssumption
    DEF IInv, TypeOK, Bookkeeping, Threads, Holding
<1>1. ASSUME NEW p \in Producers, PushCall(p) PROVE Bookkeeping'
  BY <1>1 DEF PushCall
<1>2. ASSUME NEW p \in Producers, PushLock(p) PROVE Bookkeeping'
  BY <1>2 DEF PushLock
<1>3. ASSUME NEW p \in Producers, PushEnqueue(p) PROVE Bookkeeping'
  BY <1>3 DEF PushEnqueue
<1>4. ASSUME NEW p \in Producers, PushNotify(p) PROVE Bookkeeping'
  <2>1. pc[p] = "notify" /\ UNCHANGED <<timed, expired, stopped, sent, res>>
    BY <1>4 DEF PushNotify
  <2>2. CASE UNCHANGED waiting /\ pc' = [pc EXCEPT ![p] = "unlock"]
    BY <2>1, <2>2
  <2>3. ASSUME NEW c \in waiting,
               waiting' = waiting \ {c},
               pc' = [pc EXCEPT ![p] = "unlock", ![c] = "relock"]
        PROVE  Bookkeeping'
    <3>1. c \in Consumers /\ pc[c] = "asleep" /\ p \notin Consumers
      OBVIOUS
    <3>2. /\ \A r \in Producers : pc'[r] = IF r = p THEN "unlock" ELSE pc[r]
          /\ \A d \in Consumers : pc'[d] = IF d = c THEN "relock" ELSE pc[d]
      BY <2>3, <3>1
    <3> QED
      BY <2>1, <2>3, <3>1, <3>2
  <2> QED
    BY <1>4, <2>2, <2>3 DEF PushNotify
<1>5. ASSUME NEW p \in Producers, PushUnlock(p) PROVE Bookkeeping'
  BY <1>5 DEF PushUnlock
<1>6. ASSUME NEW c \in Consumers, NEW isTimed \in BOOLEAN, PopCall(c, isTimed)
      PROVE  Bookkeeping'
  BY <1>6 DEF PopCall
<1>7. ASSUME NEW c \in Consumers, PopLock(c) PROVE Bookkeeping'
  BY <1>7 DEF PopLock
<1>8. ASSUME NEW c \in Consumers, PopTest(c) PROVE Bookkeeping'
  BY <1>8 DEF PopTest
<1>9. ASSUME NEW c \in Consumers, PopPark(c) PROVE Bookkeeping'
  BY <1>9 DEF PopPark
<1>10. ASSUME NEW c \in Consumers, PopTake(c) PROVE Bookkeeping'
  <2>1. Head(q) \in Values
    BY <1>10, HeadTailProperties DEF PopTake, Exclusion
  <2>2. Head(q) # Pending
    <3>1. Values \subseteq Producers \X Nat
      BY MaxPushAssumption DEF Values
    <3> QED
      BY <2>1, <3>1, ResultsAssumption
  <2> QED
    BY <1>10, <2>2 DEF PopTake
<1>11. ASSUME NEW c \in Consumers, PopGiveUp(c) PROVE Bookkeeping'
  BY <1>11 DEF PopGiveUp
<1>12. ASSUME NEW c \in Consumers, TimeOut(c) PROVE Bookkeeping'
  BY <1>12 DEF TimeOut, Awaken
<1>13. ASSUME NEW c \in Consumers, SpuriousWakeup(c) PROVE Bookkeeping'
  BY <1>13 DEF SpuriousWakeup, Awaken
<1>14. ASSUME NEW c \in Consumers, RequestStop(c) PROVE Bookkeeping'
  BY <1>14 DEF RequestStop
<1>15. ASSUME NEW c \in Consumers, StopCallback(c) PROVE Bookkeeping'
  BY <1>15 DEF StopCallback, Awaken
<1>16. CASE NotifyAll
  BY <1>16 DEF NotifyAll, Awaken
<1>17. CASE UNCHANGED vars
  BY <1>17 DEF vars
<1> QED
  BY <1>1, <1>2, <1>3, <1>4, <1>5, <1>6, <1>7, <1>8, <1>9, <1>10, <1>11,
     <1>12, <1>13, <1>14, <1>15, <1>16, <1>17 DEF Next, PushStep, PopStep

\* While a consumer sleeps, what is added to the queue is added to the
\* producers that will notify, a notification turns one of those into an
\* awake consumer, and a consumer goes back to sleep only on an empty queue.
LEMMA NoLostWakeupStep == IInv /\ [Next]_vars => NoLostWakeup'
<1> SUFFICES ASSUME IInv, [Next]_vars PROVE NoLostWakeup'
  OBVIOUS
<1> USE ThreadsAssumption DEF IInv, TypeOK, NoLostWakeup, Threads, Holding
<1>1. ASSUME NEW p \in Producers, PushCall(p) PROVE NoLostWakeup'
  <2>1. Awake' = Awake /\ Notifying' = Notifying
    BY <1>1 DEF PushCall, Awake, Notifying
  <2> QED
    BY <1>1, <2>1 DEF PushCall
<1>2. ASSUME NEW p \in Producers, PushLock(p) PROVE NoLostWakeup'
  <2>1. Awake' = Awake /\ Notifying' = Notifying
    BY <1>2 DEF PushLock, Awake, Notifying
  <2> QED
    BY <1>2, <2>1 DEF PushLock
<1>3. ASSUME NEW p \in Producers, PushEnqueue(p) PROVE NoLostWakeup'
  <2>1. Awake' = Awake /\ Notifying' = Notifying \cup {p} /\ p \notin Notifying
    BY <1>3 DEF PushEnqueue, Awake, Notifying
  <2>2. Cardinality(Notifying') = Cardinality(Notifying) + 1
    BY <2>1, CountedSetsFinite, FS_AddElement
  <2>3. Len(q') = Len(q) + 1 /\ waiting' = waiting
    BY <1>3 DEF PushEnqueue
  <2> QED
    BY <2>1, <2>2, <2>3, CountedSetsFinite
<1>4. ASSUME NEW p \in Producers, PushNotify(p) PROVE NoLostWakeup'
  <2>1. CASE waiting = {}
    BY <1>4, <2>1 DEF PushNotify
  <2>2. CASE waiting # {}
    <3>1. PICK c \in waiting : pc' = [pc EXCEPT ![p] = "unlock", ![c] = "relock"]
      BY <1>4, <2>2 DEF PushNotify
    <3>2. c \in Consumers /\ pc[c] = "asleep" /\ c # p
      BY <3>1 DEF Bookkeeping
    <3>3. Awake' = Awake \cup {c} /\ c \notin Awake
      BY <1>4, <3>1, <3>2 DEF PushNotify, Awake
    <3>4. Notifying' = Notifying \ {p} /\ p \in Notifying
      BY <1>4, <3>1, <3>2 DEF PushNotify, Notifying
    <3>5. /\ Cardinality(Awake') = Cardinality(Awake) + 1
          /\ Cardinality(Notifying') = Cardinality(Notifying) - 1
      BY <3>3, <3>4, CountedSetsFinite, FS_AddElement, FS_RemoveElement
    <3>6. q' = q
      BY <1>4 DEF PushNotify
    <3> QED
      BY <2>2, <3>5, <3>6, CountedSetsFinite
  <2> QED
    BY <2>1, <2>2
<1>5. ASSUME NEW p \in Producers, PushUnlock(p) PROVE NoLostWakeup'
  <2>1. Awake' = Awake /\ Notifying' = Notifying
    BY <1>5 DEF PushUnlock, Awake, Notifying
  <2> QED
    BY <1>5, <2>1 DEF PushUnlock
<1>6. ASSUME NEW c \in Consumers, NEW isTimed \in BOOLEAN, PopCall(c, isTimed)
      PROVE  NoLostWakeup'
  <2>1. Awake' = Awake \cup {c} /\ c \notin Awake /\ Notifying' = Notifying
    BY <1>6 DEF PopCall, Awake, Notifying
  <2>2. Cardinality(Awake') = Cardinality(Awake) + 1
    BY <2>1, CountedSetsFinite, FS_AddElement
  <2>3. q' = q /\ waiting' = waiting
    BY <1>6 DEF PopCall
  <2> QED
    BY <2>1, <2>2, <2>3, CountedSetsFinite
<1>7. ASSUME NEW c \in Consumers, PopLock(c) PROVE NoLostWakeup'
  <2>1. Awake' = Awake /\ Notifying' = Notifying
    BY <1>7 DEF PopLock, Awake, Notifying
  <2> QED
    BY <1>7, <2>1 DEF PopLock
<1>8. ASSUME NEW c \in Consumers, PopTest(c) PROVE NoLostWakeup'
  <2>1. CASE q = << >>
    BY <1>8, <2>1, CountedSetsFinitePrime DEF PopTest
  <2>2. CASE q # << >>
    <3>1. Awake' = Awake /\ Notifying' = Notifying
      BY <1>8, <2>2 DEF PopTest, Awake, Notifying
    <3> QED
      BY <1>8, <3>1 DEF PopTest
  <2> QED
    BY <2>1, <2>2
<1>9. ASSUME NEW c \in Consumers, PopPark(c) PROVE NoLostWakeup'
  <2>1. q' = << >>
    BY <1>9 DEF PopPark, Exclusion
  <2> QED
    BY <2>1, CountedSetsFinitePrime
<1>10. ASSUME NEW c \in Consumers, PopTake(c) PROVE NoLostWakeup'
  <2>1. Awake' = Awake \ {c} /\ c \in Awake /\ Notifying' = Notifying
    BY <1>10 DEF PopTake, Awake, Notifying
  <2>2. Cardinality(Awake') = Cardinality(Awake) - 1
    BY <2>1, CountedSetsFinite, FS_RemoveElement
  <2>3. q # << >> /\ q' = Tail(q) /\ waiting' = waiting
    BY <1>10 DEF PopTake, Exclusion
  <2>4. Len(q') = Len(q) - 1
    BY <2>3, HeadTailProperties
  <2> QED
    BY <2>1, <2>2, <2>3, <2>4, CountedSetsFinite
<1>11. ASSUME NEW c \in Consumers, PopGiveUp(c) PROVE NoLostWakeup'
  <2>1. Awake' = Awake /\ Notifying' = Notifying
    BY <1>11 DEF PopGiveUp, Awake, Notifying
  <2> QED
    BY <1>11, <2>1 DEF PopGiveUp
<1>12. ASSUME NEW c \in Consumers, TimeOut(c) PROVE NoLostWakeup'
  <2>1. Awake \in SUBSET (Awake') /\ Notifying' = Notifying
    BY <1>12 DEF TimeOut, Awaken, Awake, Notifying
  <2>2. Cardinality(Awake) <= Cardinality(Awake')
    BY <2>1, CountedSetsFinitePrime, FS_Subset
  <2>3. waiting' # {} => waiting # {}
    BY <1>12 DEF TimeOut, Awaken
  <2>4. q' = q
    BY <1>12 DEF TimeOut
  <2> QED
    BY <2>1, <2>2, <2>3, <2>4, CountedSetsFinite, CountedSetsFinitePrime
<1>13. ASSUME NEW c \in Consumers, SpuriousWakeup(c) PROVE NoLostWakeup'
  <2>1. Awake \in SUBSET (Awake') /\ Notifying' = Notifying
    BY <1>13 DEF SpuriousWakeup, Awaken, Awake, Notifying
  <2>2. Cardinality(Awake) <= Cardinality(Awake')
    BY <2>1, CountedSetsFinitePrime, FS_Subset
  <2>3. waiting' # {} => waiting # {}
    BY <1>13 DEF SpuriousWakeup, Awaken
  <2>4. q' = q
    BY <1>13 DEF SpuriousWakeup
  <2> QED
    BY <2>1, <2>2, <2>3, <2>4, CountedSetsFinite, CountedSetsFinitePrime
<1>14. ASSUME NEW c \in Consumers, RequestStop(c) PROVE NoLostWakeup'
  <2>1. Awake' = Awake /\ Notifying' = Notifying
    BY <1>14 DEF RequestStop, Awake, Notifying
  <2> QED
    BY <1>14, <2>1 DEF RequestStop
<1>15. ASSUME NEW c \in Consumers, StopCallback(c) PROVE NoLostWakeup'
  <2>1. Awake \in SUBSET (Awake') /\ Notifying' = Notifying
    BY <1>15 DEF StopCallback, Awaken, Awake, Notifying
  <2>2. Cardinality(Awake) <= Cardinality(Awake')
    BY <2>1, CountedSetsFinitePrime, FS_Subset
  <2>3. waiting' # {} => waiting # {}
    BY <1>15 DEF StopCallback, Awaken
  <2>4. q' = q
    BY <1>15 DEF StopCallback
  <2> QED
    BY <2>1, <2>2, <2>3, <2>4, CountedSetsFinite, CountedSetsFinitePrime
<1>16. CASE NotifyAll
  <2>1. Awake \in SUBSET (Awake') /\ Notifying' = Notifying
    BY <1>16 DEF NotifyAll, Awaken, Awake, Notifying
  <2>2. Cardinality(Awake) <= Cardinality(Awake')
    BY <2>1, CountedSetsFinitePrime, FS_Subset
  <2>3. waiting' # {} => waiting # {}
    BY <1>16 DEF NotifyAll, Awaken
  <2>4. q' = q
    BY <1>16 DEF NotifyAll
  <2> QED
    BY <2>1, <2>2, <2>3, <2>4, CountedSetsFinite, CountedSetsFinitePrime
<1>17. CASE UNCHANGED vars
  <2>1. Awake' = Awake /\ Notifying' = Notifying
    BY <1>17 DEF vars, Awake, Notifying
  <2> QED
    BY <1>17, <2>1 DEF vars
<1> QED
  BY <1>1, <1>2, <1>3, <1>4, <1>5, <1>6, <1>7, <1>8, <1>9, <1>10, <1>11,
     <1>12, <1>13, <1>14, <1>15, <1>16, <1>17 DEF Next, PushStep, PopStep

\* A consumer parks only if it is not stopped, and a request registers its
\* callback in the same step that sets the flag.
LEMMA NoLostStopStep == IInv /\ [Next]_vars => NoLostStop'
<1> SUFFICES ASSUME IInv, [Next]_vars PROVE NoLostStop'
  OBVIOUS
<1> USE DEF IInv, TypeOK, NoLostStop
<1>1. ASSUME NEW p \in Producers, PushCall(p) PROVE NoLostStop'
  BY <1>1 DEF PushCall
<1>2. ASSUME NEW p \in Producers, PushLock(p) PROVE NoLostStop'
  BY <1>2 DEF PushLock
<1>3. ASSUME NEW p \in Producers, PushEnqueue(p) PROVE NoLostStop'
  BY <1>3 DEF PushEnqueue
<1>4. ASSUME NEW p \in Producers, PushNotify(p) PROVE NoLostStop'
  BY <1>4 DEF PushNotify
<1>5. ASSUME NEW p \in Producers, PushUnlock(p) PROVE NoLostStop'
  BY <1>5 DEF PushUnlock
<1>6. ASSUME NEW c \in Consumers, NEW isTimed \in BOOLEAN, PopCall(c, isTimed)
      PROVE  NoLostStop'
  BY <1>6 DEF PopCall
<1>7. ASSUME NEW c \in Consumers, PopLock(c) PROVE NoLostStop'
  BY <1>7 DEF PopLock
<1>8. ASSUME NEW c \in Consumers, PopTest(c) PROVE NoLostStop'
  BY <1>8 DEF PopTest
<1>9. ASSUME NEW c \in Consumers, PopPark(c) PROVE NoLostStop'
  BY <1>9 DEF PopPark
<1>10. ASSUME NEW c \in Consumers, PopTake(c) PROVE NoLostStop'
  BY <1>10 DEF PopTake
<1>11. ASSUME NEW c \in Consumers, PopGiveUp(c) PROVE NoLostStop'
  BY <1>11 DEF PopGiveUp
<1>12. ASSUME NEW c \in Consumers, TimeOut(c) PROVE NoLostStop'
  BY <1>12 DEF TimeOut, Awaken
<1>13. ASSUME NEW c \in Consumers, SpuriousWakeup(c) PROVE NoLostStop'
  BY <1>13 DEF SpuriousWakeup, Awaken
<1>14. ASSUME NEW c \in Consumers, RequestStop(c) PROVE NoLostStop'
  BY <1>14 DEF RequestStop
<1>15. ASSUME NEW c \in Consumers, StopCallback(c) PROVE NoLostStop'
  BY <1>15 DEF StopCallback, Awaken
<1>16. CASE NotifyAll
  BY <1>16 DEF NotifyAll, Awaken
<1>17. CASE UNCHANGED vars
  BY <1>17 DEF vars
<1> QED
  BY <1>1, <1>2, <1>3, <1>4, <1>5, <1>6, <1>7, <1>8, <1>9, <1>10, <1>11,
     <1>12, <1>13, <1>14, <1>15, <1>16, <1>17 DEF Next, PushStep, PopStep

----------------------------------------------------------------------------
(* The theorems *)

\* IInv holds in every reachable state.
THEOREM Invariance == Spec => []IInv
<1>1. IInv /\ [Next]_vars => IInv'
  BY TypeOKStep, ExclusionStep, BookkeepingStep, NoLostWakeupStep,
     NoLostStopStep DEF IInv
<1> QED
  BY InitIInv, <1>1, PTL DEF Spec

\* Every variable of the queue keeps to its domain.
THEOREM TypeCorrect == Spec => []TypeOK
<1>1. IInv => TypeOK
  BY DEF IInv
<1> QED
  BY Invariance, <1>1, PTL

\* push_noti and the two pops exclude each other, and what a pop saw of q_ is
\* still true when it acts on it.
THEOREM MutualExclusion == Spec => []Exclusion
<1>1. IInv => Exclusion
  BY DEF IInv
<1> QED
  BY Invariance, <1>1, PTL

\* One notify_one per push_noti is enough: no consumer sleeps on in cv_ while
\* an element is there for it.
THEOREM NotifyOneSuffices == Spec => []NoLostWakeup
<1>1. IInv => NoLostWakeup
  BY DEF IInv
<1> QED
  BY Invariance, <1>1, PTL

\* request_stop reaches a consumer that is asleep in either pop.
THEOREM StopReachesSleeper == Spec => []NoLostStop
<1>1. IInv => NoLostStop
  BY DEF IInv
<1> QED
  BY Invariance, <1>1, PTL

----------------------------------------------------------------------------
(* What becomes of an element.  ExactlyOnce is not inductive: that a       *)
(* consumer's element is not in the queue, nor with somebody else, follows *)
(* from where it came from.  The elements in history are all different,    *)
(* the last Len(q) of them are in the queue, and what a consumer holds is  *)
(* one of those before.                                                    *)

\* How many elements have been taken out.
Gone == Len(history) - Len(q)

\* The queue is the part of history that has not been taken.
Remaining ==
  /\ Len(q) <= Len(history)
  /\ \A i \in 1 .. Len(q) : q[i] = history[Gone + i]

\* No element was pushed twice, and one that is being made is not there yet.
PushedOnce ==
  /\ \A i, j \in 1 .. Len(history) : history[i] = history[j] => i = j
  /\ \A i \in 1 .. Len(history) : \A p \in Producers, n \in 1 .. MaxPush :
       history[i] = <<p, n>> =>
         /\ n <= sent[p]
         /\ pc[p] \in {"lock", "enqueue"} => n < sent[p]

\* A consumer holds an element that has been taken, and nobody else has it.
Taken ==
  /\ \A c \in Consumers : res[c] \in Values =>
       \E k \in 1 .. Gone : res[c] = history[k]
  /\ \A c \in Consumers : \A d \in Consumers \ {c} :
       res[c] \in Values => res[c] # res[d]

Provenance == Remaining /\ PushedOnce /\ Taken

\* A step that touches neither the elements nor the results, and puts no
\* producer on its way to the enqueue, changes nothing here.
LEMMA ElsewhereKeeps ==
  ASSUME TypeOK, Provenance, UNCHANGED <<q, sent, res, history>>,
         \A p \in Producers :
           pc'[p] \in {"lock", "enqueue"} => pc[p] \in {"lock", "enqueue"}
  PROVE  Provenance'
<1>1. Remaining'
  BY DEF Provenance, Remaining, Gone
<1>2. PushedOnce'
  BY DEF Provenance, PushedOnce
<1>3. Taken'
  BY DEF Provenance, Taken, Gone
<1> QED
  BY <1>1, <1>2, <1>3 DEF Provenance

\* push_noti makes a new element: one more than all it has made before.
LEMMA PushCallKeeps ==
  ASSUME IInv, Provenance, NEW p \in Producers, PushCall(p)
  PROVE  Provenance'
<1>1. /\ UNCHANGED <<q, res, history>>
      /\ sent' = [sent EXCEPT ![p] = @ + 1]
      /\ pc' = [pc EXCEPT ![p] = "lock"]
  BY DEF PushCall
<1>2. /\ sent \in [Producers -> 0 .. MaxPush]
      /\ pc \in [Threads -> {"idle", "lock", "relock", "asleep"} \cup Holding]
  BY DEF IInv, TypeOK
<1>3. Remaining' /\ Taken'
  BY <1>1 DEF Provenance, Remaining, Taken, Gone
<1>4. ASSUME NEW i \in 1 .. Len(history'), NEW r \in Producers,
             NEW n \in 1 .. MaxPush, history'[i] = <<r, n>>
      PROVE  /\ n <= sent'[r]
             /\ pc'[r] \in {"lock", "enqueue"} => n < sent'[r]
  <2>1. n <= sent[r] /\ (pc[r] \in {"lock", "enqueue"} => n < sent[r])
    BY <1>1, <1>4 DEF Provenance, PushedOnce
  <2>2. CASE r = p
    BY <1>1, <1>2, <2>1, <2>2, MaxPushAssumption
  <2>3. CASE r # p
    BY <1>1, <1>2, <2>1, <2>3 DEF Threads
  <2> QED
    BY <2>2, <2>3
<1>5. PushedOnce'
  BY <1>1, <1>4 DEF Provenance, PushedOnce
<1> QED
  BY <1>3, <1>5 DEF Provenance

\* The new element goes to the end of both the queue and history.
LEMMA PushEnqueueKeeps ==
  ASSUME IInv, Provenance, NEW p \in Producers, PushEnqueue(p)
  PROVE  Provenance'
<1> DEFINE e == <<p, sent[p]>>
<1>1. /\ UNCHANGED <<sent, res>>
      /\ q' = Append(q, e)
      /\ history' = Append(history, e)
      /\ pc' = [pc EXCEPT ![p] = "notify"]
      /\ pc[p] = "enqueue"
  BY DEF PushEnqueue
<1>2. /\ sent \in [Producers -> 0 .. MaxPush]
      /\ pc \in [Threads -> {"idle", "lock", "relock", "asleep"} \cup Holding]
      /\ q \in Seq(Values) /\ history \in Seq(Values)
  BY DEF IInv, TypeOK
<1>3. sent[p] \in 1 .. MaxPush /\ e \in Values
  BY <1>1 DEF IInv, Bookkeeping, Values
<1>4. /\ Len(q') = Len(q) + 1
      /\ \A i \in 1 .. Len(q) : q'[i] = q[i]
      /\ q'[Len(q) + 1] = e
  BY <1>1, <1>2, <1>3, AppendProperties
<1>5. /\ Len(history') = Len(history) + 1
      /\ \A i \in 1 .. Len(history) : history'[i] = history[i]
      /\ history'[Len(history) + 1] = e
  BY <1>1, <1>2, <1>3, AppendProperties
<1>6. Len(q) \in Nat /\ Len(history) \in Nat
  BY <1>2, LenProperties
<1>7. Gone' = Gone /\ Gone \in Nat
  BY <1>4, <1>5, <1>6 DEF Gone, Provenance, Remaining
<1>8. Remaining'
  <2>1. ASSUME NEW i \in 1 .. Len(q')
        PROVE  q'[i] = history'[Gone + i]
    <3>1. CASE i = Len(q) + 1
      BY <1>4, <1>5, <1>6, <3>1 DEF Gone
    <3>2. CASE i \in 1 .. Len(q)
      <4>1. Gone + i \in 1 .. Len(history)
        BY <1>6, <1>7, <3>2 DEF Gone
      <4> QED
        BY <1>4, <1>5, <3>2, <4>1 DEF Provenance, Remaining
    <3> QED
      BY <1>4, <1>6, <3>1, <3>2
  <2>2. Len(q') <= Len(history')
    BY <1>4, <1>5, <1>6 DEF Provenance, Remaining
  <2>3. \A i \in 1 .. Len(q') : q'[i] = history'[Gone' + i]
    BY <1>7, <2>1
  <2> QED
    BY <2>2, <2>3 DEF Remaining
<1>9. \A i \in 1 .. Len(history) : history[i] # e
  <2>1. ASSUME NEW i \in 1 .. Len(history), history[i] = e PROVE FALSE
    <3>1. sent[p] < sent[p]
      BY <1>1, <1>3, <2>1 DEF Provenance, PushedOnce
    <3> QED
      BY <1>3, <3>1
  <2> QED
    BY <2>1
<1>10. ASSUME NEW i \in 1 .. Len(history'), NEW j \in 1 .. Len(history'),
              history'[i] = history'[j]
       PROVE  i = j
  BY <1>5, <1>6, <1>9, <1>10 DEF Provenance, PushedOnce
<1>11. ASSUME NEW i \in 1 .. Len(history'), NEW r \in Producers,
              NEW n \in 1 .. MaxPush, history'[i] = <<r, n>>
       PROVE  /\ n <= sent'[r]
              /\ pc'[r] \in {"lock", "enqueue"} => n < sent'[r]
  <2>1. CASE i = Len(history) + 1
    <3>1. r = p /\ n = sent[p]
      BY <1>5, <1>11, <2>1
    <3> QED
      BY <1>1, <1>2, <1>3, <3>1 DEF Threads
  <2>2. CASE i \in 1 .. Len(history)
    <3>1. history[i] = <<r, n>>
      BY <1>5, <1>11, <2>2
    <3>2. n <= sent[r] /\ (pc[r] \in {"lock", "enqueue"} => n < sent[r])
      BY <3>1, <2>2 DEF Provenance, PushedOnce
    <3>3. pc'[r] \in {"lock", "enqueue"} => pc[r] \in {"lock", "enqueue"}
      BY <1>1, <1>2 DEF Threads
    <3> QED
      BY <1>1, <3>2, <3>3
  <2> QED
    BY <1>5, <1>6, <2>1, <2>2
<1>12. PushedOnce'
  BY <1>10, <1>11 DEF PushedOnce
<1>13. Taken'
  <2>1. ASSUME NEW c \in Consumers, res'[c] \in Values
        PROVE  \E k \in 1 .. Gone' : res'[c] = history'[k]
    <3>1. PICK k \in 1 .. Gone : res[c] = history[k]
      BY <1>1, <2>1 DEF Provenance, Taken
    <3>2. k \in 1 .. Len(history)
      BY <1>6, <1>7 DEF Gone
    <3> QED
      BY <1>1, <1>5, <1>7, <3>1, <3>2
  <2> QED
    BY <1>1, <2>1 DEF Provenance, Taken
<1> QED
  BY <1>8, <1>12, <1>13 DEF Provenance

\* A call or an empty-handed return leaves its consumer without an element.
LEMMA NothingHeldKeeps ==
  ASSUME IInv, Provenance, NEW c \in Consumers, NEW r \in {NullOpt, Pending},
         UNCHANGED <<q, sent, history>>,
         res' = [res EXCEPT ![c] = r],
         \A p \in Producers : pc'[p] = pc[p]
  PROVE  Provenance'
<1>1. r \notin Values
  BY ResultsAssumption, MaxPushAssumption DEF Values
<1>2. res \in [Consumers -> Values \cup {NullOpt, Pending}]
  BY DEF IInv, TypeOK
<1>3. Remaining'
  BY DEF Provenance, Remaining, Gone
<1>4. PushedOnce'
  BY DEF Provenance, PushedOnce
<1>5. Taken'
  BY <1>1, <1>2 DEF Provenance, Taken, Gone
<1> QED
  BY <1>3, <1>4, <1>5 DEF Provenance

\* A pop takes the first element that remains, which nobody can hold, since
\* what is held was taken before and history has no element twice.
LEMMA PopTakeKeeps ==
  ASSUME IInv, Provenance, NEW c \in Consumers, PopTake(c)
  PROVE  Provenance'
<1>1. /\ UNCHANGED <<sent, history>>
      /\ q' = Tail(q)
      /\ res' = [res EXCEPT ![c] = Head(q)]
      /\ pc' = [pc EXCEPT ![c] = "idle"]
      /\ q # << >>
  BY DEF PopTake, IInv, Exclusion
<1>2. /\ res \in [Consumers -> Values \cup {NullOpt, Pending}]
      /\ pc \in [Threads -> {"idle", "lock", "relock", "asleep"} \cup Holding]
      /\ q \in Seq(Values) /\ history \in Seq(Values)
  BY DEF IInv, TypeOK
<1>3. Len(q) \in Nat \ {0} /\ Len(history) \in Nat
  BY <1>1, <1>2, LenProperties, EmptySeq
<1>4. /\ Len(q') = Len(q) - 1
      /\ \A i \in 1 .. Len(q') : q'[i] = q[i + 1]
  BY <1>1, <1>2, HeadTailProperties
<1>5. Head(q) = q[1]
  BY <1>1, <1>2
<1>6. Gone' = Gone + 1 /\ Gone \in Nat /\ Gone + 1 \in 1 .. Len(history)
  BY <1>1, <1>3, <1>4 DEF Gone, Provenance, Remaining
<1>7. Remaining'
  <2>1. ASSUME NEW i \in 1 .. Len(q')
        PROVE  q'[i] = history'[Gone' + i]
    <3>1. i + 1 \in 1 .. Len(q)
      BY <1>3, <1>4
    <3>2. q[i + 1] = history[Gone + (i + 1)]
      BY <3>1 DEF Provenance, Remaining
    <3>3. Gone' + i = Gone + (i + 1)
      BY <1>6, <3>1
    <3> QED
      BY <1>1, <1>4, <3>2, <3>3
  <2> QED
    BY <1>1, <1>3, <1>4, <2>1 DEF Provenance, Remaining
<1>8. PushedOnce'
  <2>1. \A p \in Producers : pc'[p] = pc[p]
    BY <1>1, <1>2, ThreadsAssumption DEF Threads
  <2> QED
    BY <1>1, <2>1 DEF Provenance, PushedOnce
<1>9. q[1] = history[Gone + 1]
  BY <1>3 DEF Provenance, Remaining
<1>10. \A d \in Consumers : res[d] \in Values => res[d] # q[1]
  <2>1. ASSUME NEW d \in Consumers, res[d] \in Values, res[d] = q[1]
        PROVE  FALSE
    <3>1. PICK k \in 1 .. Gone : res[d] = history[k]
      BY <2>1 DEF Provenance, Taken
    <3>2. k \in 1 .. Len(history) /\ k # Gone + 1
      BY <1>3, <1>6 DEF Gone
    <3> QED
      BY <1>6, <1>9, <2>1, <3>1, <3>2 DEF Provenance, PushedOnce
  <2> QED
    BY <2>1
<1>11. q[1] \in Values
  BY <1>2, <1>3, ElementOfSeq
<1>12. Taken'
  <2>1. ASSUME NEW d \in Consumers, res'[d] \in Values
        PROVE  \E k \in 1 .. Gone' : res'[d] = history'[k]
    <3>1. CASE d = c
      <4>1. Gone + 1 \in 1 .. Gone'
        BY <1>6
      <4> QED
        BY <1>1, <1>2, <1>5, <1>9, <3>1, <4>1
    <3>2. CASE d # c
      <4>1. PICK k \in 1 .. Gone : res[d] = history[k]
        BY <1>1, <1>2, <2>1, <3>2 DEF Provenance, Taken
      <4>2. k \in 1 .. Gone'
        BY <1>6
      <4> QED
        BY <1>1, <1>2, <3>2, <4>1, <4>2
    <3> QED
      BY <3>1, <3>2
  <2>2. ASSUME NEW d \in Consumers, NEW f \in Consumers \ {d},
               res'[d] \in Values
        PROVE  res'[d] # res'[f]
    BY <1>1, <1>2, <1>5, <1>10, <1>11, <2>2 DEF Provenance, Taken
  <2> QED
    BY <2>1, <2>2 DEF Taken
<1> QED
  BY <1>7, <1>8, <1>12 DEF Provenance

\* Every step of the queue keeps track of every element.
LEMMA ProvenanceStep == IInv /\ Provenance /\ [Next]_vars => Provenance'
<1> SUFFICES ASSUME IInv, Provenance, [Next]_vars PROVE Provenance'
  OBVIOUS
<1>1. /\ TypeOK
      /\ pc \in [Threads -> {"idle", "lock", "relock", "asleep"} \cup Holding]
  BY DEF IInv, TypeOK
<1>2. ASSUME NEW p \in Producers,
             PushLock(p) \/ PushNotify(p) \/ PushUnlock(p)
      PROVE  Provenance'
  <2>1. UNCHANGED <<q, sent, res, history>>
    BY <1>2 DEF PushLock, PushNotify, PushUnlock
  <2>2. \A r \in Producers :
          pc'[r] \in {"lock", "enqueue"} => pc[r] \in {"lock", "enqueue"}
    BY <1>1, <1>2 DEF PushLock, PushNotify, PushUnlock, Threads
  <2> QED
    BY <1>1, <2>1, <2>2, ElsewhereKeeps
<1>3. ASSUME NEW c \in Consumers, NEW isTimed \in BOOLEAN, PopCall(c, isTimed)
      PROVE  Provenance'
  <2>1. UNCHANGED <<q, sent, history>> /\ res' = [res EXCEPT ![c] = Pending]
    BY <1>3 DEF PopCall
  <2>2. \A p \in Producers : pc'[p] = pc[p]
    BY <1>1, <1>3, ThreadsAssumption DEF PopCall, Threads
  <2> QED
    BY <2>1, <2>2, NothingHeldKeeps
<1>4. ASSUME NEW c \in Consumers, PopGiveUp(c)
      PROVE  Provenance'
  <2>1. UNCHANGED <<q, sent, history>> /\ res' = [res EXCEPT ![c] = NullOpt]
    BY <1>4 DEF PopGiveUp
  <2>2. \A p \in Producers : pc'[p] = pc[p]
    BY <1>1, <1>4, ThreadsAssumption DEF PopGiveUp, Threads
  <2> QED
    BY <2>1, <2>2, NothingHeldKeeps
<1>5. ASSUME NEW c \in Consumers, PopLock(c) \/ PopTest(c) \/ PopPark(c)
      PROVE  Provenance'
  <2>1. UNCHANGED <<q, sent, res, history>>
    BY <1>5 DEF PopLock, PopTest, PopPark
  <2>2. \A r \in Producers : pc'[r] = pc[r]
    BY <1>1, <1>5, ThreadsAssumption DEF PopLock, PopTest, PopPark, Threads
  <2> QED
    BY <1>1, <2>1, <2>2, ElsewhereKeeps
<1>6. ASSUME NEW c \in Consumers,
             TimeOut(c) \/ SpuriousWakeup(c) \/ RequestStop(c) \/ StopCallback(c)
      PROVE  Provenance'
  <2>1. UNCHANGED <<q, sent, res, history>>
    BY <1>6 DEF TimeOut, SpuriousWakeup, RequestStop, StopCallback
  <2>2. \A r \in Producers : pc'[r] \in {pc[r], "relock"}
    BY <1>1, <1>6
       DEF TimeOut, SpuriousWakeup, RequestStop, StopCallback, Awaken, Threads
  <2> QED
    BY <1>1, <2>1, <2>2, ElsewhereKeeps
<1>7. CASE NotifyAll
  <2>1. UNCHANGED <<q, sent, res, history>>
    BY <1>7 DEF NotifyAll
  <2>2. \A r \in Producers : pc'[r] \in {pc[r], "relock"}
    BY <1>1, <1>7 DEF NotifyAll, Awaken, Threads
  <2> QED
    BY <1>1, <2>1, <2>2, ElsewhereKeeps
<1>8. CASE UNCHANGED vars
  BY <1>1, <1>8, ElsewhereKeeps DEF vars
<1> QED
  BY <1>2, <1>3, <1>4, <1>5, <1>6, <1>7, <1>8, PushCallKeeps,
     PushEnqueueKeeps, PopTakeKeeps DEF Next, PushStep, PopStep

\* What remains is a final segment of history, element by element and so as
\* a sequence; and it has no element in common with what was taken.
LEMMA ProvenanceGives == IInv /\ Provenance => ExactlyOnce
<1> SUFFICES ASSUME IInv, Provenance PROVE ExactlyOnce
  OBVIOUS
<1> DEFINE t == SubSeq(history, Gone + 1, Len(history))
<1>1. q \in Seq(Values) /\ history \in Seq(Values)
  BY DEF IInv, TypeOK
<1>2. Len(q) \in Nat /\ Len(history) \in Nat /\ Gone \in Nat
      /\ Gone + Len(q) = Len(history)
  BY <1>1, LenProperties DEF Gone, Provenance, Remaining
<1>3. \A i \in Gone + 1 .. Len(history) : history[i] \in Values
  BY <1>1, <1>2, ElementOfSeq
<1>4. /\ t \in Seq(Values) /\ Len(t) = Len(q)
      /\ \A i \in 1 .. Len(q) : t[i] = history[(Gone + 1) + i - 1]
  BY <1>2, <1>3, SubSeqProperties
<1>5. \A i \in 1 .. Len(q) : q[i] = t[i]
  <2>1. ASSUME NEW i \in 1 .. Len(q) PROVE q[i] = t[i]
    <3>1. (Gone + 1) + i - 1 = Gone + i
      BY <1>2
    <3> QED
      BY <1>4, <3>1 DEF Provenance, Remaining
  <2> QED
    BY <2>1
<1>6. q = t
  BY <1>1, <1>4, <1>5, SeqEqual
<1>7. ASSUME NEW c \in Consumers, NEW i \in 1 .. Len(q), res[c] = q[i]
      PROVE  FALSE
  <2>1. q[i] = history[Gone + i] /\ q[i] \in Values
    BY <1>1, ElementOfSeq DEF Provenance, Remaining
  <2>2. PICK k \in 1 .. Gone : res[c] = history[k]
    BY <1>7, <2>1 DEF Provenance, Taken
  <2>3. Gone + i \in 1 .. Len(history) /\ k \in 1 .. Len(history) /\ k # Gone + i
    BY <1>2
  <2> QED
    BY <1>7, <2>1, <2>2, <2>3 DEF Provenance, PushedOnce
<1> QED
  BY <1>2, <1>6, <1>7 DEF ExactlyOnce, Gone, Provenance, Remaining, Taken

\* For any producers, consumers and pushes: no element is lost, reordered,
\* taken twice, or handed to two consumers.
THEOREM EachElementOnce == Spec => []ExactlyOnce
<1>1. Init => Provenance
  BY ResultsAssumption, MaxPushAssumption
     DEF Init, Provenance, Remaining, PushedOnce, Taken, Gone, Values
<1> QED
  BY <1>1, Invariance, ProvenanceStep, ProvenanceGives, PTL DEF Spec

----------------------------------------------------------------------------
(* Refinement *)

\* Every step of the detailed queue is a step of FifoQueue or changes nothing
\* that FifoQueue sees.
LEMMA StepImplements ==
  IInv /\ [Next]_vars => [Abstract!Next]_(Abstract!fifoVars)
<1> SUFFICES ASSUME IInv, [Next]_vars
             PROVE  Abstract!Next \/ UNCHANGED Abstract!fifoVars
  OBVIOUS
<1> USE DEF IInv, TypeOK
<1>1. ASSUME NEW p \in Producers, PushCall(p) PROVE Abstract!Next \/ UNCHANGED Abstract!fifoVars
  BY <1>1 DEF PushCall, Abstract!fifoVars
<1>2. ASSUME NEW p \in Producers, PushLock(p) PROVE Abstract!Next \/ UNCHANGED Abstract!fifoVars
  BY <1>2 DEF PushLock, Abstract!fifoVars
<1>3. ASSUME NEW p \in Producers, PushEnqueue(p) PROVE Abstract!Next \/ UNCHANGED Abstract!fifoVars
  <2>1. <<p, sent[p]>> \in Values
    BY <1>3 DEF PushEnqueue, Bookkeeping, Values
  <2>2. Abstract!Push(<<p, sent[p]>>)
    BY <1>3 DEF PushEnqueue, Abstract!Push
  <2> QED
    BY <2>1, <2>2 DEF Abstract!Next
<1>4. ASSUME NEW p \in Producers, PushNotify(p) PROVE Abstract!Next \/ UNCHANGED Abstract!fifoVars
  BY <1>4 DEF PushNotify, Abstract!fifoVars
<1>5. ASSUME NEW p \in Producers, PushUnlock(p) PROVE Abstract!Next \/ UNCHANGED Abstract!fifoVars
  BY <1>5 DEF PushUnlock, Abstract!fifoVars
<1>6. ASSUME NEW c \in Consumers, NEW isTimed \in BOOLEAN, PopCall(c, isTimed)
      PROVE  Abstract!Next \/ UNCHANGED Abstract!fifoVars
  <2>1. Abstract!Call(c)
    BY <1>6 DEF PopCall, Bookkeeping, Abstract!Call
  <2> QED
    BY <2>1 DEF Abstract!Next
<1>7. ASSUME NEW c \in Consumers, PopLock(c) PROVE Abstract!Next \/ UNCHANGED Abstract!fifoVars
  BY <1>7 DEF PopLock, Abstract!fifoVars
<1>8. ASSUME NEW c \in Consumers, PopTest(c) PROVE Abstract!Next \/ UNCHANGED Abstract!fifoVars
  BY <1>8 DEF PopTest, Abstract!fifoVars
<1>9. ASSUME NEW c \in Consumers, PopPark(c) PROVE Abstract!Next \/ UNCHANGED Abstract!fifoVars
  BY <1>9 DEF PopPark, Abstract!fifoVars
<1>10. ASSUME NEW c \in Consumers, PopTake(c) PROVE Abstract!Next \/ UNCHANGED Abstract!fifoVars
  <2>1. Abstract!Pop(c)
    BY <1>10 DEF PopTake, Bookkeeping, Exclusion, Abstract!Pop
  <2> QED
    BY <2>1 DEF Abstract!Next
<1>11. ASSUME NEW c \in Consumers, PopGiveUp(c) PROVE Abstract!Next \/ UNCHANGED Abstract!fifoVars
  <2>1. Abstract!PopNothing(c)
    BY <1>11 DEF PopGiveUp, Bookkeeping, Exclusion, Abstract!PopNothing
  <2> QED
    BY <2>1 DEF Abstract!Next
<1>12. ASSUME NEW c \in Consumers, TimeOut(c) PROVE Abstract!Next \/ UNCHANGED Abstract!fifoVars
  BY <1>12 DEF TimeOut, Abstract!fifoVars
<1>13. ASSUME NEW c \in Consumers, SpuriousWakeup(c) PROVE Abstract!Next \/ UNCHANGED Abstract!fifoVars
  BY <1>13 DEF SpuriousWakeup, Abstract!fifoVars
<1>14. ASSUME NEW c \in Consumers, RequestStop(c) PROVE Abstract!Next \/ UNCHANGED Abstract!fifoVars
  <2>1. Abstract!RequestStop(c)
    BY <1>14 DEF RequestStop, Abstract!RequestStop
  <2> QED
    BY <2>1 DEF Abstract!Next
<1>15. ASSUME NEW c \in Consumers, StopCallback(c) PROVE Abstract!Next \/ UNCHANGED Abstract!fifoVars
  BY <1>15 DEF StopCallback, Abstract!fifoVars
<1>16. CASE NotifyAll
  BY <1>16 DEF NotifyAll, Abstract!fifoVars
<1>17. CASE UNCHANGED vars
  BY <1>17 DEF vars, Abstract!fifoVars
<1> QED
  BY <1>1, <1>2, <1>3, <1>4, <1>5, <1>6, <1>7, <1>8, <1>9, <1>10, <1>11,
     <1>12, <1>13, <1>14, <1>15, <1>16, <1>17 DEF Next, PushStep, PopStep

\* ThreadSafeQueue implements FifoQueue: its operations are linearizable, its
\* pops return nullopt only from an empty queue and only after a stop or in a
\* call with a time limit.
THEOREM Refinement == Spec => ImplementsFifo
<1>1. Init => Abstract!Init
  BY DEF Init, Abstract!Init
<1> QED
  BY <1>1, StepImplements, Invariance, PTL DEF Spec, ImplementsFifo, Abstract!Spec
=============================================================================
