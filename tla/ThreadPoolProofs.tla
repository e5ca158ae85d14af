-------------------------- MODULE ThreadPoolProofs --------------------------
(***************************************************************************)
(* Theorems about the pool, for any number of workers, request threads and *)
(* requests and any thread and queue limits the configuration accepts.     *)
(***************************************************************************)
EXTENDS ThreadPool, MultiThreadQueueProofs

USE DEF poolVars, managerVars, workerVars, statVars

\* Before start() nobody has touched the queue: this is what lets start() set
\* the drop size without the mutex.
NotStarted ==
    spc = "constructed" =>
        /\ Unused
        /\ mpc = "none"
        /\ \A w \in Workers : wpc[w] = "none"

LEMMA NotStartedStep == NotStarted /\ [Next]_vars => NotStarted'
<1> SUFFICES ASSUME NotStarted, [Next]_vars PROVE NotStarted'
  OBVIOUS
<1> SUFFICES ASSUME spc' = "constructed"
             PROVE  Unused' /\ mpc' = "none" /\ \A w \in Workers : wpc'[w] = "none"
  BY DEF NotStarted
<1> USE RolesAssumption DEF NotStarted, Unused
<1>1. CASE Main
  BY <1>1 DEF Main, Start, StartWorker, StartManager, StopPool, StopQueueFlag, JoinManager
<1>2. CASE Manage
  BY <1>2 DEF Manage, ReadLoad, JoinWorker, JoinTimesOut, CollectDone, Collecting, Grow,
     Shrink, Keep, UnlockPill, NotifyPill, SkipStats, StartStats, ReadCounters,
     ReadProviders, LeaveLoop, PoisonAll, CollectLast, PushEnd
<1>3. ASSUME NEW c \in Clients, Client(c) PROVE FALSE
  BY <1>3 DEF Client, ClientPush, ClientUnlock, ClientNotify, PushEnd, NotifyOne
<1>4. ASSUME NEW w \in Workers, Worker(w) \/ EndCurl(w) \/ WorkerWakeup(w) PROVE FALSE
  BY <1>4 DEF Worker, InitCurl, WorkerPop, WorkerWait, ReceivePill, ReceiveRequest,
     StartCurl, FinishRequest, EndCurl, WorkerWakeup, PopEnd, SpuriousWakeup
<1>5. CASE Terminated \/ UNCHANGED vars
  BY <1>5 DEF Terminated, vars, queueVars
<1> QED BY <1>1, <1>2, <1>3, <1>4, <1>5 DEF Next

\* Every step of the pool is a call of the queue or leaves it alone.
LEMMA PoolStepIsQueueStep == NotStarted /\ [Next]_vars => [QueueNext]_queueVars
<1> SUFFICES ASSUME NotStarted, [Next]_vars PROVE [QueueNext]_queueVars
  OBVIOUS
<1>1. Workers \subseteq Threads /\ Clients \subseteq Threads /\ Manager \in Threads
  BY RolesAssumption
<1>2. Requests \subseteq Items /\ Poison \in Items
  BY ItemsAssumption
<1>3. CASE Main
  <2>1. mMaxQueued * mMaxThreads \in Nat
    BY PoolAssumption
  <2>2. CASE Start
    BY <2>1, <2>2 DEF Start, NotStarted, QueueNext
  <2> QED BY <1>3, <2>2
    DEF Main, StartWorker, StartManager, StopPool, StopQueueFlag, JoinManager, QueueNext
<1>4. CASE Manage
  BY <1>1, <1>2, <1>4
  DEF Manage, ReadLoad, JoinWorker, JoinTimesOut, CollectDone, Grow, Shrink, Keep, PushPill,
      UnlockPill, NotifyPill, SkipStats, StartStats, ReadCounters, ReadProviders, LeaveLoop,
      PoisonAll, CollectLast, QueueNext
<1>5. ASSUME NEW c \in Clients, Client(c) PROVE [QueueNext]_queueVars
  BY <1>1, <1>2, <1>5 DEF Client, ClientPush, ClientUnlock, ClientNotify, QueueNext
<1>6. ASSUME NEW w \in Workers, Worker(w) \/ EndCurl(w) \/ WorkerWakeup(w)
      PROVE  [QueueNext]_queueVars
  BY <1>1, <1>6
  DEF Worker, InitCurl, WorkerPop, WorkerWait, ReceivePill, ReceiveRequest, StartCurl,
      FinishRequest, EndCurl, WorkerWakeup, QueueNext
<1>7. CASE Terminated \/ UNCHANGED vars
  BY <1>7 DEF Terminated, vars
<1> QED BY <1>3, <1>4, <1>5, <1>6, <1>7 DEF Next

\* The pool is a client of the queue: it implements the queue's specification,
\* so what holds of the queue under any client holds in the pool.
THEOREM PoolImplementsQueue == Spec => QueueSpec
<1>1. Init => QueueInit /\ NotStarted
  <2>1. Workers \subseteq Threads
    BY RolesAssumption
  <2> QED BY <2>1 DEF Init, QueueInit, NotStarted, Unused
<1>2. NotStarted /\ [Next]_vars => NotStarted'
  BY NotStartedStep
<1>3. NotStarted /\ [Next]_vars => [QueueNext]_queueVars
  BY PoolStepIsQueueStep
<1> QED BY <1>1, <1>2, <1>3, PTL DEF Spec, QueueSpec

\* Inside the pool no wakeup is lost and the queue stays within
\* mMaxQueued * mMaxThreads objects, the drop size set by start().
THEOREM PoolQueueSafe == Spec => [](NoLostWakeup /\ QueueBounded)
BY PoolImplementsQueue, NoWakeupIsLost, QueueIsBounded, PTL
-----------------------------------------------------------------------------
\* Type correctness needs two facts more: a thread that is leaving pop() has an
\* object in hand, and a worker inside a curl call has a call left to count.
PopHolds == \A t \in Threads : qpc[t] = "popping" => lObject[t] \in Items
CurlHasCall == \A w \in Workers : wpc[w] = "curl" => todo[w] > 0
TypeInv == TypeOK /\ PopHolds /\ CurlHasCall

\* Leaving pop() with an object in hand is kept by every call of the queue.
LEMMA PopHoldsStep ==
    QueueTypeOK /\ PopHolds /\ [QueueNext]_queueVars => PopHolds'
<1> SUFFICES ASSUME QueueTypeOK, PopHolds, [QueueNext]_queueVars PROVE PopHolds'
  OBVIOUS
<1> USE DEF PopHolds
<1>1. qpc \in [Threads -> QueueStates] /\ lObject \in [Threads -> Items \cup {NoItem}]
  BY DEF QueueTypeOK
<1>2. ASSUME NEW t \in Threads, PopBegin(t) PROVE PopHolds'
  <2>1. Head(mQueue) \in Items
    BY <1>2 DEF PopBegin, QueueTypeOK
  <2> QED BY <1>1, <1>2, <2>1 DEF PopBegin, Enter
<1>3. ASSUME NEW t \in Threads, PopEnd(t) PROVE PopHolds'
  BY <1>1, <1>3 DEF PopEnd, Leave
<1>4. ASSUME NEW t \in Threads, NotifyOne(t) PROVE PopHolds'
  BY <1>1, <1>4 DEF NotifyOne, Waiting
<1>5. ASSUME NEW t \in Threads,
             \/ \E i \in Items : PushBegin(t, i) \/ PushFrontBegin(t, i)
             \/ PushEnd(t) \/ PopWait(t) \/ SpuriousWakeup(t)
      PROVE  PopHolds'
  BY <1>1, <1>5 DEF PushBegin, PushFrontBegin, PushEnd, PopWait, SpuriousWakeup, Enter, Leave
<1>6. ASSUME UNCHANGED <<qpc, lObject>> PROVE PopHolds'
  BY <1>6
<1> QED
  BY <1>2, <1>3, <1>4, <1>5, <1>6
  DEF QueueNext, SetDropSize, StopQueue, GetCounters, GetCountersRead, GetCountersReset,
      queueVars

\* A list of threads without the one the iterator is at: erase(it).
LEMMA RemoveAtProperties ==
    ASSUME NEW S, NEW s \in Seq(S), NEW i \in 1 .. Len(s)
    PROVE  /\ RemoveAt(s, i) \in Seq(S)
           /\ Len(RemoveAt(s, i)) = Len(s) - 1
           /\ \A k \in 1 .. Len(s) - 1 : RemoveAt(s, i)[k] = IF k < i THEN s[k] ELSE s[k + 1]
<1> DEFINE a == SubSeq(s, 1, i - 1)
           b == SubSeq(s, i + 1, Len(s))
<1>1. Len(s) \in Nat /\ i \in Nat /\ i >= 1 /\ i <= Len(s)
  OBVIOUS
<1>2. /\ a \in Seq(S) /\ Len(a) = i - 1
      /\ \A k \in 1 .. i - 1 : a[k] = s[k]
  <2>1. \A k \in 1 .. i - 1 : s[k] \in S
    BY <1>1
  <2>2. /\ SubSeq(s, 1, i - 1) \in Seq(S)
        /\ Len(SubSeq(s, 1, i - 1)) = IF 1 <= i - 1 THEN (i - 1) - 1 + 1 ELSE 0
        /\ \A k \in 1 .. (i - 1) - 1 + 1 : SubSeq(s, 1, i - 1)[k] = s[1 + k - 1]
    BY <1>1, <2>1, SubSeqProperties
  <2> QED BY <1>1, <2>2
<1>3. /\ b \in Seq(S) /\ Len(b) = Len(s) - i
      /\ \A k \in 1 .. Len(s) - i : b[k] = s[i + k]
  <2>1. \A k \in i + 1 .. Len(s) : s[k] \in S
    BY <1>1
  <2>2. /\ SubSeq(s, i + 1, Len(s)) \in Seq(S)
        /\ Len(SubSeq(s, i + 1, Len(s)))
              = IF i + 1 <= Len(s) THEN Len(s) - (i + 1) + 1 ELSE 0
        /\ \A k \in 1 .. Len(s) - (i + 1) + 1 :
              SubSeq(s, i + 1, Len(s))[k] = s[(i + 1) + k - 1]
    BY <1>1, <2>1, SubSeqProperties
  <2> QED BY <1>1, <2>2
<1>4. RemoveAt(s, i) = a \o b
  BY DEF RemoveAt
<1> HIDE DEF a, b
<1>5. /\ a \o b \in Seq(S)
      /\ Len(a \o b) = Len(a) + Len(b)
      /\ \A k \in 1 .. Len(a) + Len(b) :
            (a \o b)[k] = IF k <= Len(a) THEN a[k] ELSE b[k - Len(a)]
  BY <1>2, <1>3, ConcatProperties
<1>6. Len(RemoveAt(s, i)) = Len(s) - 1
  BY <1>1, <1>2, <1>3, <1>4, <1>5
<1>7. ASSUME NEW k \in 1 .. Len(s) - 1
      PROVE  RemoveAt(s, i)[k] = IF k < i THEN s[k] ELSE s[k + 1]
  <2>1. (a \o b)[k] = IF k <= i - 1 THEN a[k] ELSE b[k - (i - 1)]
    BY <1>1, <1>2, <1>3, <1>5
  <2>2. CASE k < i
    BY <1>1, <1>2, <1>4, <2>1, <2>2
  <2>3. CASE k >= i
    <3>1. k - (i - 1) \in 1 .. Len(s) - i /\ i + (k - (i - 1)) = k + 1
      BY <1>1, <2>3
    <3> QED BY <1>1, <1>3, <1>4, <2>1, <2>3, <3>1
  <2> QED BY <1>1, <2>2, <2>3
<1> QED BY <1>4, <1>5, <1>6, <1>7

\* The main thread and the request threads keep types.
LEMMA MainTypeStep ==
    ASSUME TypeInv, QueueTypeOK', PopHolds', Main \/ (\E c \in Clients : Client(c))
    PROVE  TypeInv'
<1> USE DEF TypeInv, TypeOK, CurlHasCall
<1>1. ASSUME newThread
      PROVE  /\ mThreads' \in Seq(Workers) /\ wpc' \in [Workers -> WorkerStates]
             /\ \A w \in Workers : wpc'[w] = "curl" => wpc[w] = "curl"
  BY <1>1 DEF newThread, WorkerStates
<1>2. CASE Start
  BY <1>2 DEF Start, MainStates
<1>3. CASE StartWorker
  BY <1>1, <1>3 DEF StartWorker
<1>4. CASE StartManager
  BY <1>4 DEF StartManager, MainStates, ManagerStates
<1>5. CASE StopPool \/ StopQueueFlag \/ JoinManager
  BY <1>5 DEF StopPool, StopQueueFlag, JoinManager, MainStates
<1>6. ASSUME NEW c \in Clients, NEW r \in Requests, ClientPush(c, r) PROVE TypeInv'
  BY <1>6 DEF ClientPush, Fates
<1>7. ASSUME NEW c \in Clients, ClientUnlock(c) \/ ClientNotify(c) PROVE TypeInv'
  BY <1>7 DEF ClientUnlock, ClientNotify
<1> QED BY <1>2, <1>3, <1>4, <1>5, <1>6, <1>7 DEF Main, Client

\* A worker keeps types.
LEMMA WorkerTypeStep ==
    ASSUME TypeInv, QueueTypeOK', PopHolds', NEW w \in Workers,
           Worker(w) \/ EndCurl(w) \/ WorkerWakeup(w)
    PROVE  TypeInv'
<1> USE DEF TypeInv, TypeOK, CurlHasCall
<1>1. CASE InitCurl(w)
  BY <1>1 DEF InitCurl, WorkerStates
<1>2. CASE WorkerPop(w)
  BY <1>2 DEF WorkerPop, Fates
<1>3. CASE WorkerWait(w) \/ WorkerWakeup(w)
  BY <1>3 DEF WorkerWait, WorkerWakeup
<1>4. CASE ReceivePill(w)
  BY <1>4 DEF ReceivePill, WorkerStates
<1>5. CASE ReceiveRequest(w)
  <2>1. lObject[w] \in Requests
    BY <1>5, RolesAssumption, ItemsAssumption DEF ReceiveRequest, PopEnd, PopHolds
  <2> QED BY <1>5, <2>1 DEF ReceiveRequest, WorkerStates
<1>6. CASE StartCurl(w)
  BY <1>6 DEF StartCurl, WorkerStates
<1>7. CASE EndCurl(w)
  <2>1. \A s \in StatNames : Increment(s) \in [StatNames -> CountValues]
    <3>1. ASSUME NEW s \in StatNames PROVE (mStats[s] + 1) % CounterMod \in CountValues
      <4>1. mStats[s] + 1 \in Nat
        BY CounterModAssumption DEF CountValues
      <4> QED BY <4>1, ModuloInRange, CounterModAssumption DEF CountValues
    <3> QED BY <3>1 DEF Increment
  <2>2. mStats' \in [StatNames -> CountValues]
    BY <1>7, <2>1 DEF EndCurl, StatNames
  <2>3. todo[w] - 1 \in 0 .. MaxCurls
    BY <1>7, PoolAssumption DEF EndCurl
  <2> QED BY <1>7, <2>2, <2>3 DEF EndCurl, WorkerStates
<1>8. CASE FinishRequest(w)
  <2>1. fate' \in [Requests -> Fates]
    BY <1>8 DEF FinishRequest, Fates
  <2>2. /\ wpc' \in [Workers -> WorkerStates] /\ todo' \in [Workers -> 0 .. MaxCurls]
        /\ \A v \in Workers : wpc'[v] = "curl" => todo'[v] > 0
    BY <1>8, PoolAssumption DEF FinishRequest, WorkerStates
  <2>3. current' \in [Workers -> Requests \cup {NoItem}]
    BY <1>8 DEF FinishRequest
  <2> QED BY <1>8, <2>1, <2>2, <2>3 DEF FinishRequest
<1> QED BY <1>1, <1>2, <1>3, <1>4, <1>5, <1>6, <1>7, <1>8 DEF Worker

\* The manager keeps types; this is where the unsigned arithmetic is.
LEMMA ManagerTypeStep ==
    ASSUME TypeInv, QueueTypeOK', PopHolds', Manage
    PROVE  TypeInv'
<1> USE DEF TypeInv, TypeOK, CurlHasCall, ManagerStates
<1>1. CASE ReadLoad
  BY <1>1 DEF ReadLoad
<1>2. CASE JoinWorker
  <2>1. it \in 1 .. Len(mThreads)
    BY <1>2 DEF JoinWorker, Collecting
  <2>2. mThreads' \in Seq(Workers)
    BY <1>2, <2>1, RemoveAtProperties DEF JoinWorker
  <2>3. mBeingKilled' \in 0 .. KilledMod - 1
    <3>1. mBeingKilled + KilledMod - 1 \in Nat /\ KilledMod \in Nat \ {0}
      BY WidthAssumption, PoolAssumption
    <3> QED BY <1>2, <3>1, ModuloInRange DEF JoinWorker
  <2> QED BY <1>2, <2>2, <2>3 DEF JoinWorker, WorkerStates
<1>3. CASE JoinTimesOut
  BY <1>3 DEF JoinTimesOut
<1>4. CASE CollectDone
  BY <1>4 DEF CollectDone
<1>5. CASE Grow
  BY <1>5 DEF Grow, newThread, WorkerStates, NoLoad
<1>6. CASE Shrink
  BY <1>6 DEF Shrink, PushPill, Fates, NoLoad
<1>7. CASE Keep
  BY <1>7 DEF Keep, NoLoad
<1>8. CASE UnlockPill
  BY <1>8 DEF UnlockPill
<1>9. CASE NotifyPill
  <2>1. mBeingKilled' \in 0 .. KilledMod - 1
    <3>1. mBeingKilled + 1 \in Nat /\ KilledMod \in Nat \ {0}
      BY WidthAssumption, PoolAssumption
    <3> QED BY <1>9, <3>1, ModuloInRange DEF NotifyPill
  <2> QED BY <1>9, <2>1 DEF NotifyPill
<1>10. CASE SkipStats
  BY <1>10, PoolAssumption DEF SkipStats
<1>11. CASE StartStats \/ ReadCounters
  BY <1>11 DEF StartStats, ReadCounters
<1>12. CASE ReadProviders
  BY <1>12, PoolAssumption, CounterModAssumption DEF ReadProviders, CountValues
<1>13. CASE LeaveLoop
  BY <1>13 DEF LeaveLoop
<1>14. CASE PoisonAll
  BY <1>14 DEF PoisonAll, PushPill, Fates
<1>15. CASE CollectLast
  BY <1>15 DEF CollectLast
<1> QED
  BY <1>1, <1>2, <1>3, <1>4, <1>5, <1>6, <1>7, <1>8, <1>9, <1>10, <1>11, <1>12, <1>13,
     <1>14, <1>15
  DEF Manage

LEMMA TypeInvInit == Init => TypeInv
<1> SUFFICES ASSUME Init PROVE TypeInv
  OBVIOUS
<1>1. QueueTypeOK
  BY QueueTypeInit DEF Init
<1>2. PopHolds
  BY DEF Init, QueueInit, PopHolds
<1>3. CurlHasCall
  BY DEF Init, CurlHasCall
<1>4. TypeOK
  <2>1. mBeingKilled \in 0 .. KilledMod - 1 /\ iterationsSinceStats \in 0 .. StatsEvery - 1
    BY PoolAssumption, WidthAssumption DEF Init
  <2>2. mStats \in [StatNames -> CountValues]
    BY CounterModAssumption DEF Init, CountValues
  <2>3. /\ wpc \in [Workers -> WorkerStates] /\ todo \in [Workers -> 0 .. MaxCurls]
        /\ current \in [Workers -> Requests \cup {NoItem}] /\ fate \in [Requests -> Fates]
    BY PoolAssumption DEF Init, WorkerStates, Fates
  <2>4. mThreads \in Seq(Workers) /\ left \in Nat /\ it \in Nat \ {0}
    BY DEF Init
  <2>5. spc \in MainStates /\ mpc \in ManagerStates /\ mRunning \in BOOLEAN
    BY DEF Init, MainStates, ManagerStates
  <2>6. load \in [high : BOOLEAN, low : BOOLEAN]
    BY DEF Init, NoLoad
  <2> QED BY <1>1, <2>1, <2>2, <2>3, <2>4, <2>5, <2>6 DEF TypeOK
<1> QED BY <1>2, <1>3, <1>4 DEF TypeInv

LEMMA TypeInvStep == TypeInv /\ NotStarted /\ [Next]_vars => TypeInv'
<1> SUFFICES ASSUME TypeInv, NotStarted, [Next]_vars PROVE TypeInv'
  OBVIOUS
<1>1. [QueueNext]_queueVars
  BY PoolStepIsQueueStep
<1>2. QueueTypeOK' /\ PopHolds'
  BY <1>1, QueueTypeStep, PopHoldsStep DEF TypeInv, TypeOK
<1>3. CASE Terminated \/ UNCHANGED vars
  BY <1>2, <1>3 DEF Terminated, vars, TypeInv, TypeOK, CurlHasCall
<1> QED
  BY <1>2, <1>3, MainTypeStep, WorkerTypeStep, ManagerTypeStep DEF Next

\* Type correctness of the pool, TypeInv first because TypeOK alone is not inductive.
THEOREM PoolTypeInv == Spec => [](TypeInv /\ NotStarted)
<1>1. Init => NotStarted
  <2>1. Workers \subseteq Threads
    BY RolesAssumption
  <2> QED BY <2>1 DEF Init, QueueInit, NotStarted, Unused
<1> QED BY <1>1, TypeInvInit, TypeInvStep, NotStartedStep, PTL DEF Spec

\* Type correctness (TypeOK): the manager's unsigned arithmetic, the iterator
\* over the list of threads and the hand-over of requests keep their ranges.
THEOREM PoolTypeCorrect == Spec => []TypeOK
<1>1. TypeInv => TypeOK
  BY DEF TypeInv
<1> QED BY <1>1, PoolTypeInv, PTL
-----------------------------------------------------------------------------
\* Who changes the deque: a request thread at the back, the manager with a
\* pill at the front, a worker that pops.
LEMMA QueueChanges ==
    ASSUME Next
    PROVE  \/ UNCHANGED mQueue
           \/ \E c \in Clients, r \in Requests : PushBegin(c, r)
           \/ PushFrontBegin(Manager, Poison)
           \/ \E w \in Workers : PopBegin(w)
<1>1. CASE Main
  BY <1>1 DEF Main, Start, StartWorker, StartManager, StopPool, StopQueueFlag, JoinManager,
     SetDropSize, StopQueue, queueVars
<1>2. CASE Manage
  BY <1>2
  DEF Manage, ReadLoad, JoinWorker, JoinTimesOut, CollectDone, Grow, Shrink, Keep, PushPill,
      UnlockPill, NotifyPill, SkipStats, StartStats, ReadCounters, ReadProviders, LeaveLoop,
      PoisonAll, CollectLast, PushEnd, NotifyOne, GetCounters, GetCountersRead,
      GetCountersReset, queueVars
<1>3. ASSUME NEW c \in Clients, Client(c)
      PROVE  UNCHANGED mQueue \/ \E r \in Requests : PushBegin(c, r)
  BY <1>3 DEF Client, ClientPush, ClientUnlock, ClientNotify, PushEnd, NotifyOne
<1>4. ASSUME NEW w \in Workers, Worker(w) \/ EndCurl(w) \/ WorkerWakeup(w)
      PROVE  UNCHANGED mQueue \/ PopBegin(w)
  BY <1>4
  DEF Worker, InitCurl, WorkerPop, WorkerWait, ReceivePill, ReceiveRequest, StartCurl,
      FinishRequest, EndCurl, WorkerWakeup, PopWait, PopEnd, SpuriousWakeup, queueVars
<1>5. CASE Terminated
  BY <1>5 DEF Terminated, vars, queueVars
<1> QED BY <1>1, <1>2, <1>3, <1>4, <1>5 DEF Next

LEMMA PillsFirstStep == TypeOK /\ PillsFirst /\ [Next]_vars => PillsFirst'
<1> SUFFICES ASSUME TypeOK, PillsFirst, [Next]_vars PROVE PillsFirst'
  OBVIOUS
<1>1. mQueue \in Seq(Items) /\ Len(mQueue) \in Nat /\ mDropSize \in Nat
  BY DEF TypeOK, QueueTypeOK
<1>2. \A j \in 1 .. Len(mQueue) :
        mQueue[j] = Poison => \A i \in 1 .. j : mQueue[i] = Poison
  BY <1>1 DEF PillsFirst
<1>3. ASSUME UNCHANGED mQueue PROVE PillsFirst'
  BY <1>3 DEF PillsFirst
<1>4. ASSUME NEW c \in Clients, NEW r \in Requests, PushBegin(c, r) PROVE PillsFirst'
  <2>1. CASE mQueue' = mQueue
    BY <1>3, <2>1
  <2>2. CASE mQueue' = Append(mQueue, r)
    BY <1>1, <1>2, <2>2, ItemsAssumption DEF PillsFirst
  <2> QED BY <1>4, <2>1, <2>2 DEF PushBegin, PushAccepts, PushDrops
<1>5. ASSUME PushFrontBegin(Manager, Poison) PROVE PillsFirst'
  <2>1. ASSUME NEW q \in Seq(Items), mQueue' = <<Poison>> \o q, Len(q) <= Len(mQueue),
               \A k \in 1 .. Len(q) : q[k] = mQueue[k]
        PROVE  PillsFirst'
    <3>1. /\ Len(mQueue') = Len(q) + 1 /\ Len(q) \in Nat /\ mQueue' \in Seq(Items)
          /\ \A k \in 1 .. Len(q) + 1 : mQueue'[k] = IF k = 1 THEN Poison ELSE q[k - 1]
      BY <2>1, ConsProperties, ItemsAssumption
    <3>2. SUFFICES ASSUME NEW j \in 1 .. Len(q) + 1, mQueue'[j] = Poison, NEW i \in 1 .. j
                   PROVE  mQueue'[i] = Poison
      BY <3>1 DEF PillsFirst
    <3>3. CASE i = 1
      BY <3>1, <3>3
    <3>4. CASE i > 1
      <4>1. /\ j - 1 \in 1 .. Len(q) /\ i - 1 \in 1 .. j - 1
            /\ i \in 1 .. Len(q) + 1 /\ j \in 1 .. Len(q) + 1
        BY <3>1, <3>4
      <4>2. \A k \in 1 .. Len(q) : q[k] = mQueue[k] /\ k \in 1 .. Len(mQueue)
        BY <1>1, <2>1, <3>1
      <4>3. mQueue'[j] = q[j - 1] /\ mQueue'[i] = q[i - 1]
        BY <3>1, <3>4, <4>1
      <4>4. i - 1 \in 1 .. Len(q)
        BY <3>1, <4>1
      <4>5. mQueue[j - 1] = Poison /\ j - 1 \in 1 .. Len(mQueue)
        BY <3>2, <4>1, <4>2, <4>3
      <4>6. mQueue[i - 1] = Poison
        BY <1>2, <4>1, <4>5
      <4> QED BY <4>2, <4>3, <4>4, <4>6
    <3> QED BY <3>3, <3>4
  <2>2. CASE PushFrontEvicts(Poison)
    <3>1. Len(mQueue) > 0
      BY <1>1, <2>2 DEF PushFrontEvicts, Full
    <3> DEFINE q == SubSeq(mQueue, 1, Len(mQueue) - 1)
    <3>2. q \in Seq(Items) /\ Len(q) <= Len(mQueue) /\ \A k \in 1 .. Len(q) : q[k] = mQueue[k]
      BY <1>1, <3>1, FrontProperties
    <3>3. mQueue' = <<Poison>> \o q
      BY <2>2 DEF PushFrontEvicts
    <3> HIDE DEF q
    <3> QED BY <2>1, <3>2, <3>3
  <2>3. CASE PushFrontFits(Poison)
    BY <1>1, <2>1, <2>3 DEF PushFrontFits
  <2> QED BY <1>5, <2>2, <2>3 DEF PushFrontBegin
<1>6. ASSUME NEW w \in Workers, PopBegin(w) PROVE PillsFirst'
  <2>1. mQueue' = Tail(mQueue) /\ mQueue # <<>>
    BY <1>6 DEF PopBegin
  <2>2. /\ Len(mQueue') = Len(mQueue) - 1 /\ mQueue' \in Seq(Items)
        /\ \A k \in 1 .. Len(mQueue) - 1 : mQueue'[k] = mQueue[k + 1]
    BY <1>1, <2>1
  <2>3. SUFFICES ASSUME NEW j \in 1 .. Len(mQueue) - 1, mQueue'[j] = Poison, NEW i \in 1 .. j
                 PROVE  mQueue'[i] = Poison
    BY <2>2 DEF PillsFirst
  <2>4. mQueue[j + 1] = Poison /\ i + 1 \in 1 .. j + 1 /\ j + 1 \in 1 .. Len(mQueue)
    BY <1>1, <2>2, <2>3
  <2> QED BY <1>1, <1>2, <2>2, <2>4
<1>7. CASE UNCHANGED vars
  BY <1>3, <1>7 DEF vars, queueVars
<1> QED BY <1>3, <1>4, <1>5, <1>6, <1>7, QueueChanges

\* Pills overtake requests (PillsFirst): a pill is never queued behind a
\* request, so the next thread to pop receives it.
THEOREM PillsComeFirst == Spec => []PillsFirst
<1>1. Init => PillsFirst
  BY DEF Init, QueueInit, PillsFirst
<1> QED BY <1>1, PillsFirstStep, PoolTypeCorrect, PTL DEF Spec
-----------------------------------------------------------------------------
\* A worker is inside a call of the queue only from the head of its loop.
WorkerCalls == \A w \in Workers : qpc[w] # "out" => wpc[w] = "idle"

LEMMA WorkerCallsStep == TypeOK /\ WorkerCalls /\ [Next]_vars => WorkerCalls'
<1> SUFFICES ASSUME TypeOK, WorkerCalls, [Next]_vars PROVE WorkerCalls'
  OBVIOUS
<1> USE DEF WorkerCalls
<1>1. /\ qpc \in [Threads -> QueueStates] /\ wpc \in [Workers -> WorkerStates]
      /\ Workers \subseteq Threads /\ Clients \subseteq Threads /\ Manager \in Threads
      /\ Workers \cap Clients = {} /\ Manager \notin Workers
  BY RolesAssumption DEF TypeOK, QueueTypeOK
<1>2. ASSUME newThread, UNCHANGED qpc PROVE WorkerCalls'
  BY <1>1, <1>2 DEF newThread
<1>3. ASSUME NEW t \in Clients \cup {Manager}, UNCHANGED wpc,
             \/ NotifyOne(t) \/ PushEnd(t)
             \/ \E i \in Items : PushBegin(t, i) \/ PushFrontBegin(t, i)
      PROVE  WorkerCalls'
  <2>1. CASE NotifyOne(t)
    BY <1>1, <1>3, <2>1 DEF NotifyOne, Waiting
  <2>2. CASE \/ PushEnd(t)
             \/ \E i \in Items : PushBegin(t, i) \/ PushFrontBegin(t, i)
    BY <1>1, <1>3, <2>2 DEF PushEnd, PushBegin, PushFrontBegin, Enter, Leave
  <2> QED BY <1>3, <2>1, <2>2
<1>4. ASSUME UNCHANGED <<qpc, wpc>> PROVE WorkerCalls'
  BY <1>4
<1>5. CASE Main
  BY <1>2, <1>4, <1>5
  DEF Main, Start, StartWorker, StartManager, StopPool, StopQueueFlag, JoinManager,
      SetDropSize, StopQueue, queueVars
<1>6. CASE JoinWorker
  BY <1>1, <1>6 DEF JoinWorker, queueVars
<1>7. CASE Manage /\ ~JoinWorker
  <2>1. CASE Grow
    BY <1>2, <2>1 DEF Grow, queueVars
  <2>2. CASE Shrink \/ PoisonAll \/ UnlockPill \/ NotifyPill
    BY <1>3, <2>2, ItemsAssumption DEF Shrink, PoisonAll, PushPill, UnlockPill, NotifyPill
  <2> QED BY <1>4, <1>7, <2>1, <2>2
    DEF Manage, ReadLoad, JoinTimesOut, CollectDone, Keep, SkipStats, StartStats,
        ReadCounters, ReadProviders, LeaveLoop, CollectLast, GetCounters, GetCountersRead,
        GetCountersReset, queueVars
<1>8. ASSUME NEW c \in Clients, Client(c) PROVE WorkerCalls'
  BY <1>3, <1>8, ItemsAssumption DEF Client, ClientPush, ClientUnlock, ClientNotify
<1>9. ASSUME NEW w \in Workers, WorkerPop(w) \/ WorkerWait(w) \/ WorkerWakeup(w)
      PROVE  WorkerCalls'
  BY <1>1, <1>9
  DEF WorkerPop, WorkerWait, WorkerWakeup, PopBegin, PopWait, SpuriousWakeup, Enter
<1>10. ASSUME NEW w \in Workers, ReceivePill(w) \/ ReceiveRequest(w) PROVE WorkerCalls'
  BY <1>1, <1>10 DEF ReceivePill, ReceiveRequest, PopEnd, Leave
<1>11. ASSUME NEW w \in Workers,
              InitCurl(w) \/ StartCurl(w) \/ EndCurl(w) \/ FinishRequest(w)
       PROVE  WorkerCalls'
  BY <1>1, <1>11 DEF InitCurl, StartCurl, EndCurl, FinishRequest, queueVars
<1>12. CASE Terminated \/ UNCHANGED vars
  BY <1>4, <1>12 DEF Terminated, vars, queueVars
<1> QED
  BY <1>5, <1>6, <1>7, <1>8, <1>9, <1>10, <1>11, <1>12 DEF Next, Worker

\* The list of threads: spawning appends a thread that was not in it, joining
\* erases the thread joined, and no other step moves a thread in or out.
LEMMA ThreadsListedStep ==
    TypeOK /\ WorkerCalls /\ ThreadsListed /\ [Next]_vars => ThreadsListed'
<1> SUFFICES ASSUME TypeOK, WorkerCalls, ThreadsListed, [Next]_vars PROVE ThreadsListed'
  OBVIOUS
<1>1. /\ mThreads \in Seq(Workers) /\ Len(mThreads) \in Nat
      /\ wpc \in [Workers -> WorkerStates] /\ it \in Nat \ {0} /\ mMaxThreads \in Nat
  BY PoolAssumption DEF TypeOK
<1>2. /\ Len(mThreads) <= mMaxThreads
      /\ \A w \in Workers : wpc[w] # "none" <=> \E k \in 1 .. Len(mThreads) : mThreads[k] = w
      /\ \A j, k \in 1 .. Len(mThreads) : mThreads[j] = mThreads[k] => j = k
  BY <1>1 DEF ThreadsListed
<1>3. ASSUME newThread, Len(mThreads) < mMaxThreads PROVE ThreadsListed'
  <2>1. PICK w \in Workers : /\ wpc[w] = "none"
                             /\ wpc' = [wpc EXCEPT ![w] = "init"]
                             /\ mThreads' = Append(mThreads, w)
    BY <1>3 DEF newThread
  <2>2. /\ Len(mThreads') = Len(mThreads) + 1 /\ mThreads' \in Seq(Workers)
        /\ \A k \in 1 .. Len(mThreads) : mThreads'[k] = mThreads[k]
        /\ mThreads'[Len(mThreads) + 1] = w
    BY <1>1, <2>1
  <2>3. \A k \in 1 .. Len(mThreads) : mThreads[k] # w
    BY <1>2, <2>1
  <2>4. \A v \in Workers :
          wpc'[v] # "none" <=> \E k \in 1 .. Len(mThreads) + 1 : mThreads'[k] = v
    <3> SUFFICES ASSUME NEW v \in Workers
                 PROVE wpc'[v] # "none" <=> \E k \in 1 .. Len(mThreads) + 1 : mThreads'[k] = v
      OBVIOUS
    <3>1. CASE v = w
      <4>1. Len(mThreads) + 1 \in 1 .. Len(mThreads) + 1
        BY <1>1
      <4> QED BY <1>1, <2>1, <2>2, <3>1, <4>1
    <3>2. CASE v # w
      <4>1. wpc'[v] = wpc[v]
        BY <1>1, <2>1, <3>2
      <4>2. ASSUME NEW k \in 1 .. Len(mThreads) + 1, mThreads'[k] = v
            PROVE  k \in 1 .. Len(mThreads)
        BY <1>1, <2>2, <3>2, <4>2
      <4>3. \A k \in 1 .. Len(mThreads) : k \in 1 .. Len(mThreads) + 1
        BY <1>1
      <4> QED BY <1>2, <2>2, <4>1, <4>2, <4>3
    <3> QED BY <3>1, <3>2
  <2>5. \A j, k \in 1 .. Len(mThreads) + 1 : mThreads'[j] = mThreads'[k] => j = k
    <3>1. \A k \in 1 .. Len(mThreads) + 1 : k \in 1 .. Len(mThreads) \/ k = Len(mThreads) + 1
      BY <1>1
    <3> QED BY <1>2, <2>2, <2>3, <3>1
  <2>6. DOMAIN mThreads' = 1 .. Len(mThreads) + 1 /\ Len(mThreads') <= mMaxThreads
    BY <1>1, <1>3, <2>2
  <2> QED BY <2>4, <2>5, <2>6 DEF ThreadsListed
<1>4. ASSUME UNCHANGED mThreads,
             \A w \in Workers : wpc'[w] = "none" <=> wpc[w] = "none"
      PROVE  ThreadsListed'
  BY <1>4 DEF ThreadsListed
<1>5. CASE JoinWorker
  <2>1. it \in 1 .. Len(mThreads)
    BY <1>1, <1>5 DEF JoinWorker, Collecting
  <2> DEFINE n == Len(mThreads) - 1
  <2>2. /\ mThreads' \in Seq(Workers) /\ Len(mThreads') = n
        /\ \A k \in 1 .. n : mThreads'[k] = IF k < it THEN mThreads[k] ELSE mThreads[k + 1]
    BY <1>1, <1>5, <2>1, RemoveAtProperties DEF JoinWorker
  <2>3. wpc' = [wpc EXCEPT ![mThreads[it]] = "none"] /\ mThreads[it] \in Workers
    BY <1>1, <1>5, <2>1 DEF JoinWorker
  <2>4. ASSUME NEW v \in Workers
        PROVE  wpc'[v] # "none" <=> \E k \in 1 .. n : mThreads'[k] = v
    <3>1. ASSUME NEW k \in 1 .. n, mThreads'[k] = v PROVE wpc'[v] # "none"
      <4>1. PICK j \in 1 .. Len(mThreads) : j # it /\ mThreads[j] = v
        <5>1. CASE k < it
          BY <1>1, <2>1, <2>2, <3>1, <5>1
        <5>2. CASE k >= it
          <6>1. k + 1 \in 1 .. Len(mThreads) /\ k + 1 # it
            BY <1>1, <2>1, <5>2
          <6> QED BY <1>1, <2>1, <2>2, <3>1, <5>2, <6>1
        <5> QED BY <1>1, <2>1, <5>1, <5>2
      <4>2. v # mThreads[it] /\ wpc[v] # "none"
        BY <1>2, <2>1, <4>1
      <4> QED BY <1>1, <2>3, <4>2
    <3>2. ASSUME wpc'[v] # "none" PROVE \E k \in 1 .. n : mThreads'[k] = v
      <4>1. v # mThreads[it] /\ wpc[v] # "none"
        BY <1>1, <2>3, <3>2
      <4>2. PICK j \in 1 .. Len(mThreads) : mThreads[j] = v
        BY <1>2, <4>1
      <4>3. CASE j < it
        <5>1. j \in 1 .. n
          BY <1>1, <2>1, <4>3
        <5> QED BY <2>2, <4>2, <4>3, <5>1
      <4>4. CASE j > it
        <5>1. j - 1 \in 1 .. n /\ ~(j - 1 < it) /\ (j - 1) + 1 = j
          BY <1>1, <2>1, <4>4
        <5>2. mThreads'[j - 1] = v
          BY <2>2, <4>2, <5>1
        <5> QED BY <5>1, <5>2
      <4>5. j # it
        BY <4>1, <4>2
      <4> QED BY <1>1, <4>3, <4>4, <4>5
    <3> QED BY <3>1, <3>2
  <2>5. ASSUME NEW j \in 1 .. n, NEW k \in 1 .. n, mThreads'[j] = mThreads'[k] PROVE j = k
    <3> DEFINE Old(x) == IF x < it THEN x ELSE x + 1
    <3>1. \A x \in 1 .. n : Old(x) \in 1 .. Len(mThreads) /\ mThreads'[x] = mThreads[Old(x)]
      BY <1>1, <2>1, <2>2
    <3>2. Old(j) = Old(k)
      <4>1. /\ Old(j) \in 1 .. Len(mThreads) /\ Old(k) \in 1 .. Len(mThreads)
            /\ mThreads[Old(j)] = mThreads[Old(k)]
        BY <2>5, <3>1
      <4> HIDE DEF Old
      <4> QED BY <1>2, <4>1
    <3> QED BY <1>1, <2>1, <3>2
  <2>6. DOMAIN mThreads' = 1 .. n /\ Len(mThreads') <= mMaxThreads
    BY <1>1, <1>2, <2>2
  <2> HIDE DEF n
  <2> QED BY <2>4, <2>5, <2>6 DEF ThreadsListed
<1>6. CASE StartWorker
  BY <1>1, <1>3, <1>6, PoolAssumption DEF StartWorker
<1>7. CASE Grow
  BY <1>3, <1>7 DEF Grow, ShouldGrow
<1>8. CASE Main /\ ~StartWorker
  BY <1>4, <1>8 DEF Main, Start, StartManager, StopPool, StopQueueFlag, JoinManager
<1>9. CASE Manage /\ ~JoinWorker /\ ~Grow
  BY <1>4, <1>9
  DEF Manage, ReadLoad, JoinTimesOut, CollectDone, Shrink, Keep, UnlockPill, NotifyPill,
      SkipStats, StartStats, ReadCounters, ReadProviders, LeaveLoop, PoisonAll, CollectLast
<1>10. ASSUME NEW c \in Clients, Client(c) PROVE ThreadsListed'
  BY <1>4, <1>10 DEF Client, ClientPush, ClientUnlock, ClientNotify
<1>11. ASSUME NEW w \in Workers, Worker(w) \/ EndCurl(w) \/ WorkerWakeup(w)
       PROVE  ThreadsListed'
  <2>1. CASE ReceivePill(w) \/ ReceiveRequest(w)
    <3>1. wpc[w] = "idle"
      BY <2>1 DEF ReceivePill, ReceiveRequest, PopEnd, WorkerCalls
    <3> QED BY <1>1, <1>4, <2>1, <3>1 DEF ReceivePill, ReceiveRequest
  <2>2. CASE InitCurl(w) \/ StartCurl(w) \/ EndCurl(w) \/ FinishRequest(w)
    BY <1>1, <1>4, <2>2 DEF InitCurl, StartCurl, EndCurl, FinishRequest
  <2>3. CASE WorkerPop(w) \/ WorkerWait(w) \/ WorkerWakeup(w)
    BY <1>4, <2>3 DEF WorkerPop, WorkerWait, WorkerWakeup
  <2> QED BY <1>11, <2>1, <2>2, <2>3 DEF Worker
<1>12. CASE Terminated \/ UNCHANGED vars
  BY <1>4, <1>12 DEF Terminated, vars
<1> QED BY <1>5, <1>6, <1>7, <1>8, <1>9, <1>10, <1>11, <1>12 DEF Next

\* The list of threads is exact and never longer than mMaxThreads
\* (ThreadsListed): collectKilled() erases the thread it joined and no other.
THEOREM ThreadListCorrect == Spec => []ThreadsListed
<1>1. Init => ThreadsListed /\ WorkerCalls
  <2>1. Workers \subseteq Threads
    BY RolesAssumption
  <2> QED BY <2>1, PoolAssumption DEF Init, QueueInit, ThreadsListed, WorkerCalls
<1> QED
  BY <1>1, WorkerCallsStep, ThreadsListedStep, PoolTypeCorrect, PTL DEF Spec
=============================================================================
