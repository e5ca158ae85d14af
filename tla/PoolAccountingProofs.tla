------------------------ MODULE PoolAccountingProofs ------------------------
(***************************************************************************)
(* What the pool counts: the pills against mBeingKilled and the threads    *)
(* they end, and the requests against the places they can be in. For any   *)
(* number of workers, request threads and requests and any thread and      *)
(* queue limits the configuration accepts.                                 *)
(***************************************************************************)
EXTENDS ThreadPoolProofs

USE DEF poolVars, managerVars, workerVars, statVars

\* In a queue with its pills first, PillsIn is where the requests begin.
PillsLead(q) ==
    \A j \in 1 .. Len(q) : q[j] = Poison => \A i \in 1 .. j : q[i] = Poison

LEMMA PillCountUnique ==
    ASSUME NEW q \in Seq(Items), NEW n \in 0 .. Len(q),
           \A k \in 1 .. Len(q) : q[k] = Poison <=> k <= n
    PROVE  PillsIn(q) = n
<1>1. Len(q) \in Nat /\ DOMAIN q = 1 .. Len(q)
  OBVIOUS
<1>2. {k \in DOMAIN q : q[k] = Poison} = 1 .. n
  BY <1>1
<1>3. Cardinality(1 .. n) = n
  BY <1>1, FS_Interval
<1> QED BY <1>2, <1>3 DEF PillsIn

LEMMA PillCount ==
    ASSUME NEW q \in Seq(Items), PillsLead(q)
    PROVE  /\ PillsIn(q) \in 0 .. Len(q)
           /\ \A k \in 1 .. Len(q) : q[k] = Poison <=> k <= PillsIn(q)
<1> DEFINE P == {k \in DOMAIN q : q[k] = Poison}
           n == Cardinality(P)
<1>1. Len(q) \in Nat /\ DOMAIN q = 1 .. Len(q)
  OBVIOUS
<1>2. IsFiniteSet(1 .. Len(q)) /\ Cardinality(1 .. Len(q)) = Len(q)
  BY <1>1, FS_Interval
<1>3. P \in SUBSET (1 .. Len(q))
  BY <1>1
<1>4. IsFiniteSet(P) /\ n \in Nat /\ n <= Len(q)
  BY <1>2, <1>3, FS_Subset, FS_CardinalityType
<1>5. ASSUME NEW k \in P PROVE k <= n
  <2>1. 1 .. k \in SUBSET P
    BY <1>1, <1>3 DEF PillsLead
  <2>2. k \in Nat /\ k >= 1
    BY <1>1, <1>3
  <2>3. Cardinality(1 .. k) = k
    BY <2>2, FS_Interval
  <2> HIDE DEF P
  <2>4. Cardinality(1 .. k) <= Cardinality(P)
    BY <1>4, <2>1, FS_Subset
  <2> QED BY <2>3, <2>4
<1>6. P \in SUBSET (1 .. n)
  <2> HIDE DEF n
  <2> QED BY <1>1, <1>4, <1>5
<1>7. IsFiniteSet(1 .. n) /\ Cardinality(1 .. n) = n
  BY <1>4, FS_Interval
<1>8. P = 1 .. n
  <2> HIDE DEF P
  <2> QED BY <1>6, <1>7, FS_Subset
<1>9. PillsIn(q) = n
  BY DEF PillsIn
<1> HIDE DEF n
<1>10. \A k \in 1 .. Len(q) : q[k] = Poison <=> k \in 1 .. n
  BY <1>1, <1>8
<1> QED BY <1>1, <1>4, <1>9, <1>10

LEMMA PillsInNat ==
    ASSUME NEW q \in Seq(Items)
    PROVE  PillsIn(q) \in Nat
<1>1. Len(q) \in Nat /\ {k \in DOMAIN q : q[k] = Poison} \in SUBSET (1 .. Len(q))
  OBVIOUS
<1>2. IsFiniteSet(1 .. Len(q))
  BY <1>1, FS_Interval
<1> QED BY <1>1, <1>2, FS_Subset, FS_CardinalityType DEF PillsIn

LEMMA PillsLeadQueue ==
    ASSUME TypeOK, PillsFirst
    PROVE  /\ mQueue \in Seq(Items) /\ Len(mQueue) \in Nat
           /\ PillsLead(mQueue)
           /\ PillsIn(mQueue) \in 0 .. Len(mQueue)
           /\ \A k \in 1 .. Len(mQueue) : mQueue[k] = Poison <=> k <= PillsIn(mQueue)
<1>1. mQueue \in Seq(Items) /\ Len(mQueue) \in Nat
  BY DEF TypeOK, QueueTypeOK
<1>2. PillsLead(mQueue)
  BY <1>1 DEF PillsFirst, PillsLead
<1> QED BY <1>1, <1>2, PillCount

\* What the three steps that change the deque do to the number of pills.
LEMMA PillsAfterPush ==
    ASSUME TypeOK, PillsFirst, NEW c \in Clients, NEW r \in Requests, PushBegin(c, r)
    PROVE  PillsIn(mQueue') = PillsIn(mQueue)
<1>1. CASE mQueue' = mQueue
  BY <1>1
<1>2. CASE mQueue' = Append(mQueue, r)
  <2> DEFINE n == PillsIn(mQueue)
  <2>1. /\ mQueue \in Seq(Items) /\ Len(mQueue) \in Nat /\ n \in 0 .. Len(mQueue)
        /\ \A k \in 1 .. Len(mQueue) : mQueue[k] = Poison <=> k <= n
    BY PillsLeadQueue
  <2> HIDE DEF n
  <2>2. mQueue' \in Seq(Items) /\ Len(mQueue') = Len(mQueue) + 1
    BY <1>2, <2>1, ItemsAssumption
  <2>3. /\ \A k \in 1 .. Len(mQueue) : mQueue'[k] = mQueue[k]
        /\ mQueue'[Len(mQueue) + 1] = r /\ r # Poison
    BY <1>2, <2>1, ItemsAssumption
  <2>4. \A k \in 1 .. Len(mQueue') : mQueue'[k] = Poison <=> k <= n
    BY <2>1, <2>2, <2>3
  <2>5. PillsIn(mQueue') = n
    BY <2>1, <2>2, <2>4, PillCountUnique
  <2> QED BY <2>5 DEF n
<1> QED BY <1>1, <1>2 DEF PushBegin, PushAccepts, PushDrops

LEMMA PillsAfterPill ==
    ASSUME TypeOK, PillsFirst, PushFrontBegin(Manager, Poison)
    PROVE  IF Full /\ PillsIn(mQueue) = Len(mQueue)
           THEN PillsIn(mQueue') = PillsIn(mQueue)
           ELSE PillsIn(mQueue') = PillsIn(mQueue) + 1
<1> DEFINE n == PillsIn(mQueue)
<1>1. /\ mQueue \in Seq(Items) /\ Len(mQueue) \in Nat /\ n \in 0 .. Len(mQueue)
      /\ \A k \in 1 .. Len(mQueue) : mQueue[k] = Poison <=> k <= n
      /\ mDropSize \in Nat
  BY PillsLeadQueue DEF TypeOK, QueueTypeOK
<1> HIDE DEF n
<1>2. ASSUME NEW q \in Seq(Items), mQueue' = <<Poison>> \o q, Len(q) <= Len(mQueue),
             \A k \in 1 .. Len(q) : q[k] = mQueue[k]
      PROVE  /\ n <= Len(q) => PillsIn(mQueue') = n + 1
             /\ n > Len(q) => PillsIn(mQueue') = Len(q) + 1
  <2>1. /\ Len(mQueue') = Len(q) + 1 /\ Len(q) \in Nat /\ mQueue' \in Seq(Items)
        /\ \A k \in 1 .. Len(q) + 1 : mQueue'[k] = IF k = 1 THEN Poison ELSE q[k - 1]
    BY <1>2, ConsProperties, ItemsAssumption
  <2> DEFINE m == IF n <= Len(q) THEN n + 1 ELSE Len(q) + 1
  <2>2. m \in 0 .. Len(mQueue')
    BY <1>1, <2>1
  <2>3. ASSUME NEW k \in 1 .. Len(q) + 1 PROVE mQueue'[k] = Poison <=> k <= m
    <3>1. CASE k = 1
      BY <1>1, <2>1, <3>1
    <3>2. CASE k > 1
      <4>1. k - 1 \in 1 .. Len(q) /\ k - 1 \in 1 .. Len(mQueue)
        BY <1>1, <1>2, <2>1, <3>2
      <4>2. mQueue'[k] = mQueue[k - 1]
        BY <1>2, <2>1, <3>2, <4>1
      <4>3. mQueue'[k] = Poison <=> k - 1 <= n
        BY <1>1, <4>1, <4>2
      <4> QED BY <1>1, <2>1, <4>1, <4>3
    <3> QED BY <2>1, <3>1, <3>2
  <2> HIDE DEF m
  <2>4. PillsIn(mQueue') = m
    BY <2>1, <2>2, <2>3, PillCountUnique
  <2> QED BY <1>1, <2>1, <2>4 DEF m
<1>3. CASE PushFrontEvicts(Poison)
  <2>1. Full /\ Len(mQueue) > 0
    BY <1>1, <1>3 DEF PushFrontEvicts, Full
  <2> DEFINE q == SubSeq(mQueue, 1, Len(mQueue) - 1)
  <2>2. /\ q \in Seq(Items) /\ Len(q) = Len(mQueue) - 1 /\ Len(q) <= Len(mQueue)
        /\ \A k \in 1 .. Len(q) : q[k] = mQueue[k]
    BY <1>1, <2>1, FrontProperties
  <2>3. mQueue' = <<Poison>> \o q
    BY <1>3 DEF PushFrontEvicts
  <2> HIDE DEF q
  <2>4. /\ n <= Len(q) => PillsIn(mQueue') = n + 1
        /\ n > Len(q) => PillsIn(mQueue') = Len(q) + 1
    BY <1>2, <2>2, <2>3
  <2> QED BY <1>1, <2>1, <2>2, <2>4 DEF n
<1>4. CASE PushFrontFits(Poison)
  <2>1. PillsIn(mQueue') = n + 1 /\ ~Full
    BY <1>1, <1>2, <1>4 DEF PushFrontFits
  <2> QED BY <2>1 DEF n
<1> QED BY <1>3, <1>4 DEF PushFrontBegin

LEMMA PillsAfterPop ==
    ASSUME TypeOK, PillsFirst, NEW w \in Workers, PopBegin(w)
    PROVE  /\ Head(mQueue) \in Items
           /\ Head(mQueue) = Poison <=> PillsIn(mQueue) > 0
           /\ PillsIn(mQueue') = IF Head(mQueue) = Poison THEN PillsIn(mQueue) - 1 ELSE 0
<1> DEFINE n == PillsIn(mQueue)
<1>1. /\ mQueue \in Seq(Items) /\ Len(mQueue) \in Nat /\ n \in 0 .. Len(mQueue)
      /\ \A k \in 1 .. Len(mQueue) : mQueue[k] = Poison <=> k <= n
  BY PillsLeadQueue
<1> HIDE DEF n
<1>2. mQueue' = Tail(mQueue) /\ mQueue # <<>> /\ Len(mQueue) >= 1
  BY <1>1 DEF PopBegin
<1>3. /\ Len(mQueue') = Len(mQueue) - 1 /\ mQueue' \in Seq(Items)
      /\ \A k \in 1 .. Len(mQueue) - 1 : mQueue'[k] = mQueue[k + 1]
  BY <1>1, <1>2
<1>4. Head(mQueue) = mQueue[1] /\ Head(mQueue) \in Items
  BY <1>1, <1>2
<1>5. Head(mQueue) = Poison <=> n > 0
  BY <1>1, <1>2, <1>4
<1> DEFINE m == IF n > 0 THEN n - 1 ELSE 0
<1>6. m \in 0 .. Len(mQueue')
  BY <1>1, <1>2, <1>3
<1>7. \A k \in 1 .. Len(mQueue') : mQueue'[k] = Poison <=> k <= m
  <2> SUFFICES ASSUME NEW k \in 1 .. Len(mQueue') PROVE mQueue'[k] = Poison <=> k <= m
    OBVIOUS
  <2>1. k + 1 \in 1 .. Len(mQueue) /\ mQueue'[k] = mQueue[k + 1]
    BY <1>1, <1>3
  <2>2. mQueue'[k] = Poison <=> k + 1 <= n
    BY <1>1, <2>1
  <2> QED BY <1>1, <2>1, <2>2
<1> HIDE DEF m
<1>8. PillsIn(mQueue') = m
  BY <1>3, <1>6, <1>7, PillCountUnique
<1> QED BY <1>1, <1>4, <1>5, <1>8 DEF m, n
-----------------------------------------------------------------------------
\* Only a thread that is leaving pop() has an object in hand.
EmptyHands == \A t \in Threads : qpc[t] # "popping" => lObject[t] = NoItem

LEMMA EmptyHandsStep ==
    QueueTypeOK /\ EmptyHands /\ [QueueNext]_queueVars => EmptyHands'
<1> SUFFICES ASSUME QueueTypeOK, EmptyHands, [QueueNext]_queueVars PROVE EmptyHands'
  OBVIOUS
<1> USE DEF EmptyHands
<1>1. qpc \in [Threads -> QueueStates] /\ lObject \in [Threads -> Items \cup {NoItem}]
  BY DEF QueueTypeOK
<1>2. ASSUME NEW t \in Threads, PopBegin(t) PROVE EmptyHands'
  BY <1>1, <1>2 DEF PopBegin, Enter
<1>3. ASSUME NEW t \in Threads, PopEnd(t) PROVE EmptyHands'
  BY <1>1, <1>3 DEF PopEnd, Leave
<1>4. ASSUME NEW t \in Threads, NotifyOne(t) PROVE EmptyHands'
  BY <1>1, <1>4 DEF NotifyOne, Waiting
<1>5. ASSUME NEW t \in Threads,
             \/ \E i \in Items : PushBegin(t, i) \/ PushFrontBegin(t, i)
             \/ PushEnd(t) \/ PopWait(t) \/ SpuriousWakeup(t)
      PROVE  EmptyHands'
  BY <1>1, <1>5 DEF PushBegin, PushFrontBegin, PushEnd, PopWait, SpuriousWakeup, Enter, Leave
<1>6. ASSUME UNCHANGED <<qpc, lObject>> PROVE EmptyHands'
  BY <1>6
<1> QED
  BY <1>2, <1>3, <1>4, <1>5, <1>6
  DEF QueueNext, SetDropSize, StopQueue, GetCounters, GetCountersRead, GetCountersReset,
      queueVars

\* A worker has a request exactly while it is inside runOne.
AtWork == \A w \in Workers : IF wpc[w] \in {"work", "curl"} THEN current[w] \in Requests
                                                            ELSE current[w] = NoItem

\* start() has set the drop size before there is a worker or a manager, and
\* the manager has pushed no pill before it runs.
Started ==
    /\ mDropSize = IF spc = "constructed" THEN 0 ELSE mMaxQueued * mMaxThreads
    /\ spc \in {"constructed", "starting"} <=> mpc = "none"
    /\ mpc = "none" => mBeingKilled = 0
    /\ mpc \in {"collectLast", "finished"} => left = 0

LEMMA AtWorkStep ==
    TypeInv /\ WorkerCalls /\ AtWork /\ [Next]_vars => AtWork'
<1> SUFFICES ASSUME TypeInv, WorkerCalls, AtWork, [Next]_vars PROVE AtWork'
  OBVIOUS
<1> USE DEF AtWork
<1>1. /\ wpc \in [Workers -> WorkerStates] /\ current \in [Workers -> Requests \cup {NoItem}]
      /\ lObject \in [Threads -> Items \cup {NoItem}] /\ mThreads \in Seq(Workers)
      /\ it \in Nat \ {0}
  BY DEF TypeInv, TypeOK, QueueTypeOK
<1>2. ASSUME newThread, UNCHANGED current PROVE AtWork'
  BY <1>1, <1>2 DEF newThread
<1>3. ASSUME UNCHANGED <<wpc, current>> PROVE AtWork'
  BY <1>3
<1>4. CASE Main
  BY <1>2, <1>3, <1>4
  DEF Main, Start, StartWorker, StartManager, StopPool, StopQueueFlag, JoinManager
<1>5. CASE JoinWorker
  <2>1. mThreads[it] \in Workers
    BY <1>1, <1>5 DEF JoinWorker, Collecting
  <2> QED BY <1>1, <1>5, <2>1 DEF JoinWorker
<1>6. CASE Manage /\ ~JoinWorker
  BY <1>2, <1>3, <1>6
  DEF Manage, ReadLoad, JoinTimesOut, CollectDone, Grow, Shrink, Keep, UnlockPill,
      NotifyPill, SkipStats, StartStats, ReadCounters, ReadProviders, LeaveLoop, PoisonAll,
      CollectLast
<1>7. ASSUME NEW c \in Clients, Client(c) PROVE AtWork'
  BY <1>3, <1>7 DEF Client, ClientPush, ClientUnlock, ClientNotify
<1>8. ASSUME NEW w \in Workers, WorkerPop(w) \/ WorkerWait(w) \/ WorkerWakeup(w)
      PROVE  AtWork'
  BY <1>3, <1>8 DEF WorkerPop, WorkerWait, WorkerWakeup
<1>9. ASSUME NEW w \in Workers, ReceivePill(w) PROVE AtWork'
  BY <1>1, <1>9 DEF ReceivePill, PopEnd, WorkerCalls
<1>10. ASSUME NEW w \in Workers, ReceiveRequest(w) PROVE AtWork'
  <2>1. lObject[w] \in Requests
    BY <1>10, RolesAssumption, ItemsAssumption DEF ReceiveRequest, PopEnd, PopHolds, TypeInv
  <2> QED BY <1>1, <1>10, <2>1 DEF ReceiveRequest
<1>11. ASSUME NEW w \in Workers, InitCurl(w) \/ StartCurl(w) \/ EndCurl(w) PROVE AtWork'
  BY <1>1, <1>11 DEF InitCurl, StartCurl, EndCurl
<1>12. ASSUME NEW w \in Workers, FinishRequest(w) PROVE AtWork'
  BY <1>1, <1>12 DEF FinishRequest
<1>13. CASE Terminated \/ UNCHANGED vars
  BY <1>3, <1>13 DEF Terminated, vars
<1> QED
  BY <1>4, <1>5, <1>6, <1>7, <1>8, <1>9, <1>10, <1>11, <1>12, <1>13 DEF Next, Worker

LEMMA StartedStep == TypeOK /\ Started /\ [Next]_vars => Started'
<1> SUFFICES ASSUME TypeOK, Started, [Next]_vars PROVE Started'
  OBVIOUS
<1> USE DEF Started
<1>1. ASSUME UNCHANGED <<mDropSize, spc, mpc, mBeingKilled, left>> PROVE Started'
  BY <1>1
<1>2. CASE Main
  <2>1. CASE Start
    BY <2>1 DEF Start, SetDropSize
  <2>2. CASE StartManager
    BY <2>2 DEF StartManager, queueVars
  <2>3. CASE StopPool \/ StopQueueFlag \/ JoinManager
    BY <2>3 DEF StopPool, StopQueueFlag, JoinManager, StopQueue, queueVars
  <2>4. CASE StartWorker
    BY <2>4 DEF StartWorker, queueVars
  <2> QED BY <1>2, <2>1, <2>2, <2>3, <2>4 DEF Main
<1>3. CASE Manage
  <2>1. CASE JoinWorker \/ JoinTimesOut \/ CollectDone
    BY <2>1 DEF JoinWorker, JoinTimesOut, CollectDone, Collecting, queueVars
  <2>2. CASE ReadLoad \/ Grow \/ Keep \/ SkipStats \/ StartStats \/ ReadProviders
    BY <2>2 DEF ReadLoad, Grow, Keep, SkipStats, StartStats, ReadProviders, queueVars
  <2>3. CASE Shrink \/ PoisonAll
    BY <2>3 DEF Shrink, PoisonAll, PushPill, PushFrontBegin
  <2>4. CASE UnlockPill
    BY <2>4 DEF UnlockPill, PushEnd
  <2>5. CASE NotifyPill
    BY <2>5 DEF NotifyPill, NotifyOne
  <2>6. CASE ReadCounters
    BY <2>6 DEF ReadCounters, GetCounters, GetCountersRead, GetCountersReset
  <2>7. CASE LeaveLoop \/ CollectLast
    BY <2>7 DEF LeaveLoop, CollectLast, queueVars
  <2> QED BY <1>3, <2>1, <2>2, <2>3, <2>4, <2>5, <2>6, <2>7 DEF Manage
<1>4. ASSUME NEW c \in Clients, Client(c) PROVE Started'
  BY <1>1, <1>4 DEF Client, ClientPush, ClientUnlock, ClientNotify, PushBegin, PushEnd, NotifyOne
<1>5. ASSUME NEW w \in Workers, Worker(w) \/ EndCurl(w) \/ WorkerWakeup(w) PROVE Started'
  BY <1>1, <1>5
  DEF Worker, InitCurl, WorkerPop, WorkerWait, ReceivePill, ReceiveRequest, StartCurl,
      FinishRequest, EndCurl, WorkerWakeup, PopBegin, PopWait, PopEnd, SpuriousWakeup,
      queueVars
<1>6. CASE Terminated \/ UNCHANGED vars
  BY <1>1, <1>6 DEF Terminated, vars, queueVars
<1> QED BY <1>2, <1>3, <1>4, <1>5, <1>6 DEF Next

\* What the accounting rests on.
Base ==
    /\ TypeInv /\ NotStarted /\ WorkerCalls /\ ThreadsListed /\ PillsFirst
    /\ EmptyHands /\ AtWork /\ Started

LEMMA BaseInit == Init => Base
<1> SUFFICES ASSUME Init PROVE Base
  OBVIOUS
<1>1. Workers \subseteq Threads
  BY RolesAssumption
<1>2. NotStarted /\ WorkerCalls
  BY <1>1 DEF Init, QueueInit, NotStarted, Unused, WorkerCalls
<1>3. ThreadsListed /\ PillsFirst
  BY PoolAssumption DEF Init, QueueInit, ThreadsListed, PillsFirst
<1>4. EmptyHands /\ AtWork /\ Started
  BY DEF Init, QueueInit, EmptyHands, AtWork, Started
<1> QED BY <1>2, <1>3, <1>4, TypeInvInit DEF Base

LEMMA BaseStep == Base /\ [Next]_vars => Base'
<1> SUFFICES ASSUME Base, [Next]_vars PROVE Base'
  OBVIOUS
<1>1. TypeOK /\ QueueTypeOK
  BY DEF Base, TypeInv, TypeOK
<1>2. [QueueNext]_queueVars
  BY PoolStepIsQueueStep DEF Base
<1> QED
  BY <1>1, <1>2, TypeInvStep, NotStartedStep, WorkerCallsStep, ThreadsListedStep,
     PillsFirstStep, EmptyHandsStep, AtWorkStep, StartedStep
  DEF Base
-----------------------------------------------------------------------------
(* The pills. *)

\* A worker outside pop() has nothing in hand, in particular no pill.
LEMMA OutOfPop ==
    ASSUME Base, NEW w \in Workers, wpc[w] # "idle" \/ qpc[w] \in {"out", "woken"}
    PROVE  lObject[w] = NoItem /\ lObject[w] # Poison
BY RolesAssumption, ItemsAssumption, NoItemAssumption DEF Base, WorkerCalls, EmptyHands

LEMMA PoisonedFinite == IsFiniteSet(Poisoned) /\ Cardinality(Poisoned) \in Nat
<1>1. Poisoned \in SUBSET Threads
  BY RolesAssumption DEF Poisoned
<1> QED BY <1>1, ThreadsAssumption, FS_Subset, FS_CardinalityType

\* A worker that takes a pill off the queue joins the poisoned ones.
LEMMA PopPoisons ==
    ASSUME Base, NEW w \in Workers, WorkerPop(w)
    PROVE  IF Head(mQueue) = Poison
           THEN Cardinality(Poisoned') = Cardinality(Poisoned) + 1
           ELSE Poisoned' = Poisoned
<1>1. lObject \in [Threads -> Items \cup {NoItem}] /\ Workers \subseteq Threads
  BY RolesAssumption DEF Base, TypeInv, TypeOK, QueueTypeOK
<1>2. /\ wpc[w] = "idle" /\ wpc' = wpc /\ lObject[w] # Poison
      /\ lObject' = [lObject EXCEPT ![w] = Head(mQueue)]
  BY OutOfPop DEF WorkerPop, PopBegin
<1>3. w \notin Poisoned
  BY <1>2 DEF Poisoned
<1>4. CASE Head(mQueue) = Poison
  <2>1. Poisoned' = Poisoned \cup {w}
    BY <1>1, <1>2, <1>4 DEF Poisoned
  <2> QED BY <1>3, <1>4, <2>1, PoisonedFinite, FS_AddElement
<1>5. CASE Head(mQueue) # Poison
  BY <1>1, <1>2, <1>5 DEF Poisoned
<1> QED BY <1>4, <1>5

\* The worker that is joined leaves them.
LEMMA JoinForgets ==
    ASSUME Base, JoinWorker
    PROVE  /\ it \in 1 .. Len(mThreads) /\ Len(mThreads') = Len(mThreads) - 1
           /\ Cardinality(Poisoned) >= 1
           /\ Cardinality(Poisoned') = Cardinality(Poisoned) - 1
<1>1. mThreads \in Seq(Workers) /\ it \in Nat \ {0} /\ wpc \in [Workers -> WorkerStates]
  BY DEF Base, TypeInv, TypeOK
<1>2. it \in 1 .. Len(mThreads) /\ mThreads[it] \in Workers
  BY <1>1 DEF JoinWorker, Collecting
<1>3. Len(mThreads') = Len(mThreads) - 1
  BY <1>1, <1>2, RemoveAtProperties DEF JoinWorker
<1>4. /\ wpc[mThreads[it]] = "exited" /\ lObject' = lObject
      /\ wpc' = [wpc EXCEPT ![mThreads[it]] = "none"]
  BY DEF JoinWorker, queueVars
<1>5. lObject[mThreads[it]] # Poison
  BY <1>2, <1>4, OutOfPop
<1>6. mThreads[it] \in Poisoned /\ Poisoned' = Poisoned \ {mThreads[it]}
  BY <1>1, <1>2, <1>4, <1>5 DEF Poisoned
<1>7. Cardinality(Poisoned') = Cardinality(Poisoned) - 1
  BY <1>6, PoisonedFinite, FS_RemoveElement
<1>8. Cardinality(Poisoned) # 0
  BY <1>6, PoisonedFinite, FS_EmptySet
<1> QED BY <1>2, <1>3, <1>7, <1>8, PoisonedFinite

\* No other step of a worker, and no new thread, changes who is poisoned, as
\* long as curl_easy_init() succeeds.
LEMMA PoisonedStays ==
    ASSUME Base, InitCurlMayFail = FALSE,
           \/ newThread /\ UNCHANGED lObject
           \/ \E w \in Workers :
                \/ InitCurl(w) \/ WorkerWait(w) \/ WorkerWakeup(w) \/ ReceivePill(w)
                \/ ReceiveRequest(w) \/ StartCurl(w) \/ EndCurl(w) \/ FinishRequest(w)
    PROVE  Poisoned' = Poisoned
<1>1. /\ lObject \in [Threads -> Items \cup {NoItem}] /\ Workers \subseteq Threads
      /\ wpc \in [Workers -> WorkerStates] /\ NoItem # Poison
  BY RolesAssumption, ItemsAssumption, NoItemAssumption DEF Base, TypeInv, TypeOK, QueueTypeOK
<1>2. CASE newThread /\ UNCHANGED lObject
  <2>1. PICK w \in Workers : wpc[w] = "none" /\ wpc' = [wpc EXCEPT ![w] = "init"]
    BY <1>2 DEF newThread
  <2> QED BY <1>1, <1>2, <2>1 DEF Poisoned
<1>3. ASSUME NEW w \in Workers, ReceivePill(w) PROVE Poisoned' = Poisoned
  <2>1. wpc[w] = "idle"
    BY <1>3 DEF ReceivePill, PopEnd, Base, WorkerCalls
  <2> QED BY <1>1, <1>3, <2>1 DEF ReceivePill, PopEnd, Poisoned
<1>4. ASSUME NEW w \in Workers, ReceiveRequest(w) PROVE Poisoned' = Poisoned
  <2>1. wpc[w] = "idle"
    BY <1>4 DEF ReceiveRequest, PopEnd, Base, WorkerCalls
  <2> QED BY <1>1, <1>4, <2>1 DEF ReceiveRequest, PopEnd, Poisoned
<1>5. ASSUME NEW w \in Workers,
             InitCurl(w) \/ StartCurl(w) \/ EndCurl(w) \/ FinishRequest(w)
      PROVE  Poisoned' = Poisoned
  BY <1>1, <1>5 DEF InitCurl, StartCurl, EndCurl, FinishRequest, Poisoned, queueVars
<1>6. ASSUME NEW w \in Workers, WorkerWait(w) \/ WorkerWakeup(w) PROVE Poisoned' = Poisoned
  BY <1>6 DEF WorkerWait, WorkerWakeup, PopWait, SpuriousWakeup, Poisoned
<1> QED BY <1>2, <1>3, <1>4, <1>5, <1>6

\* mBeingKilled is exact, the minimum is kept, and there is no pill before
\* there is a manager.
Killed ==
    /\ KillAccounting
    /\ MinimumKept
    /\ mpc = "none" => PillsIn(mQueue) = 0 /\ Cardinality(Poisoned) = 0

\* A drop size that is not 0 has a place for every thread.
LEMMA RoomForPills ==
    ASSUME Base, Full, Len(mQueue) = PillsIn(mQueue)
    PROVE  mMaxThreads <= PillsIn(mQueue)
<1>1. mDropSize > 0 /\ mDropSize <= PillsIn(mQueue)
  BY DEF Full
<1>2. mDropSize = mMaxQueued * mMaxThreads
  BY <1>1 DEF Base, Started
<1>3. mMaxQueued \in Nat /\ mMaxThreads \in Nat
  BY PoolAssumption
<1>4. mMaxQueued # 0
  BY <1>1, <1>2, <1>3
<1>5. mMaxThreads <= mMaxQueued * mMaxThreads
  BY <1>3, <1>4
<1>6. PillsIn(mQueue) \in Nat
  BY PillsLeadQueue DEF Base, TypeInv
<1> QED BY <1>1, <1>2, <1>3, <1>5, <1>6

\* The pills are counted right by every step. InLoop and the three numbers are
\* all that matters; JoinWorker, Shrink and NotifyPill change them.
LEMMA KilledStep ==
    ASSUME Base, Base', InitCurlMayFail = FALSE, Killed, [Next]_vars
    PROVE  Killed'
<1> DEFINE p == PillsIn(mQueue)
           k == Cardinality(Poisoned)
           n == Len(mThreads)
<1>1. /\ p \in Nat /\ k \in Nat /\ n \in Nat /\ p <= Len(mQueue)
      /\ n <= mMaxThreads /\ mMinThreads \in Nat /\ mMaxThreads \in Nat
      /\ mBeingKilled \in 0 .. KilledMod - 1 /\ KilledMod \in Nat /\ SizeMod \in Nat
      /\ 2 * mMaxThreads < KilledMod /\ KilledMod <= SizeMod
  BY PillsLeadQueue, PoisonedFinite, PoolAssumption, WidthAssumption
  DEF Base, TypeInv, TypeOK, ThreadsListed
<1>2. /\ InLoop => /\ mBeingKilled + (IF mpc = "pill" THEN 1 ELSE 0) = p + k
                   /\ n >= mMinThreads + p + k
      /\ mpc = "none" => p = 0 /\ k = 0
  BY DEF Killed, KillAccounting, MinimumKept
<1> HIDE DEF p, k, n
<1>3. ASSUME /\ InLoop' => /\ mBeingKilled' + (IF mpc' = "pill" THEN 1 ELSE 0) = p' + k'
                           /\ n' >= mMinThreads + p' + k'
             /\ mpc' = "none" => p' = 0 /\ k' = 0
      PROVE  Killed'
  BY <1>3 DEF Killed, KillAccounting, MinimumKept, p, k, n
<1>4. ASSUME UNCHANGED mQueue PROVE p' = p
  BY <1>4 DEF p
<1>5. ASSUME Poisoned' = Poisoned PROVE k' = k
  BY <1>5 DEF k
<1>6. ASSUME UNCHANGED <<wpc, lObject>> PROVE k' = k
  BY <1>5, <1>6 DEF Poisoned
<1>7. ASSUME UNCHANGED mThreads PROVE n' = n
  BY <1>7 DEF n
\* Steps that count nothing and at most leave the loop.
<1>8. ASSUME p' = p, k' = k, n' >= n, n' \in Nat, UNCHANGED mBeingKilled,
             InLoop' => InLoop /\ (mpc' = "pill" <=> mpc = "pill"),
             mpc' = "none" => mpc = "none"
      PROVE  Killed'
  BY <1>1, <1>2, <1>3, <1>8
<1>9. CASE Main
  <2>1. p' = p
    BY <1>4, <1>9
    DEF Main, Start, StartWorker, StartManager, StopPool, StopQueueFlag, JoinManager,
        SetDropSize, StopQueue, queueVars
  <2>2. CASE StartWorker
    <3>1. k' = k
      BY <1>5, <2>2, PoisonedStays DEF StartWorker, queueVars
    <3>2. n' = n + 1
      BY <2>2 DEF StartWorker, newThread, n, Base, TypeInv, TypeOK
    <3> QED BY <1>1, <1>8, <2>1, <2>2, <3>1, <3>2 DEF StartWorker, InLoop
  <2>3. CASE StartManager
    <3>1. mpc = "none" /\ mBeingKilled = 0 /\ n = mMinThreads
      BY <2>3 DEF StartManager, Base, Started, n
    <3>2. k' = k /\ n' = n
      BY <1>6, <1>7, <2>3 DEF StartManager, queueVars
    <3> QED BY <1>1, <1>2, <1>3, <2>1, <2>3, <3>1, <3>2 DEF StartManager
  <2>4. CASE Start \/ StopPool \/ StopQueueFlag \/ JoinManager
    <3>1. k' = k /\ n' = n
      BY <1>6, <1>7, <2>4
      DEF Start, StopPool, StopQueueFlag, JoinManager, SetDropSize, StopQueue, queueVars
    <3> QED BY <1>1, <1>8, <2>1, <2>4, <3>1
      DEF Start, StopPool, StopQueueFlag, JoinManager, InLoop
  <2> QED BY <1>9, <2>2, <2>3, <2>4 DEF Main
<1>10. CASE JoinWorker
  <2>1. n' = n - 1 /\ k >= 1 /\ k' = k - 1
    BY <1>10, JoinForgets DEF n, k
  <2>2. p' = p
    BY <1>4, <1>10 DEF JoinWorker, queueVars
  <2>3. mpc' = mpc /\ mpc \in {"collect", "collectLast"}
    BY <1>10 DEF JoinWorker, Collecting
  <2>4. CASE mpc = "collect"
    <3>1. InLoop /\ mBeingKilled = p + k
      BY <1>1, <1>2, <2>4 DEF InLoop
    <3>2. mBeingKilled' = (mBeingKilled + KilledMod - 1) % KilledMod
      BY <1>10 DEF JoinWorker
    <3>3. mBeingKilled' = mBeingKilled - 1
      BY <1>1, <2>1, <3>1, <3>2
    <3> QED BY <1>1, <1>2, <1>3, <2>1, <2>2, <2>3, <2>4, <3>1, <3>3
  <2>5. CASE mpc = "collectLast"
    BY <1>3, <2>3, <2>5 DEF InLoop
  <2> QED BY <2>3, <2>4, <2>5
<1>11. CASE Grow
  <2>1. p' = p
    BY <1>4, <1>11 DEF Grow, queueVars
  <2>2. k' = k
    BY <1>5, <1>11, PoisonedStays DEF Grow, queueVars
  <2>3. n' = n + 1
    BY <1>11 DEF Grow, newThread, n, Base, TypeInv, TypeOK
  <2> QED BY <1>1, <1>8, <1>11, <2>1, <2>2, <2>3 DEF Grow, InLoop
<1>12. CASE Shrink
  <2>1. mpc = "adjust" /\ mpc' = "pill" /\ mBeingKilled' = mBeingKilled /\ n' = n /\ k' = k
    BY <1>6, <1>7, <1>12 DEF Shrink, PushPill, PushFrontBegin
  <2>2. InLoop /\ mBeingKilled = p + k /\ n >= mMinThreads + p + k
    BY <1>1, <1>2, <2>1 DEF InLoop
  <2>3. n > mMinThreads + p + k
    <3>1. (n + SizeMod - mBeingKilled) % SizeMod > mMinThreads
      BY <1>12 DEF Shrink, ShouldShrink, Survivors, n
    <3>2. n - mBeingKilled \in 0 .. SizeMod - 1
      BY <1>1, <2>2
    <3>3. (n + SizeMod - mBeingKilled) % SizeMod = n - mBeingKilled
      BY <1>1, <3>2
    <3> QED BY <1>1, <2>2, <3>1, <3>3
  <2>4. ~(Full /\ p = Len(mQueue))
    BY <1>1, <2>3, RoomForPills DEF p
  <2>5. p' = p + 1
    BY <1>12, <2>4, PillsAfterPill DEF Shrink, PushPill, Base, TypeInv, p
  <2> QED BY <1>1, <1>3, <2>1, <2>2, <2>3, <2>5
<1>13. CASE NotifyPill
  <2>1. p' = p /\ k' = k /\ n' = n
    BY <1>4, <1>6, <1>7, <1>13 DEF NotifyPill, NotifyOne
  <2>2. CASE mpc = "pill"
    <3>1. InLoop /\ mBeingKilled + 1 = p + k /\ n >= mMinThreads + p + k
      BY <1>2, <2>2 DEF InLoop
    <3>2. mBeingKilled' = (mBeingKilled + 1) % KilledMod
      BY <1>13 DEF NotifyPill
    <3>3. mBeingKilled' = mBeingKilled + 1
      BY <1>1, <3>1, <3>2
    <3>4. mpc' = "stats"
      BY <1>13, <2>2 DEF NotifyPill
    <3> QED BY <1>1, <1>3, <2>1, <3>1, <3>3, <3>4
  <2>3. CASE mpc = "lastPill"
    BY <1>3, <1>13, <2>3 DEF NotifyPill, InLoop
  <2> QED BY <1>13, <2>2, <2>3 DEF NotifyPill
<1>14. CASE PoisonAll
  BY <1>3, <1>14 DEF PoisonAll, InLoop
<1>15. CASE \/ ReadLoad \/ JoinTimesOut \/ CollectDone \/ Keep \/ UnlockPill \/ SkipStats
            \/ StartStats \/ ReadCounters \/ ReadProviders \/ LeaveLoop \/ CollectLast
  <2>1. UNCHANGED <<mQueue, wpc, lObject, mThreads, mBeingKilled>>
    BY <1>15
    DEF ReadLoad, JoinTimesOut, CollectDone, Keep, UnlockPill, SkipStats, StartStats,
        ReadCounters, ReadProviders, LeaveLoop, CollectLast, PushEnd, GetCounters,
        GetCountersRead, GetCountersReset, queueVars
  <2>2. p' = p /\ k' = k /\ n' = n
    BY <1>4, <1>6, <1>7, <2>1
  <2>3. /\ InLoop' => InLoop /\ (mpc' = "pill" <=> mpc = "pill")
        /\ mpc' # "none" \/ mpc = "none"
    BY <1>15
    DEF ReadLoad, JoinTimesOut, CollectDone, Keep, UnlockPill, SkipStats, StartStats,
        ReadCounters, ReadProviders, LeaveLoop, CollectLast, Collecting, InLoop
  <2> QED BY <1>1, <1>8, <2>1, <2>2, <2>3
<1>16. ASSUME NEW c \in Clients, Client(c) PROVE Killed'
  <2>1. UNCHANGED <<wpc, mThreads, mBeingKilled, mpc, lObject>>
    BY <1>16 DEF Client, ClientPush, ClientUnlock, ClientNotify, PushBegin, PushEnd, NotifyOne
  <2>2. p' = p
    <3>1. ASSUME NEW r \in Requests, ClientPush(c, r) PROVE p' = p
      BY <3>1, PillsAfterPush DEF ClientPush, Base, TypeInv, p
    <3>2. CASE ClientUnlock(c) \/ ClientNotify(c)
      BY <1>4, <3>2 DEF ClientUnlock, ClientNotify, PushEnd, NotifyOne
    <3> QED BY <1>16, <3>1, <3>2 DEF Client
  <2>3. k' = k /\ n' = n
    BY <1>6, <1>7, <2>1
  <2> QED BY <1>1, <1>8, <2>1, <2>2, <2>3 DEF InLoop
<1>17. ASSUME NEW w \in Workers, WorkerPop(w) PROVE Killed'
  <2>1. UNCHANGED <<mThreads, mBeingKilled, mpc>> /\ n' = n
    BY <1>7, <1>17 DEF WorkerPop
  <2>2. /\ Head(mQueue) = Poison <=> p > 0
        /\ p' = IF Head(mQueue) = Poison THEN p - 1 ELSE 0
    BY <1>17, PillsAfterPop DEF WorkerPop, Base, TypeInv, p
  <2>3. IF Head(mQueue) = Poison THEN k' = k + 1 ELSE k' = k
    BY <1>5, <1>17, PopPoisons DEF k
  <2> QED BY <1>1, <1>2, <1>3, <2>1, <2>2, <2>3 DEF InLoop
<1>18. ASSUME NEW w \in Workers,
              \/ InitCurl(w) \/ WorkerWait(w) \/ WorkerWakeup(w) \/ ReceivePill(w)
              \/ ReceiveRequest(w) \/ StartCurl(w) \/ EndCurl(w) \/ FinishRequest(w)
       PROVE  Killed'
  <2>1. UNCHANGED <<mQueue, mThreads, mBeingKilled, mpc>>
    BY <1>18
    DEF InitCurl, WorkerWait, WorkerWakeup, ReceivePill, ReceiveRequest, StartCurl, EndCurl,
        FinishRequest, PopWait, SpuriousWakeup, PopEnd, queueVars
  <2>2. p' = p /\ k' = k /\ n' = n
    BY <1>4, <1>5, <1>7, <1>18, <2>1, PoisonedStays
  <2> QED BY <1>1, <1>8, <2>1, <2>2 DEF InLoop
<1>19. CASE Terminated \/ UNCHANGED vars
  <2>1. UNCHANGED <<mQueue, wpc, lObject, mThreads, mBeingKilled, mpc>>
    BY <1>19 DEF Terminated, vars, queueVars
  <2>2. p' = p /\ k' = k /\ n' = n
    BY <1>4, <1>6, <1>7, <2>1
  <2> QED BY <1>1, <1>8, <2>1, <2>2 DEF InLoop
<1> QED
  BY <1>9, <1>10, <1>11, <1>12, <1>13, <1>14, <1>15, <1>16, <1>17, <1>18, <1>19
  DEF Next, Manage, Worker

\* What the counting of pills and requests rests on: a thread has an object in
\* hand only on its way out of pop(), a worker has a request only in runOne,
\* and start() set the drop size before there was anybody to use the queue.
THEOREM BaseInvariant == Spec => []Base
BY BaseInit, BaseStep, PTL DEF Spec

LEMMA KilledInit == Init => Killed
<1> SUFFICES ASSUME Init PROVE Killed
  OBVIOUS
<1>1. mQueue = <<>> /\ mQueue \in Seq(Items) /\ Len(mQueue) = 0
  BY DEF Init, QueueInit
<1>2. PillsIn(mQueue) = 0
  <2>1. 0 \in 0 .. Len(mQueue) /\ \A k \in 1 .. Len(mQueue) : mQueue[k] = Poison <=> k <= 0
    BY <1>1
  <2> QED BY <1>1, <2>1, PillCountUnique
<1>3. Poisoned = {}
  BY RolesAssumption, ItemsAssumption, NoItemAssumption DEF Init, QueueInit, Poisoned
<1> QED BY <1>2, <1>3, FS_EmptySet DEF Init, Killed, KillAccounting, MinimumKept, InLoop

\* As long as the loop runs, mBeingKilled is exact (KillAccounting): no pill is
\* lost to a full queue or counted twice, and the unsigned never wraps. It
\* needs that curl_easy_init() succeeds: a worker that ends without a pill is
\* counted as killed when it is joined.
THEOREM KillsAccounted ==
    ASSUME InitCurlMayFail = FALSE PROVE Spec => []KillAccounting
<1>1. Killed => KillAccounting
  BY DEF Killed
<1>2. Base /\ Base' /\ Killed /\ [Next]_vars => Killed'
  BY KilledStep
<1> QED BY <1>1, <1>2, KilledInit, BaseInvariant, PTL DEF Spec

\* The threads that are not being killed are never fewer than mMinThreads while
\* the loop runs (MinimumKept), although the manager decides on a load that
\* is stale by then.
THEOREM MinimumIsKept ==
    ASSUME InitCurlMayFail = FALSE PROVE Spec => []MinimumKept
<1>1. Killed => MinimumKept
  BY DEF Killed
<1>2. Base /\ Base' /\ Killed /\ [Next]_vars => Killed'
  BY KilledStep
<1> QED BY <1>1, <1>2, KilledInit, BaseInvariant, PTL DEF Spec
-----------------------------------------------------------------------------
(* The pills of the final loop. *)

LEMMA AliveFinite == IsFiniteSet(Alive) /\ Cardinality(Alive) \in Nat
<1>1. Alive \in SUBSET Threads
  BY RolesAssumption DEF Alive
<1> QED BY <1>1, ThreadsAssumption, FS_Subset, FS_CardinalityType

\* A worker that is alive is in the list.
LEMMA AliveListed ==
    ASSUME Base
    PROVE  Cardinality(Alive) <= Len(mThreads)
<1> DEFINE n == Len(mThreads)
           R == {mThreads[k] : k \in 1 .. n}
           f == [k \in 1 .. n |-> mThreads[k]]
<1>1. mThreads \in Seq(Workers) /\ n \in Nat /\ DOMAIN mThreads = 1 .. n
  BY DEF Base, TypeInv, TypeOK
<1>2. Alive \in SUBSET R
  BY <1>1 DEF Base, ThreadsListed, Alive, Ended
<1>3. IsFiniteSet(1 .. n) /\ Cardinality(1 .. n) = n
  BY <1>1, FS_Interval
<1>4. f \in Surjection(1 .. n, R)
  BY <1>1 DEF Surjection
<1> HIDE DEF R, f, n
<1>5. IsFiniteSet(R) /\ Cardinality(R) <= Cardinality(1 .. n)
  BY <1>3, <1>4, FS_Surjection
<1>6. Cardinality(Alive) <= Cardinality(R) /\ Cardinality(R) \in Nat
  BY <1>2, <1>5, FS_Subset, FS_CardinalityType
<1> QED BY <1>1, <1>3, <1>5, <1>6, AliveFinite DEF n

AfterLoop == mpc \in {"poison", "lastPill", "collectLast", "finished"}

\* After the loop there is a pill, pushed or yet to be pushed, for every worker
\* that will call pop() again.
PillsToCome == AfterLoop => Cardinality(Alive) <= PillsIn(mQueue) + left

\* Nobody comes alive after the loop, and only a pill ends a life in pop().
LEMMA AliveShrinks ==
    ASSUME Base, [Next]_vars, AfterLoop
    PROVE  Alive' \in SUBSET Alive
<1>1. /\ wpc \in [Workers -> WorkerStates] /\ lObject \in [Threads -> Items \cup {NoItem}]
      /\ Workers \subseteq Threads /\ NoItem # Poison /\ mThreads \in Seq(Workers)
  BY RolesAssumption, ItemsAssumption, NoItemAssumption DEF Base, TypeInv, TypeOK, QueueTypeOK
<1> USE DEF Alive, Ended
<1>2. ASSUME UNCHANGED <<wpc, lObject>> PROVE Alive' \in SUBSET Alive
  BY <1>2
<1>3. CASE Main
  <2>1. ~StartWorker
    BY DEF StartWorker, AfterLoop, Base, Started
  <2> QED BY <1>2, <1>3, <2>1
    DEF Main, Start, StartManager, StopPool, StopQueueFlag, JoinManager, SetDropSize,
        StopQueue, queueVars
<1>4. CASE JoinWorker
  <2>1. mThreads[it] \in Workers
    BY <1>1, <1>4 DEF JoinWorker, Collecting, Base, TypeInv, TypeOK
  <2> QED BY <1>1, <1>4, <2>1 DEF JoinWorker, queueVars
<1>5. CASE Manage /\ ~JoinWorker
  <2>1. ~Grow
    BY DEF Grow, AfterLoop
  <2> QED BY <1>2, <1>5, <2>1
    DEF Manage, ReadLoad, JoinTimesOut, CollectDone, Shrink, Keep, UnlockPill, NotifyPill,
        SkipStats, StartStats, ReadCounters, ReadProviders, LeaveLoop, PoisonAll, CollectLast,
        PushPill, PushFrontBegin, PushEnd, NotifyOne, GetCounters, GetCountersRead,
        GetCountersReset, queueVars
<1>6. ASSUME NEW c \in Clients, Client(c) PROVE Alive' \in SUBSET Alive
  BY <1>2, <1>6
  DEF Client, ClientPush, ClientUnlock, ClientNotify, PushBegin, PushEnd, NotifyOne
<1>7. ASSUME NEW w \in Workers, WorkerPop(w) PROVE Alive' \in SUBSET Alive
  <2>1. lObject[w] # Poison
    BY <1>7, OutOfPop DEF WorkerPop, PopBegin
  <2> QED BY <1>1, <1>7, <2>1 DEF WorkerPop, PopBegin
<1>8. ASSUME NEW w \in Workers, ReceivePill(w) PROVE Alive' \in SUBSET Alive
  BY <1>1, <1>8 DEF ReceivePill, PopEnd
<1>9. ASSUME NEW w \in Workers, ReceiveRequest(w) PROVE Alive' \in SUBSET Alive
  <2>1. wpc[w] = "idle"
    BY <1>9 DEF ReceiveRequest, PopEnd, Base, WorkerCalls
  <2> QED BY <1>1, <1>9, <2>1 DEF ReceiveRequest, PopEnd
<1>10. ASSUME NEW w \in Workers,
              InitCurl(w) \/ StartCurl(w) \/ EndCurl(w) \/ FinishRequest(w)
       PROVE  Alive' \in SUBSET Alive
  BY <1>1, <1>10 DEF InitCurl, StartCurl, EndCurl, FinishRequest, queueVars
<1>11. ASSUME NEW w \in Workers, WorkerWait(w) \/ WorkerWakeup(w)
       PROVE  Alive' \in SUBSET Alive
  BY <1>2, <1>11 DEF WorkerWait, WorkerWakeup, PopWait, SpuriousWakeup
<1>12. CASE Terminated \/ UNCHANGED vars
  BY <1>2, <1>12 DEF Terminated, vars, queueVars
<1> QED
  BY <1>3, <1>4, <1>5, <1>6, <1>7, <1>8, <1>9, <1>10, <1>11, <1>12 DEF Next, Worker

\* The worker that pops a pill is not alive any more.
LEMMA PopEndsLife ==
    ASSUME Base, NEW w \in Workers, WorkerPop(w), Head(mQueue) = Poison
    PROVE  Cardinality(Alive') = Cardinality(Alive) - 1
<1>1. lObject \in [Threads -> Items \cup {NoItem}] /\ Workers \subseteq Threads
  BY RolesAssumption DEF Base, TypeInv, TypeOK, QueueTypeOK
<1>2. /\ wpc[w] = "idle" /\ wpc' = wpc /\ lObject[w] # Poison
      /\ lObject' = [lObject EXCEPT ![w] = Poison]
  BY OutOfPop DEF WorkerPop, PopBegin
<1>3. w \in Alive /\ Alive' = Alive \ {w}
  BY <1>1, <1>2 DEF Alive, Ended
<1> QED BY <1>3, AliveFinite, FS_RemoveElement

\* The inductive step: only LeaveLoop, PoisonAll and a pop change the balance.
LEMMA PillsToComeStep ==
    ASSUME Base, Base', PillsToCome, [Next]_vars
    PROVE  PillsToCome'
<1> DEFINE p == PillsIn(mQueue)
           a == Cardinality(Alive)
<1>1. /\ p \in Nat /\ a \in Nat /\ left \in Nat /\ p' \in Nat /\ a' \in Nat /\ left' \in Nat
      /\ AfterLoop => a <= p + left
  <2>1. p \in Nat /\ p' \in Nat /\ left \in Nat /\ left' \in Nat
    BY PillsInNat DEF Base, TypeInv, TypeOK, QueueTypeOK
  <2>2. Alive' \in SUBSET Threads
    BY RolesAssumption DEF Alive
  <2>3. a' \in Nat
    BY <2>2, ThreadsAssumption, FS_Subset, FS_CardinalityType
  <2> QED BY <2>1, <2>3, AliveFinite DEF PillsToCome
<1> SUFFICES ASSUME AfterLoop' PROVE a' <= p' + left'
  BY DEF PillsToCome
<1>2. CASE LeaveLoop
  <2>1. left' = Len(mThreads) /\ UNCHANGED <<wpc, lObject>>
    BY <1>2 DEF LeaveLoop, queueVars
  <2>2. a' = a
    BY <2>1 DEF Alive, Ended
  <2> QED BY <1>1, <2>1, <2>2, AliveListed
<1>3. CASE ~LeaveLoop
  <2>1. AfterLoop
    <3>1. UNCHANGED mpc \/ Manage \/ StartManager
      BY DEF Next, vars, Main, Start, StartWorker, StopPool, StopQueueFlag, JoinManager,
         Client, ClientPush, ClientUnlock, ClientNotify, Worker, InitCurl, WorkerPop,
         WorkerWait, ReceivePill, ReceiveRequest, StartCurl, FinishRequest, EndCurl,
         WorkerWakeup, Terminated
    <3>2. CASE Manage
      BY <1>3, <3>2
      DEF Manage, ReadLoad, JoinWorker, JoinTimesOut, CollectDone, Collecting, Grow, Shrink,
          Keep, UnlockPill, NotifyPill, SkipStats, StartStats, ReadCounters, ReadProviders,
          PoisonAll, CollectLast, AfterLoop
    <3> QED BY <3>1, <3>2 DEF StartManager, AfterLoop
  <2>2. a' <= a
    BY <2>1, AliveShrinks, AliveFinite, FS_Subset
  <2>3. CASE PoisonAll
    <3>1. left' = left - 1 /\ left > 0
      BY <2>3 DEF PoisonAll
    <3>2. CASE Full /\ p = Len(mQueue)
      <4>1. p' = p /\ mMaxThreads <= p
        BY <2>3, <3>2, RoomForPills, PillsAfterPill DEF PoisonAll, PushPill, Base, TypeInv
      <4>2. a <= Len(mThreads) /\ Len(mThreads) <= mMaxThreads /\ Len(mThreads) \in Nat
        BY AliveListed DEF Base, ThreadsListed, TypeInv, TypeOK
      <4> QED BY <1>1, <2>2, <4>1, <4>2, PoolAssumption
    <3>3. CASE ~(Full /\ p = Len(mQueue))
      <4>1. p' = p + 1
        BY <2>3, <3>3, PillsAfterPill DEF PoisonAll, PushPill, Base, TypeInv
      <4> QED BY <1>1, <2>1, <2>2, <3>1, <4>1
    <3> QED BY <3>2, <3>3
  <2>4. ASSUME NEW w \in Workers, WorkerPop(w) PROVE a' <= p' + left'
    <3>1. left' = left
      BY <2>4 DEF WorkerPop
    <3>2. /\ Head(mQueue) = Poison <=> p > 0
          /\ p' = IF Head(mQueue) = Poison THEN p - 1 ELSE 0
      BY <2>4, PillsAfterPop DEF WorkerPop, Base, TypeInv
    <3>3. Head(mQueue) = Poison => a' = a - 1
      BY <2>4, PopEndsLife
    <3> QED BY <1>1, <2>1, <2>2, <3>1, <3>2, <3>3
  <2>5. ASSUME NEW c \in Clients, NEW r \in Requests, ClientPush(c, r) PROVE a' <= p' + left'
    <3>1. left' = left /\ p' = p
      BY <2>5, PillsAfterPush DEF ClientPush, Base, TypeInv
    <3> QED BY <1>1, <2>1, <2>2, <3>1
  <2>6. ASSUME UNCHANGED <<mQueue, left>> PROVE a' <= p' + left'
    BY <1>1, <2>1, <2>2, <2>6
  <2>7. CASE Manage /\ ~PoisonAll
    <3>1. ~Shrink
      BY <2>1 DEF Shrink, AfterLoop
    <3> QED BY <1>3, <2>6, <2>7, <3>1
      DEF Manage, ReadLoad, JoinWorker, JoinTimesOut, CollectDone, Grow, Keep, UnlockPill,
          NotifyPill, SkipStats, StartStats, ReadCounters, ReadProviders, CollectLast, PushEnd,
          NotifyOne, GetCounters, GetCountersRead, GetCountersReset, queueVars
  <2>8. CASE Main
    BY <2>6, <2>8 DEF Main, Start, StartWorker, StartManager, StopPool, StopQueueFlag,
       JoinManager, SetDropSize, StopQueue, queueVars
  <2>9. ASSUME NEW c \in Clients, ClientUnlock(c) \/ ClientNotify(c) PROVE a' <= p' + left'
    BY <2>6, <2>9 DEF ClientUnlock, ClientNotify, PushEnd, NotifyOne
  <2>10. ASSUME NEW w \in Workers,
                \/ InitCurl(w) \/ WorkerWait(w) \/ WorkerWakeup(w) \/ ReceivePill(w)
                \/ ReceiveRequest(w) \/ StartCurl(w) \/ EndCurl(w) \/ FinishRequest(w)
         PROVE  a' <= p' + left'
    BY <2>6, <2>10
    DEF InitCurl, WorkerWait, WorkerWakeup, ReceivePill, ReceiveRequest, StartCurl, EndCurl,
        FinishRequest, PopWait, SpuriousWakeup, PopEnd, queueVars
  <2>11. CASE Terminated \/ UNCHANGED vars
    BY <2>6, <2>11 DEF Terminated, vars, queueVars
  <2> QED
    BY <2>3, <2>4, <2>5, <2>7, <2>8, <2>9, <2>10, <2>11 DEF Next, Client, Worker
<1> QED BY <1>2, <1>3

\* Once the final loop is through there is a pill in the queue for every worker
\* that is still alive (EnoughPills), even where push_front had to evict a
\* pill and where workers ended because curl could not be initialised.
THEOREM PillsAreEnough == Spec => []EnoughPills
<1>1. Init => PillsToCome
  BY DEF Init, PillsToCome, AfterLoop
<1>2. Base /\ PillsToCome => EnoughPills
  <2> SUFFICES ASSUME Base, PillsToCome PROVE EnoughPills
    OBVIOUS
  <2>1. PillsIn(mQueue) \in Nat
    BY PillsLeadQueue DEF Base, TypeInv
  <2> QED BY <2>1 DEF Base, Started, PillsToCome, AfterLoop, EnoughPills
<1>3. Base /\ Base' /\ PillsToCome /\ [Next]_vars => PillsToCome'
  BY PillsToComeStep
<1> QED BY <1>1, <1>2, <1>3, BaseInvariant, PTL DEF Spec
=============================================================================
