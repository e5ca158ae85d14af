------------------------- MODULE PoolServiceProofs --------------------------
(***************************************************************************)
(* What becomes of the requests: none is lost or handled twice             *)
(* (RequestsAccounted), and the pool implements the bounded queue of       *)
(* DupService. For any number of threads and requests.                     *)
(***************************************************************************)
EXTENDS PoolAccountingProofs

USE DEF poolVars, managerVars, workerVars, statVars

\* The steps that touch a request: every other step leaves the deque, the
\* workers' hands and the history alone.
LEMMA RequestSteps ==
    ASSUME [Next]_vars
    PROVE  \/ UNCHANGED <<mQueue, fate, current, lObject>>
           \/ \E c \in Clients, r \in Requests : ClientPush(c, r)
           \/ Shrink \/ PoisonAll
           \/ \E w \in Workers :
                 WorkerPop(w) \/ ReceivePill(w) \/ ReceiveRequest(w) \/ FinishRequest(w)
<1>1. CASE Main
  BY <1>1 DEF Main, Start, StartWorker, StartManager, StopPool, StopQueueFlag, JoinManager,
     SetDropSize, StopQueue, queueVars
<1>2. CASE Manage
  BY <1>2
  DEF Manage, ReadLoad, JoinWorker, JoinTimesOut, CollectDone, Grow, Keep,
      UnlockPill, NotifyPill, SkipStats, StartStats, ReadCounters, ReadProviders, LeaveLoop,
      CollectLast, PushEnd, NotifyOne, GetCounters, GetCountersRead, GetCountersReset, queueVars
<1>3. ASSUME NEW c \in Clients, ClientUnlock(c) \/ ClientNotify(c)
      PROVE  UNCHANGED <<mQueue, fate, current, lObject>>
  BY <1>3 DEF ClientUnlock, ClientNotify, PushEnd, NotifyOne
<1>4. ASSUME NEW w \in Workers,
             InitCurl(w) \/ WorkerWait(w) \/ StartCurl(w) \/ EndCurl(w) \/ WorkerWakeup(w)
      PROVE  UNCHANGED <<mQueue, fate, current, lObject>>
  BY <1>4 DEF InitCurl, WorkerWait, StartCurl, EndCurl, WorkerWakeup, PopWait, SpuriousWakeup,
     queueVars
<1>5. CASE Terminated \/ UNCHANGED vars
  BY <1>5 DEF Terminated, vars, queueVars
<1> QED BY <1>1, <1>2, <1>3, <1>4, <1>5 DEF Next, Client, Worker

-----------------------------------------------------------------------------
\* The queued requests are the ones in the deque, each at one place.
QueueHolds(q, f) ==
    /\ \A r \in Requests : f[r] = "queued" => \E k \in 1 .. Len(q) : q[k] = r
    /\ \A k \in 1 .. Len(q) : q[k] # Poison => f[q[k]] = "queued"
    /\ \A j, k \in 1 .. Len(q) : q[j] = q[k] /\ q[j] # Poison => j = k

\* The taken requests are the ones in a worker's hands, each with one worker.
Holds(w, r) == current[w] = r \/ lObject[w] = r
WorkersHold ==
    /\ \A r \in Requests : fate[r] = "taken" => \E w \in Workers : Holds(w, r)
    /\ \A w \in Workers, r \in Requests : Holds(w, r) => fate[r] = "taken"
    /\ \A v, w \in Workers, r \in Requests : Holds(v, r) /\ Holds(w, r) => v = w

Accounted == QueueHolds(mQueue, fate) /\ WorkersHold

\* push() at the back of the deque.
LEMMA PushAccounted ==
    ASSUME Base, Accounted, NEW c \in Clients, NEW r \in Requests, ClientPush(c, r)
    PROVE  Accounted'
<1>1. /\ mQueue \in Seq(Items) /\ Len(mQueue) \in Nat /\ fate \in [Requests -> Fates]
      /\ r # Poison /\ r \in Items /\ fate[r] = "new"
      /\ \A k \in 1 .. Len(mQueue) : mQueue[k] \in Requests \cup {Poison}
  BY ItemsAssumption DEF ClientPush, Base, TypeInv, TypeOK, QueueTypeOK
<1>2. UNCHANGED <<current, lObject>>
  BY DEF ClientPush, PushBegin
<1>3. CASE Full
  <2>1. mQueue' = mQueue /\ fate' = [fate EXCEPT ![r] = "dropped"]
    BY <1>3 DEF ClientPush, PushBegin, PushAccepts, PushDrops
  <2>2. QueueHolds(mQueue, fate')
    BY <1>1, <2>1 DEF Accounted, QueueHolds
  <2>3. WorkersHold'
    BY <1>1, <1>2, <2>1 DEF Accounted, WorkersHold, Holds
  <2> QED BY <2>1, <2>2, <2>3 DEF Accounted
<1>4. CASE ~Full
  <2>1. mQueue' = Append(mQueue, r) /\ fate' = [fate EXCEPT ![r] = "queued"]
    BY <1>4 DEF ClientPush, PushBegin, PushAccepts, PushDrops
  <2>2. /\ Len(mQueue') = Len(mQueue) + 1
        /\ \A k \in 1 .. Len(mQueue) : mQueue'[k] = mQueue[k]
        /\ mQueue'[Len(mQueue) + 1] = r
    BY <1>1, <2>1
  <2>3. \A k \in 1 .. Len(mQueue) : mQueue[k] # r
    BY <1>1 DEF Accounted, QueueHolds
  <2> HIDE <2>1
  <2>4. QueueHolds(mQueue', fate')
    <3>1. fate' = [fate EXCEPT ![r] = "queued"]
      BY <2>1
    <3>2. ASSUME NEW s \in Requests, fate'[s] = "queued"
          PROVE  \E k \in 1 .. Len(mQueue') : mQueue'[k] = s
      BY <1>1, <2>2, <3>1, <3>2 DEF Accounted, QueueHolds
    <3>3. ASSUME NEW k \in 1 .. Len(mQueue'), mQueue'[k] # Poison
          PROVE  fate'[mQueue'[k]] = "queued"
      BY <1>1, <2>2, <3>1, <3>3 DEF Accounted, QueueHolds
    <3>4. ASSUME NEW j \in 1 .. Len(mQueue'), NEW k \in 1 .. Len(mQueue'),
                 mQueue'[j] = mQueue'[k], mQueue'[j] # Poison
          PROVE  j = k
      BY <1>1, <2>2, <2>3, <3>4 DEF Accounted, QueueHolds
    <3> QED BY <3>2, <3>3, <3>4 DEF QueueHolds
  <2>5. WorkersHold'
    BY <1>1, <1>2, <2>1 DEF Accounted, WorkersHold, Holds
  <2> QED BY <2>4, <2>5 DEF Accounted
<1> QED BY <1>3, <1>4

\* A pill at the front, with or without an eviction at the back.
LEMMA PillAccounted ==
    ASSUME Base, Accounted, PushPill, UNCHANGED current
    PROVE  Accounted'
<1>1. /\ mQueue \in Seq(Items) /\ Len(mQueue) \in Nat /\ fate \in [Requests -> Fates]
      /\ Poison \in Items /\ Poison \notin Requests /\ mDropSize \in Nat
      /\ \A k \in 1 .. Len(mQueue) : mQueue[k] \in Requests \cup {Poison}
  BY ItemsAssumption DEF Base, TypeInv, TypeOK, QueueTypeOK
<1>2. UNCHANGED <<current, lObject>>
  BY DEF PushPill, PushFrontBegin
<1>3. ASSUME NEW q \in Seq(Items), Len(q) <= Len(mQueue),
             \A k \in 1 .. Len(q) : q[k] = mQueue[k],
             mQueue' = <<Poison>> \o q,
             QueueHolds(q, fate')
      PROVE  QueueHolds(mQueue', fate')
  <2>1. /\ Len(mQueue') = Len(q) + 1 /\ Len(q) \in Nat
        /\ \A k \in 1 .. Len(q) + 1 : mQueue'[k] = IF k = 1 THEN Poison ELSE q[k - 1]
    BY <1>1, <1>3, ConsProperties
  <2>2. ASSUME NEW s \in Requests, fate'[s] = "queued"
        PROVE  \E k \in 1 .. Len(mQueue') : mQueue'[k] = s
    <3>1. PICK k \in 1 .. Len(q) : q[k] = s
      BY <1>3, <2>2 DEF QueueHolds
    <3>2. k + 1 \in 1 .. Len(mQueue') /\ mQueue'[k + 1] = s
      BY <2>1, <3>1
    <3> QED BY <3>2
  <2>3. ASSUME NEW k \in 1 .. Len(mQueue'), mQueue'[k] # Poison
        PROVE  k - 1 \in 1 .. Len(q) /\ mQueue'[k] = q[k - 1]
    BY <2>1, <2>3
  <2>4. ASSUME NEW k \in 1 .. Len(mQueue'), mQueue'[k] # Poison
        PROVE  fate'[mQueue'[k]] = "queued"
    BY <1>3, <2>3, <2>4 DEF QueueHolds
  <2>5. ASSUME NEW j \in 1 .. Len(mQueue'), NEW k \in 1 .. Len(mQueue'),
               mQueue'[j] = mQueue'[k], mQueue'[j] # Poison
        PROVE  j = k
    <3>1. j - 1 \in 1 .. Len(q) /\ mQueue'[j] = q[j - 1]
      BY <2>3, <2>5
    <3>2. k - 1 \in 1 .. Len(q) /\ mQueue'[k] = q[k - 1]
      BY <2>3, <2>5
    <3>3. j - 1 = k - 1
      BY <1>3, <2>5, <3>1, <3>2 DEF QueueHolds
    <3> QED BY <2>1, <3>3
  <2> QED BY <2>2, <2>4, <2>5 DEF QueueHolds
<1>4. CASE ~Full
  <2>1. mQueue' = <<Poison>> \o mQueue
    BY <1>4 DEF PushPill, PushFrontBegin, PushFrontEvicts, PushFrontFits
  <2>2. fate' = fate
    BY <1>1, <1>4 DEF PushPill
  <2>3. QueueHolds(mQueue', fate')
    BY <1>1, <1>3, <2>1, <2>2 DEF Accounted
  <2>4. WorkersHold'
    BY <1>2, <2>2 DEF Accounted, WorkersHold, Holds
  <2> QED BY <2>3, <2>4 DEF Accounted
<1>5. CASE Full
  <2> DEFINE n == Len(mQueue)
             q == SubSeq(mQueue, 1, n - 1)
  <2>1. n > 0 /\ n \in 1 .. n
    BY <1>1, <1>5 DEF Full
  <2>2. /\ q \in Seq(Items) /\ Len(q) = n - 1 /\ Len(q) <= n
        /\ \A k \in 1 .. Len(q) : q[k] = mQueue[k]
    BY <1>1, <2>1, FrontProperties
  <2>3. mQueue' = <<Poison>> \o q
    BY <1>5 DEF PushPill, PushFrontBegin, PushFrontEvicts, PushFrontFits
  <2>4. \A r \in Requests : fate'[r] = IF r = mQueue[n] THEN "evicted" ELSE fate[r]
    BY <1>5 DEF PushPill
  <2> HIDE DEF q
  <2>5. \A k \in 1 .. Len(q) : q[k] # Poison => q[k] \in Requests /\ q[k] # mQueue[n]
    BY <1>1, <2>1, <2>2 DEF Accounted, QueueHolds
  <2>6. QueueHolds(q, fate')
    <3>1. ASSUME NEW s \in Requests, fate'[s] = "queued"
          PROVE  \E k \in 1 .. Len(q) : q[k] = s
      <4>1. fate[s] = "queued" /\ s # mQueue[n]
        BY <2>4, <3>1
      <4>2. PICK k \in 1 .. n : mQueue[k] = s
        BY <4>1 DEF Accounted, QueueHolds
      <4> QED BY <1>1, <2>2, <4>1, <4>2
    <3>2. ASSUME NEW k \in 1 .. Len(q), q[k] # Poison
          PROVE  fate'[q[k]] = "queued"
      <4>1. k \in 1 .. n /\ fate[mQueue[k]] = "queued"
        BY <1>1, <2>2, <3>2 DEF Accounted, QueueHolds
      <4> QED BY <2>2, <2>4, <2>5, <3>2, <4>1
    <3>3. ASSUME NEW j \in 1 .. Len(q), NEW k \in 1 .. Len(q), q[j] = q[k], q[j] # Poison
          PROVE  j = k
      BY <1>1, <2>2, <3>3 DEF Accounted, QueueHolds
    <3> QED BY <3>1, <3>2, <3>3 DEF QueueHolds
  <2>7. QueueHolds(mQueue', fate')
    BY <1>3, <2>2, <2>3, <2>6
  <2>8. \A r \in Requests : fate[r] = "taken" <=> fate'[r] = "taken"
    BY <2>1, <2>4, <1>1 DEF Accounted, QueueHolds
  <2>9. WorkersHold'
    BY <1>2, <2>8 DEF Accounted, WorkersHold, Holds
  <2> QED BY <2>7, <2>9 DEF Accounted
<1> QED BY <1>4, <1>5

\* pop() moves the object at the front from the deque into the worker's hand.
LEMMA PopAccounted ==
    ASSUME Base, Accounted, NEW w \in Workers, WorkerPop(w)
    PROVE  Accounted'
<1>1. /\ mQueue \in Seq(Items) /\ Len(mQueue) \in Nat /\ fate \in [Requests -> Fates]
      /\ Poison \notin Requests /\ NoItem \notin Requests /\ Workers \subseteq Threads
      /\ \A k \in 1 .. Len(mQueue) : mQueue[k] \in Requests \cup {Poison}
      /\ lObject \in [Threads -> Items \cup {NoItem}]
  BY ItemsAssumption, NoItemAssumption, RolesAssumption DEF Base, TypeInv, TypeOK, QueueTypeOK
<1>2. /\ mQueue # <<>> /\ mQueue' = Tail(mQueue)
      /\ lObject' = [lObject EXCEPT ![w] = Head(mQueue)]
      /\ current' = current
      /\ \A r \in Requests : fate'[r] = IF r = Head(mQueue) THEN "taken" ELSE fate[r]
  BY DEF WorkerPop, PopBegin
<1>3. current[w] = NoItem /\ lObject[w] = NoItem
  BY OutOfPop DEF WorkerPop, PopBegin, Base, AtWork
<1>4. /\ Len(mQueue') = Len(mQueue) - 1 /\ Len(mQueue) >= 1
      /\ \A k \in 1 .. Len(mQueue) - 1 : mQueue'[k] = mQueue[k + 1]
      /\ Head(mQueue) = mQueue[1]
  BY <1>1, <1>2
<1>5. QueueHolds(mQueue', fate')
  <2>1. ASSUME NEW s \in Requests, fate'[s] = "queued"
        PROVE  \E k \in 1 .. Len(mQueue') : mQueue'[k] = s
    <3>1. fate[s] = "queued" /\ s # mQueue[1]
      BY <1>2, <1>4, <2>1
    <3>2. PICK k \in 1 .. Len(mQueue) : mQueue[k] = s
      BY <3>1 DEF Accounted, QueueHolds
    <3>3. k - 1 \in 1 .. Len(mQueue') /\ mQueue'[k - 1] = s
      BY <1>1, <1>4, <3>1, <3>2
    <3> QED BY <3>3
  <2>2. ASSUME NEW k \in 1 .. Len(mQueue'), mQueue'[k] # Poison
        PROVE  fate'[mQueue'[k]] = "queued"
    <3>1. k + 1 \in 1 .. Len(mQueue) /\ mQueue'[k] = mQueue[k + 1] /\ 1 \in 1 .. Len(mQueue)
      BY <1>1, <1>4
    <3>2. fate[mQueue[k + 1]] = "queued" /\ mQueue[k + 1] # mQueue[1]
      BY <1>1, <2>2, <3>1 DEF Accounted, QueueHolds
    <3> QED BY <1>1, <1>2, <1>4, <2>2, <3>1, <3>2
  <2>3. ASSUME NEW j \in 1 .. Len(mQueue'), NEW k \in 1 .. Len(mQueue'),
               mQueue'[j] = mQueue'[k], mQueue'[j] # Poison
        PROVE  j = k
    <3>1. /\ j + 1 \in 1 .. Len(mQueue) /\ mQueue'[j] = mQueue[j + 1]
          /\ k + 1 \in 1 .. Len(mQueue) /\ mQueue'[k] = mQueue[k + 1]
      BY <1>1, <1>4
    <3>2. j + 1 = k + 1
      BY <2>3, <3>1 DEF Accounted, QueueHolds
    <3> QED BY <1>4, <3>2
  <2> QED BY <2>1, <2>2, <2>3 DEF QueueHolds
<1>6. WorkersHold'
  <2>1. CASE Head(mQueue) = Poison
    <3>1. /\ \A r \in Requests : fate'[r] = fate[r]
          /\ \A v \in Workers, r \in Requests : Holds(v, r)' <=> Holds(v, r)
      BY <1>1, <1>2, <1>3, <2>1 DEF Holds
    <3> QED BY <3>1 DEF Accounted, WorkersHold
  <2>2. CASE Head(mQueue) \in Requests
    <3>1. fate[Head(mQueue)] = "queued"
      BY <1>1, <1>4, <2>2 DEF Accounted, QueueHolds
    <3>2. \A v \in Workers : ~Holds(v, Head(mQueue))
      BY <2>2, <3>1 DEF Accounted, WorkersHold
    <3> DEFINE h == Head(mQueue)
    <3>3. h \in Requests /\ lObject' = [lObject EXCEPT ![w] = h] /\ current' = current
      BY <1>2, <2>2
    <3>4. \A r \in Requests : fate'[r] = IF r = h THEN "taken" ELSE fate[r]
      BY <1>2
    <3> HIDE DEF h
    <3>5. \A v \in Workers, r \in Requests : v # w => (Holds(v, r)' <=> Holds(v, r))
      BY <1>1, <3>3 DEF Holds
    <3>6. \A r \in Requests : ~Holds(w, r) /\ (Holds(w, r)' <=> r = h)
      BY <1>1, <1>3, <3>3 DEF Holds
    <3>7. \A v \in Workers : ~Holds(v, h)
      BY <3>2 DEF h
    <3> QED BY <3>3, <3>4, <3>5, <3>6, <3>7 DEF Accounted, WorkersHold
  <2> QED BY <1>1, <1>4, <2>1, <2>2
<1> QED BY <1>5, <1>6 DEF Accounted

\* pop() returns; the object changes hands within the worker.
LEMMA ReceiveAccounted ==
    ASSUME Base, Accounted, NEW w \in Workers, ReceivePill(w) \/ ReceiveRequest(w)
    PROVE  Accounted'
<1>1. /\ Poison \notin Requests /\ NoItem \notin Requests /\ Workers \subseteq Threads
      /\ lObject \in [Threads -> Items \cup {NoItem}]
      /\ current \in [Workers -> Requests \cup {NoItem}]
  BY ItemsAssumption, NoItemAssumption, RolesAssumption DEF Base, TypeInv, TypeOK, QueueTypeOK
<1>2. UNCHANGED <<mQueue, fate>> /\ lObject' = [lObject EXCEPT ![w] = NoItem]
  BY DEF ReceivePill, ReceiveRequest, PopEnd
<1>3. current[w] = NoItem
  BY DEF ReceivePill, ReceiveRequest, PopEnd, Base, WorkerCalls, AtWork
<1>4. \A v \in Workers, r \in Requests : Holds(v, r)' <=> Holds(v, r)
  <2>1. CASE ReceivePill(w)
    BY <1>1, <1>2, <2>1 DEF ReceivePill, Holds
  <2>2. CASE ReceiveRequest(w)
    <3>1. current' = [current EXCEPT ![w] = lObject[w]]
      BY <2>2 DEF ReceiveRequest
    <3> QED BY <1>1, <1>2, <1>3, <3>1 DEF Holds
  <2> QED BY <2>1, <2>2
<1> QED BY <1>2, <1>4 DEF Accounted, WorkersHold

\* runOne returns; the worker lets go of the request.
LEMMA FinishAccounted ==
    ASSUME Base, Accounted, NEW w \in Workers, FinishRequest(w)
    PROVE  Accounted' /\ current[w] \in Requests /\ fate[current[w]] = "taken"
<1>1. /\ fate \in [Requests -> Fates]
      /\ Poison \notin Requests /\ NoItem \notin Requests /\ Workers \subseteq Threads
      /\ lObject \in [Threads -> Items \cup {NoItem}]
      /\ current \in [Workers -> Requests \cup {NoItem}]
      /\ mQueue \in Seq(Items) /\ \A k \in 1 .. Len(mQueue) : mQueue[k] \in Requests \cup {Poison}
  BY ItemsAssumption, NoItemAssumption, RolesAssumption DEF Base, TypeInv, TypeOK, QueueTypeOK
<1>2. /\ UNCHANGED <<mQueue, lObject>> /\ current' = [current EXCEPT ![w] = NoItem]
      /\ fate' = [fate EXCEPT ![current[w]] = "done"]
  BY DEF FinishRequest, queueVars
<1>3. current[w] \in Requests /\ lObject[w] = NoItem
  BY OutOfPop DEF FinishRequest, Base, AtWork
<1>4. fate[current[w]] = "taken"
  BY <1>3 DEF Accounted, WorkersHold, Holds
<1>5. QueueHolds(mQueue, fate')
  BY <1>1, <1>2, <1>3, <1>4 DEF Accounted, QueueHolds
<1>6. \A v \in Workers, r \in Requests : Holds(v, r)' <=> Holds(v, r) /\ r # current[w]
  BY <1>1, <1>2, <1>3 DEF Accounted, WorkersHold, Holds
<1>7. WorkersHold'
  BY <1>1, <1>2, <1>3, <1>6 DEF Accounted, WorkersHold
<1> QED BY <1>2, <1>3, <1>4, <1>5, <1>7 DEF Accounted

LEMMA AccountedStep == Base /\ Accounted /\ [Next]_vars => Accounted'
<1> SUFFICES ASSUME Base, Accounted, [Next]_vars PROVE Accounted'
  OBVIOUS
<1>1. CASE UNCHANGED <<mQueue, fate, current, lObject>>
  BY <1>1 DEF Accounted, WorkersHold, Holds
<1>2. CASE Shrink \/ PoisonAll
  BY <1>2, PillAccounted DEF Shrink, PoisonAll
<1> QED
  BY <1>1, <1>2, RequestSteps, PushAccounted, PopAccounted, ReceiveAccounted, FinishAccounted

LEMMA AccountedInit == Init => Accounted
<1> SUFFICES ASSUME Init PROVE Accounted
  OBVIOUS
<1>1. QueueHolds(mQueue, fate)
  BY DEF Init, QueueInit, QueueHolds
<1>2. WorkersHold
  BY RolesAssumption, ItemsAssumption, NoItemAssumption
  DEF Init, QueueInit, WorkersHold, Holds
<1> QED BY <1>1, <1>2 DEF Accounted

\* No request is lost, queued twice or with two workers (RequestsAccounted),
\* whatever the interleaving of pushes, pops, evictions and deaths of workers.
THEOREM NoRequestLost == Spec => []RequestsAccounted
<1>1. Base /\ Accounted => RequestsAccounted
  <2> SUFFICES ASSUME Base, Accounted, NEW r \in Requests
               PROVE  /\ Cardinality(InQueue(r)) = (IF fate[r] = "queued" THEN 1 ELSE 0)
                      /\ Cardinality(HeldBy(r)) = (IF fate[r] = "taken" THEN 1 ELSE 0)
    BY DEF RequestsAccounted
  <2>1. /\ mQueue \in Seq(Items) /\ DOMAIN mQueue = 1 .. Len(mQueue) /\ r # Poison
    BY ItemsAssumption DEF Base, TypeInv, TypeOK, QueueTypeOK
  <2>2. ASSUME fate[r] = "queued" PROVE \E k : InQueue(r) = {k}
    <3>1. PICK k \in 1 .. Len(mQueue) : mQueue[k] = r
      BY <2>2 DEF Accounted, QueueHolds
    <3>2. \A j \in 1 .. Len(mQueue) : mQueue[j] = r => j = k
      BY <2>1, <3>1 DEF Accounted, QueueHolds
    <3>3. InQueue(r) = {k}
      BY <2>1, <3>1, <3>2 DEF InQueue
    <3> QED BY <3>3
  <2>3. fate[r] # "queued" => InQueue(r) = {}
    BY <2>1 DEF Accounted, QueueHolds, InQueue
  <2>4. ASSUME fate[r] = "taken" PROVE \E w : HeldBy(r) = {w}
    <3>1. PICK w \in Workers : Holds(w, r)
      BY <2>4 DEF Accounted, WorkersHold
    <3>2. \A v \in Workers : Holds(v, r) => v = w
      BY <3>1 DEF Accounted, WorkersHold
    <3>3. HeldBy(r) = {w}
      BY <3>1, <3>2 DEF Holds, HeldBy
    <3> QED BY <3>3
  <2>5. fate[r] # "taken" => HeldBy(r) = {}
    BY DEF Accounted, WorkersHold, Holds, HeldBy
  <2> QED BY <2>2, <2>3, <2>4, <2>5, FS_Singleton, FS_EmptySet
<1> QED BY <1>1, AccountedInit, AccountedStep, BaseInvariant, PTL DEF Spec
-----------------------------------------------------------------------------
(* The pool implements DupService. *)

\* RequestsOf(q) is the part of the deque after its pills.
LEMMA RequestsOfProperties ==
    ASSUME NEW q \in Seq(Items), PillsLead(q)
    PROVE  /\ PillsIn(q) \in 0 .. Len(q) /\ Len(q) \in Nat
           /\ RequestsOf(q) \in Seq(Items) /\ Len(RequestsOf(q)) = Len(q) - PillsIn(q)
           /\ \A k \in 1 .. Len(q) - PillsIn(q) : RequestsOf(q)[k] = q[PillsIn(q) + k]
<1> DEFINE p == PillsIn(q)
<1>1. p \in 0 .. Len(q) /\ Len(q) \in Nat
  BY PillCount
<1> HIDE DEF p
<1>2. \A i \in p + 1 .. Len(q) : q[i] \in Items
  BY <1>1
<1>3. /\ SubSeq(q, p + 1, Len(q)) \in Seq(Items)
      /\ Len(SubSeq(q, p + 1, Len(q))) = IF p + 1 <= Len(q) THEN Len(q) - (p + 1) + 1 ELSE 0
      /\ \A i \in 1 .. Len(q) - (p + 1) + 1 : SubSeq(q, p + 1, Len(q))[i] = q[p + 1 + i - 1]
  BY <1>1, <1>2, SubSeqProperties
<1>4. \A k \in 1 .. Len(q) - p : SubSeq(q, p + 1, Len(q))[k] = q[p + k]
  BY <1>1, <1>3
<1> QED BY <1>1, <1>3, <1>4 DEF RequestsOf, p

\* What the three steps that change the deque do to the requests in it.
LEMMA RequestsAfterPush ==
    ASSUME Base, Base', NEW c \in Clients, NEW r \in Requests, PushBegin(c, r), ~Full
    PROVE  RequestsOf(mQueue') = Append(RequestsOf(mQueue), r)
<1> DEFINE p == PillsIn(mQueue)
           u == RequestsOf(mQueue)
           v == RequestsOf(mQueue')
<1>1. mQueue \in Seq(Items) /\ mQueue' \in Seq(Items) /\ r \in Items
  BY ItemsAssumption DEF Base, TypeInv, TypeOK, QueueTypeOK
<1>2. PillsLead(mQueue) /\ PillsLead(mQueue')
  BY <1>1 DEF Base, PillsFirst, PillsLead
<1>3. PillsIn(mQueue') = p
  BY PillsAfterPush DEF Base, TypeInv
<1>4. /\ Len(mQueue') = Len(mQueue) + 1 /\ mQueue'[Len(mQueue) + 1] = r
      /\ \A k \in 1 .. Len(mQueue) : mQueue'[k] = mQueue[k]
  BY <1>1 DEF PushBegin, PushAccepts, PushDrops
<1>5. /\ p \in 0 .. Len(mQueue) /\ Len(mQueue) \in Nat
      /\ u \in Seq(Items) /\ Len(u) = Len(mQueue) - p
      /\ \A k \in 1 .. Len(mQueue) - p : u[k] = mQueue[p + k]
  BY <1>1, <1>2, RequestsOfProperties
<1>6. /\ v \in Seq(Items) /\ Len(v) = Len(mQueue') - p
      /\ \A k \in 1 .. Len(mQueue') - p : v[k] = mQueue'[p + k]
  BY <1>1, <1>2, <1>3, RequestsOfProperties
<1> HIDE DEF p, u, v
<1>7. /\ Append(u, r) \in Seq(Items) /\ Len(Append(u, r)) = Len(u) + 1
      /\ \A k \in 1 .. Len(u) : Append(u, r)[k] = u[k]
      /\ Append(u, r)[Len(u) + 1] = r
  BY <1>1, <1>5
<1>8. ASSUME NEW k \in 1 .. Len(v) PROVE v[k] = Append(u, r)[k]
  <2>1. CASE k <= Len(u)
    BY <1>4, <1>5, <1>6, <1>7, <2>1
  <2>2. CASE k = Len(u) + 1
    BY <1>4, <1>5, <1>6, <1>7, <2>2
  <2> QED BY <1>4, <1>5, <1>6, <2>1, <2>2
<1>9. Len(v) = Len(Append(u, r))
  BY <1>4, <1>5, <1>6, <1>7
<1>10. v = Append(u, r)
  BY <1>6, <1>7, <1>8, <1>9, SeqEqual
<1> QED BY <1>10 DEF u, v

LEMMA RequestsAfterPill ==
    ASSUME Base, Base', PushFrontBegin(Manager, Poison)
    PROVE  LET u == RequestsOf(mQueue)
               v == RequestsOf(mQueue')
           IN  /\ ~Full => v = u
               /\ Full /\ u = <<>> => v = u
               /\ Full /\ u # <<>> => v = SubSeq(u, 1, Len(u) - 1)
<1> DEFINE p == PillsIn(mQueue)
           n == Len(mQueue)
           u == RequestsOf(mQueue)
           v == RequestsOf(mQueue')
           m == PillsIn(mQueue')
<1>1. /\ mQueue \in Seq(Items) /\ mQueue' \in Seq(Items) /\ Poison \in Items
      /\ mDropSize \in Nat
  BY ItemsAssumption DEF Base, TypeInv, TypeOK, QueueTypeOK
<1>2. PillsLead(mQueue) /\ PillsLead(mQueue')
  BY <1>1 DEF Base, PillsFirst, PillsLead
<1>3. IF Full /\ p = n THEN m = p ELSE m = p + 1
  BY PillsAfterPill DEF Base, TypeInv
<1>4. /\ p \in 0 .. n /\ n \in Nat /\ u \in Seq(Items) /\ Len(u) = n - p
      /\ \A k \in 1 .. n - p : u[k] = mQueue[p + k]
  BY <1>1, <1>2, RequestsOfProperties
<1>5. /\ v \in Seq(Items) /\ Len(v) = Len(mQueue') - m
      /\ \A k \in 1 .. Len(mQueue') - m : v[k] = mQueue'[m + k]
  BY <1>1, <1>2, RequestsOfProperties
<1>6. CASE ~Full
  <2>1. mQueue' = <<Poison>> \o mQueue
    BY <1>6 DEF PushFrontBegin, PushFrontEvicts, PushFrontFits
  <2>2. /\ Len(mQueue') = n + 1
        /\ \A k \in 1 .. n + 1 : mQueue'[k] = IF k = 1 THEN Poison ELSE mQueue[k - 1]
    BY <1>1, <2>1, ConsProperties
  <2> HIDE DEF p, u, v, m, n
  <2>3. m = p + 1 /\ Len(v) = Len(u)
    BY <1>3, <1>4, <1>5, <1>6, <2>2
  <2>4. ASSUME NEW k \in 1 .. Len(u) PROVE v[k] = u[k]
    <3>1. /\ p + k + 1 \in 1 .. n + 1 /\ p + k + 1 # 1 /\ p + k + 1 - 1 = p + k
          /\ k \in 1 .. n - p /\ k \in 1 .. Len(mQueue') - m /\ m + k = p + k + 1
      BY <1>4, <2>2, <2>3
    <3>2. v[k] = mQueue'[p + k + 1]
      BY <1>5, <3>1
    <3>3. mQueue'[p + k + 1] = mQueue[p + k]
      BY <1>4, <2>2, <3>1
    <3> QED BY <1>4, <3>1, <3>2, <3>3
  <2>5. v = u
    BY <1>4, <1>5, <2>3, <2>4, SeqEqual
  <2> QED BY <1>6, <2>5 DEF u, v
<1>7. CASE Full
  <2> DEFINE f == SubSeq(mQueue, 1, n - 1)
  <2>1. n > 0
    BY <1>1, <1>4, <1>7 DEF Full
  <2>2. /\ f \in Seq(Items) /\ Len(f) = n - 1
        /\ \A k \in 1 .. Len(f) : f[k] = mQueue[k]
    BY <1>1, <2>1, FrontProperties
  <2>3. mQueue' = <<Poison>> \o f
    BY <1>7 DEF PushFrontBegin, PushFrontEvicts, PushFrontFits
  <2> HIDE DEF f
  <2>4. /\ Len(mQueue') = n
        /\ \A k \in 1 .. n : mQueue'[k] = IF k = 1 THEN Poison ELSE f[k - 1]
    BY <1>1, <1>4, <2>2, <2>3, ConsProperties
  <2> HIDE DEF p, u, v, m, n
  <2>5. CASE p = n
    <3>1. Len(u) = 0 /\ Len(v) = 0
      BY <1>3, <1>4, <1>5, <1>7, <2>4, <2>5
    <3>2. u = <<>> /\ v = <<>>
      BY <1>4, <1>5, <3>1, EmptySeq
    <3> QED BY <1>7, <3>2 DEF u, v
  <2>6. CASE p < n
    <3> DEFINE g == SubSeq(u, 1, Len(u) - 1)
    <3>1. Len(u) > 0 /\ m = p + 1
      BY <1>3, <1>4, <2>6
    <3>2. /\ g \in Seq(Items) /\ Len(g) = Len(u) - 1
          /\ \A k \in 1 .. Len(g) : g[k] = u[k]
      BY <1>4, <3>1, FrontProperties
    <3> HIDE DEF g
    <3>3. Len(v) = Len(g)
      BY <1>4, <1>5, <2>4, <3>1, <3>2
    <3>4. ASSUME NEW k \in 1 .. Len(g) PROVE v[k] = g[k]
      <4>1. /\ p + k + 1 \in 1 .. n /\ p + k + 1 # 1 /\ p + k + 1 - 1 = p + k
            /\ p + k \in 1 .. Len(f) /\ k \in 1 .. n - p /\ k \in 1 .. Len(mQueue') - m
            /\ m + k = p + k + 1
        BY <1>4, <2>2, <2>4, <3>1, <3>2
      <4>2. v[k] = mQueue'[p + k + 1]
        BY <1>5, <4>1
      <4>3. mQueue'[p + k + 1] = f[p + k]
        BY <2>4, <4>1
      <4> QED BY <1>4, <2>2, <3>2, <4>1, <4>2, <4>3
    <3>5. v = g
      BY <1>5, <3>2, <3>3, <3>4, SeqEqual
    <3>6. u # <<>>
      BY <3>1
    <3> QED BY <1>7, <3>5, <3>6 DEF u, v, g
  <2> QED BY <1>4, <2>5, <2>6
<1> QED BY <1>6, <1>7

LEMMA RequestsAfterPop ==
    ASSUME Base, Base', NEW w \in Workers, PopBegin(w)
    PROVE  LET u == RequestsOf(mQueue)
               v == RequestsOf(mQueue')
           IN  /\ Head(mQueue) = Poison => v = u
               /\ Head(mQueue) # Poison => u # <<>> /\ Head(u) = Head(mQueue) /\ v = Tail(u)
<1> DEFINE p == PillsIn(mQueue)
           n == Len(mQueue)
           u == RequestsOf(mQueue)
           v == RequestsOf(mQueue')
           m == PillsIn(mQueue')
<1>1. mQueue \in Seq(Items) /\ mQueue' \in Seq(Items)
  BY DEF Base, TypeInv, TypeOK, QueueTypeOK
<1>2. PillsLead(mQueue) /\ PillsLead(mQueue')
  BY <1>1 DEF Base, PillsFirst, PillsLead
<1>3. /\ Head(mQueue) = Poison <=> p > 0
      /\ m = IF Head(mQueue) = Poison THEN p - 1 ELSE 0
  BY PillsAfterPop DEF Base, TypeInv
<1>4. /\ p \in 0 .. n /\ n \in Nat /\ u \in Seq(Items) /\ Len(u) = n - p
      /\ \A k \in 1 .. n - p : u[k] = mQueue[p + k]
  BY <1>1, <1>2, RequestsOfProperties
<1>5. /\ v \in Seq(Items) /\ Len(v) = Len(mQueue') - m
      /\ \A k \in 1 .. Len(mQueue') - m : v[k] = mQueue'[m + k]
  BY <1>1, <1>2, RequestsOfProperties
<1>6. /\ n >= 1 /\ Len(mQueue') = n - 1 /\ Head(mQueue) = mQueue[1]
      /\ \A k \in 1 .. n - 1 : mQueue'[k] = mQueue[k + 1]
  BY <1>1 DEF PopBegin
<1> HIDE DEF p, u, v, m, n
<1>7. CASE Head(mQueue) = Poison
  <2>1. m = p - 1 /\ p > 0 /\ Len(v) = Len(u)
    BY <1>3, <1>4, <1>5, <1>6, <1>7
  <2>2. ASSUME NEW k \in 1 .. Len(u) PROVE v[k] = u[k]
    <3>1. m + k \in 1 .. n - 1 /\ m + k + 1 = p + k /\ k \in 1 .. Len(mQueue') - m
      BY <1>4, <1>5, <1>6, <2>1
    <3> QED BY <1>4, <1>5, <1>6, <2>1, <3>1
  <2>3. v = u
    BY <1>4, <1>5, <2>1, <2>2, SeqEqual
  <2> QED BY <1>7, <2>3 DEF u, v
<1>8. CASE Head(mQueue) # Poison
  <2>1. m = 0 /\ p = 0 /\ Len(u) >= 1 /\ Len(v) = Len(u) - 1
    BY <1>3, <1>4, <1>5, <1>6, <1>8
  <2>2. u # <<>>
    BY <2>1
  <2>3. /\ Head(u) = u[1] /\ Tail(u) \in Seq(Items) /\ Len(Tail(u)) = Len(u) - 1
        /\ \A i \in 1 .. Len(u) - 1 : Tail(u)[i] = u[i + 1]
    BY <1>4, <2>1
  <2>4. Head(u) = Head(mQueue)
    BY <1>4, <1>6, <2>1, <2>3
  <2>5. ASSUME NEW k \in 1 .. Len(v) PROVE v[k] = Tail(u)[k]
    <3>1. k \in 1 .. n - 1 /\ k + 1 \in 1 .. n - p
      BY <1>4, <1>5, <1>6, <2>1
    <3>2. v[k] = mQueue[k + 1]
      BY <1>5, <1>6, <2>1, <3>1
    <3>3. u[k + 1] = mQueue[k + 1]
      BY <1>4, <2>1, <3>1
    <3> QED BY <1>4, <2>1, <2>3, <3>1, <3>2, <3>3
  <2>6. v = Tail(u)
    BY <1>5, <2>1, <2>3, <2>5, SeqEqual
  <2> QED BY <1>8, <2>2, <2>4, <2>6 DEF u, v
<1> QED BY <1>7, <1>8

\* The flag of the pool follows start() and stop(), and the manager only leaves
\* its loop once the flag is down.
UpLoops ==
    /\ mRunning <=> spc \in {"starting", "up"}
    /\ AfterLoop => ~mRunning

LEMMA UpLoopsStep == Base /\ UpLoops /\ [Next]_vars => UpLoops'
<1> SUFFICES ASSUME Base, UpLoops, [Next]_vars PROVE UpLoops'
  OBVIOUS
<1> USE DEF UpLoops, AfterLoop
<1>1. CASE Main
  BY <1>1
  DEF Main, Start, StartWorker, StartManager, StopPool, StopQueueFlag, JoinManager, Base, Started
<1>2. CASE Manage
  BY <1>2
  DEF Manage, ReadLoad, JoinWorker, JoinTimesOut, CollectDone, Grow, Shrink, Keep,
      UnlockPill, NotifyPill, SkipStats, StartStats, ReadCounters, ReadProviders, LeaveLoop,
      PoisonAll, CollectLast, Collecting
<1>3. ASSUME NEW c \in Clients, Client(c) PROVE UpLoops'
  BY <1>3 DEF Client, ClientPush, ClientUnlock, ClientNotify
<1>4. ASSUME NEW w \in Workers, Worker(w) \/ EndCurl(w) \/ WorkerWakeup(w) PROVE UpLoops'
  BY <1>4
  DEF Worker, InitCurl, WorkerPop, WorkerWait, ReceivePill, ReceiveRequest, StartCurl,
      FinishRequest, EndCurl, WorkerWakeup
<1>5. CASE Terminated \/ UNCHANGED vars
  BY <1>5 DEF Terminated, vars
<1> QED BY <1>1, <1>2, <1>3, <1>4, <1>5 DEF Next

\* What the refinement rests on.
ServiceInv == Base /\ Accounted /\ UpLoops /\ MinimumKept

\* A queue is full of requests but for the pills of the threads above the
\* minimum, as long as the pool is up.
LEMMA FullIsCrowded ==
    ASSUME ServiceInv, Full, spc \notin {"constructed", "starting"}
    PROVE  Service!Crowded
<1> DEFINE C == mMaxQueued * mMaxThreads
           p == PillsIn(mQueue)
           u == RequestsOf(mQueue)
<1>1. mQueue \in Seq(Items) /\ PillsLead(mQueue)
  BY PillsLeadQueue DEF ServiceInv, Base, TypeInv
<1>2. p \in 0 .. Len(mQueue) /\ Len(mQueue) \in Nat /\ Len(u) = Len(mQueue) - p
  BY <1>1, RequestsOfProperties
<1>3. /\ mDropSize = C /\ C > 0 /\ Len(mQueue) >= C
  BY DEF ServiceInv, Base, Started, Full
<1>4. C \in Nat /\ mMinThreads \in Nat /\ mMaxThreads \in Nat
  <2>1. C \in Nat
    BY <1>3 DEF ServiceInv, Base, TypeInv, TypeOK, QueueTypeOK
  <2> QED BY <2>1, PoolAssumption
<1>5. ASSUME spc \notin {"stopping", "joining", "stopped"}
      PROVE  Len(u) + (mMaxThreads - mMinThreads) >= C
  <2>1. spc = "up"
    BY <1>5 DEF ServiceInv, Base, TypeInv, TypeOK, MainStates
  <2>2. InLoop
    BY <2>1 DEF ServiceInv, UpLoops, AfterLoop, Base, Started, TypeInv, TypeOK, InLoop,
       ManagerStates
  <2>3. /\ Len(mThreads) >= mMinThreads + p + Cardinality(Poisoned)
        /\ Len(mThreads) <= mMaxThreads /\ Len(mThreads) \in Nat
    BY <2>2 DEF ServiceInv, MinimumKept, Base, ThreadsListed, TypeInv, TypeOK
  <2> HIDE DEF C, p, u
  <2> QED BY <1>2, <1>3, <1>4, <2>3, PoolAssumption, PoisonedFinite
<1> QED BY <1>3, <1>5 DEF Service!Crowded

LEMMA RoomWhenNotFull ==
    ASSUME ServiceInv, ~Full, spc # "constructed"
    PROVE  Service!Room
<1>1. mQueue \in Seq(Items) /\ PillsLead(mQueue)
  BY PillsLeadQueue DEF ServiceInv, Base, TypeInv
<1>2. /\ PillsIn(mQueue) \in 0 .. Len(mQueue) /\ Len(mQueue) \in Nat
      /\ Len(RequestsOf(mQueue)) = Len(mQueue) - PillsIn(mQueue)
  BY <1>1, RequestsOfProperties
<1>3. mDropSize = mMaxQueued * mMaxThreads /\ mDropSize \in Nat
  BY DEF ServiceInv, Base, Started, TypeInv, TypeOK, QueueTypeOK
<1>4. mDropSize = 0 \/ Len(mQueue) < mDropSize
  BY <1>2, <1>3 DEF Full
<1> QED BY <1>2, <1>3, <1>4 DEF Service!Room

\* Every step of the pool is a step of the service or invisible to it.
LEMMA PoolStepIsServiceStep ==
    ASSUME ServiceInv, Base', [Next]_vars
    PROVE  [Service!ServiceNext]_Service!serviceVars
<1> USE DEF Service!ServiceNext, Service!serviceVars, Service!Move
<1>1. /\ mQueue \in Seq(Items) /\ Len(mQueue) \in Nat /\ fate \in [Requests -> Fates]
      /\ Poison \notin Requests /\ PillsLead(mQueue)
      /\ \A k \in 1 .. Len(mQueue) : mQueue[k] \in Requests \cup {Poison}
  BY PillsLeadQueue, ItemsAssumption DEF ServiceInv, Base, TypeInv, TypeOK, QueueTypeOK
<1>2. CASE StopPool
  <2>1. UNCHANGED <<mQueue, fate>> /\ spc = "up" /\ spc' = "stopping"
    BY <1>2 DEF StopPool, queueVars
  <2>2. Service!Close
    BY <2>1 DEF Service!Close
  <2> QED BY <2>2
<1>3. CASE Main /\ ~StopPool
  <2>1. UNCHANGED <<mQueue, fate>>
    BY <1>3 DEF Main, Start, StartWorker, StartManager, StopQueueFlag, JoinManager,
       SetDropSize, StopQueue, queueVars
  <2>2. spc \in {"stopping", "joining", "stopped"} <=> spc' \in {"stopping", "joining", "stopped"}
    BY <1>3 DEF Main, Start, StartWorker, StartManager, StopQueueFlag, JoinManager
  <2> QED BY <2>1, <2>2
<1>4. ASSUME ~Main PROVE spc' = spc
  <2>1. CASE Manage
    BY <2>1
    DEF Manage, ReadLoad, JoinWorker, JoinTimesOut, CollectDone, Grow, Shrink, Keep,
        UnlockPill, NotifyPill, SkipStats, StartStats, ReadCounters, ReadProviders, LeaveLoop,
        PoisonAll, CollectLast
  <2>2. ASSUME NEW c \in Clients, Client(c) PROVE spc' = spc
    BY <2>2 DEF Client, ClientPush, ClientUnlock, ClientNotify
  <2>3. ASSUME NEW w \in Workers, Worker(w) \/ EndCurl(w) \/ WorkerWakeup(w) PROVE spc' = spc
    BY <2>3
    DEF Worker, InitCurl, WorkerPop, WorkerWait, ReceivePill, ReceiveRequest, StartCurl,
        FinishRequest, EndCurl, WorkerWakeup
  <2>4. CASE Terminated \/ UNCHANGED vars
    BY <2>4 DEF Terminated, vars
  <2> QED BY <1>4, <2>1, <2>2, <2>3, <2>4 DEF Next
<1>5. CASE ~Main /\ UNCHANGED <<mQueue, fate>>
  BY <1>4, <1>5
<1>6. ASSUME ~Main, NEW c \in Clients, NEW r \in Requests, ClientPush(c, r)
      PROVE  Service!Accept(r) \/ Service!Refuse(r)
  <2>1. fate[r] = "new" /\ spc \notin {"constructed", "starting"} /\ PushBegin(c, r)
    BY <1>6 DEF ClientPush
  <2>2. CASE Full
    <3>1. mQueue' = mQueue /\ fate' = [fate EXCEPT ![r] = "dropped"]
      BY <1>6, <2>2 DEF ClientPush, PushBegin, PushAccepts, PushDrops
    <3>2. Service!Crowded
      BY <2>1, <2>2, FullIsCrowded
    <3> QED BY <1>4, <1>6, <2>1, <3>1, <3>2 DEF Service!Refuse
  <2>3. CASE ~Full
    <3>1. fate' = [fate EXCEPT ![r] = "queued"]
      BY <1>6, <2>3 DEF ClientPush
    <3>2. Service!Room
      BY <2>1, <2>3, RoomWhenNotFull
    <3>3. RequestsOf(mQueue') = Append(RequestsOf(mQueue), r)
      BY <2>1, <2>3, RequestsAfterPush DEF ServiceInv
    <3> QED BY <1>4, <1>6, <2>1, <3>1, <3>2, <3>3 DEF Service!Accept
  <2> QED BY <2>2, <2>3
<1>7. ASSUME ~Main, Shrink \/ PoisonAll
      PROVE  Service!Evict \/ UNCHANGED Service!serviceVars
  <2> DEFINE u == RequestsOf(mQueue)
             v == RequestsOf(mQueue')
             p == PillsIn(mQueue)
             n == Len(mQueue)
  <2>1. PushPill /\ PushFrontBegin(Manager, Poison)
    BY <1>7 DEF Shrink, PoisonAll, PushPill
  <2>2. spc \notin {"constructed", "starting"}
    BY <1>7 DEF Shrink, PoisonAll, ServiceInv, Base, Started
  <2>3. /\ ~Full => v = u
        /\ Full /\ u = <<>> => v = u
        /\ Full /\ u # <<>> => v = SubSeq(u, 1, Len(u) - 1)
    BY <2>1, RequestsAfterPill DEF ServiceInv
  <2>4. /\ p \in 0 .. n /\ n \in Nat /\ u \in Seq(Items) /\ Len(u) = n - p
        /\ \A k \in 1 .. n - p : u[k] = mQueue[p + k]
    BY <1>1, RequestsOfProperties
  <2>5. \A k \in 1 .. n : mQueue[k] = Poison <=> k <= p
    BY <1>1, PillCount
  <2>6. CASE ~Full
    <3>1. fate' = fate
      BY <1>1, <2>1, <2>6 DEF PushPill
    <3> QED BY <1>4, <1>7, <2>3, <2>6, <3>1
  <2>7. CASE Full /\ u = <<>>
    <3>1. n > 0
      BY <2>4, <2>7 DEF Full, ServiceInv, Base, TypeInv, TypeOK, QueueTypeOK
    <3> HIDE DEF u, n, p
    <3>2. Len(u) = 0
      BY <2>7
    <3>3. n \in 1 .. n /\ n <= p
      BY <2>4, <3>1, <3>2
    <3>4. mQueue[n] = Poison
      BY <2>5, <3>3
    <3>5. fate' = fate
      BY <1>1, <2>1, <2>7, <3>4 DEF PushPill, n
    <3> QED BY <1>4, <1>7, <2>3, <2>7, <3>5 DEF u
  <2>8. CASE Full /\ u # <<>>
    <3>1. n > 0
      BY <2>4, <2>8 DEF Full, ServiceInv, Base, TypeInv, TypeOK, QueueTypeOK
    <3> HIDE DEF u, n, p
    <3>2. Len(u) > 0
      BY <2>4, <2>8, EmptySeq
    <3>3. n - p \in 1 .. n - p /\ p + (n - p) = n /\ n \in 1 .. n /\ ~(n <= p)
      BY <2>4, <3>1, <3>2
    <3>4. u[Len(u)] = mQueue[n] /\ mQueue[n] # Poison
      BY <2>4, <2>5, <3>3
    <3>5. mQueue[n] \in Requests /\ fate[mQueue[n]] = "queued"
      BY <1>1, <3>3, <3>4 DEF ServiceInv, Accounted, QueueHolds, n
    <3>6. fate' = [fate EXCEPT ![u[Len(u)]] = "evicted"]
      BY <1>1, <2>1, <2>8, <3>4, <3>5 DEF PushPill, n
    <3>7. Service!Crowded
      BY <2>2, <2>8, FullIsCrowded
    <3> QED BY <1>4, <1>7, <2>3, <2>8, <3>4, <3>5, <3>6, <3>7 DEF u, Service!Evict
  <2> QED BY <2>6, <2>7, <2>8
<1>8. ASSUME ~Main, NEW w \in Workers, WorkerPop(w)
      PROVE  Service!Take \/ UNCHANGED Service!serviceVars
  <2> DEFINE u == RequestsOf(mQueue)
             v == RequestsOf(mQueue')
  <2>1. PopBegin(w)
    BY <1>8 DEF WorkerPop
  <2>2. /\ Head(mQueue) = Poison => v = u
        /\ Head(mQueue) # Poison => u # <<>> /\ Head(u) = Head(mQueue) /\ v = Tail(u)
    BY <2>1, RequestsAfterPop DEF ServiceInv
  <2>3. Head(mQueue) = mQueue[1] /\ 1 \in 1 .. Len(mQueue)
    BY <1>1, <2>1 DEF PopBegin
  <2>4. fate' = [r \in Requests |-> IF r = Head(mQueue) THEN "taken" ELSE fate[r]]
    BY <1>8 DEF WorkerPop
  <2>5. CASE Head(mQueue) = Poison
    <3>1. fate' = fate
      BY <1>1, <2>4, <2>5
    <3> QED BY <1>4, <1>8, <2>2, <2>5, <3>1
  <2>6. CASE Head(mQueue) # Poison
    <3>1. Head(mQueue) \in Requests /\ fate[Head(mQueue)] = "queued"
      BY <1>1, <2>3, <2>6 DEF ServiceInv, Accounted, QueueHolds
    <3>2. fate' = [fate EXCEPT ![Head(mQueue)] = "taken"]
      BY <1>1, <2>4, <3>1
    <3> QED BY <1>4, <1>8, <2>2, <2>6, <3>1, <3>2 DEF Service!Take
  <2> QED BY <2>5, <2>6
<1>9. ASSUME ~Main, NEW w \in Workers, ReceivePill(w) \/ ReceiveRequest(w)
      PROVE  UNCHANGED Service!serviceVars
  BY <1>4, <1>9 DEF ReceivePill, ReceiveRequest, PopEnd
<1>10. ASSUME ~Main, NEW w \in Workers, FinishRequest(w)
       PROVE  \E r \in Requests : Service!Finish(r)
  <2>1. current[w] \in Requests /\ fate[current[w]] = "taken"
    BY <1>10, FinishAccounted DEF ServiceInv
  <2>2. Service!Finish(current[w])
    BY <1>4, <1>10, <2>1 DEF FinishRequest, queueVars, Service!Finish
  <2> QED BY <2>1, <2>2
<1> QED
  BY <1>2, <1>3, <1>5, <1>6, <1>7, <1>8, <1>9, <1>10, RequestSteps

\* The pool implements the bounded FIFO of DupService (ImplementsService).
\* That curl can be initialised is needed: a worker that ends without a pill
\* is counted in mBeingKilled by collectKilled(), the minimum is then no
\* longer kept, and pills may take more places than those of the threads above it.
THEOREM PoolImplementsService ==
    ASSUME InitCurlMayFail = FALSE PROVE Spec => ImplementsService
<1>1. Init => Service!ServiceInit
  <2> SUFFICES ASSUME Init PROVE Service!ServiceInit
    OBVIOUS
  <2>1. mQueue = <<>> /\ spc = "constructed" /\ fate = [r \in Requests |-> "new"]
    BY DEF Init, QueueInit
  <2>2. mQueue \in Seq(Items) /\ Len(mQueue) = 0 /\ PillsLead(mQueue)
    BY <2>1 DEF PillsLead
  <2>3. /\ PillsIn(mQueue) \in 0 .. 0 /\ RequestsOf(mQueue) \in Seq(Items)
        /\ Len(RequestsOf(mQueue)) = 0 - PillsIn(mQueue)
    BY <2>2, RequestsOfProperties
  <2>4. RequestsOf(mQueue) = <<>>
    <3>1. Len(RequestsOf(mQueue)) = 0
      BY <2>3
    <3> QED BY <2>3, <3>1, EmptySeq
  <2> QED BY <2>1, <2>4 DEF Service!ServiceInit
<1>2. Init => Accounted /\ UpLoops
  BY AccountedInit DEF Init, UpLoops, AfterLoop
<1>3. ServiceInv /\ Base' /\ [Next]_vars => [Service!ServiceNext]_Service!serviceVars
  BY PoolStepIsServiceStep
<1>4. Spec => []MinimumKept
  BY MinimumIsKept
<1>5. Spec => []Base
  BY BaseInvariant
<1>6. Spec => []Accounted
  BY <1>2, <1>5, AccountedStep, PTL DEF Spec
<1>7. Spec => []UpLoops
  BY <1>2, <1>5, UpLoopsStep, PTL DEF Spec
<1>8. Spec => []ServiceInv
  BY <1>4, <1>5, <1>6, <1>7, PTL DEF ServiceInv
<1> QED
  BY <1>1, <1>3, <1>5, <1>8, PTL DEF Spec, ImplementsService, Service!ServiceSpec
=============================================================================
