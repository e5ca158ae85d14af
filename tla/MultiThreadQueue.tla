-------------------------- MODULE MultiThreadQueue --------------------------
(***************************************************************************)
(* The queue the Apache request threads feed and the duplication workers   *)
(* drain: src/src/MultiThreadQueue.hh and .cc.                             *)
(*                                                                         *)
(* push, push_front and pop run under mMutex; each is split where another  *)
(* thread can see the middle of it: entering the critical section (the     *)
(* deque is changed and the counter to bump is loaded), leaving it (the    *)
(* counter is stored, the mutex released), and, for the two pushes,        *)
(* notify_one, which the code calls after the mutex is released.           *)
(* size(), setDropSize() and getCounters() take no lock, so they may run   *)
(* while another thread is inside a critical section.                      *)
(*                                                                         *)
(* This module is the most general client of the queue: any thread may     *)
(* make any call. ThreadPool.tla composes it with the threads that do.     *)
(***************************************************************************)
EXTENDS Naturals, Sequences, FiniteSets

CONSTANTS
    Threads,      \* the threads that call the queue
    NoThread,     \* the owner of mMutex when it is free
    Items,        \* what can be queued
    NoItem,       \* a thread that holds no popped object
    CounterMod,   \* 2^32 in the code: the counters are unsigned
    TornSizes     \* what size() may return while the deque is being changed

ASSUME ThreadsAssumption == IsFiniteSet(Threads) /\ NoThread \notin Threads
ASSUME NoItemAssumption == NoItem \notin Items
ASSUME CounterModAssumption == CounterMod \in Nat \ {0}
ASSUME TornSizesAssumption == TornSizes \subseteq Nat

VARIABLES
    mQueue,         \* the deque, front first
    mDropSize,      \* 0 means no maximum
    mCount,         \* mInCount, mOutCount and mDropCount
    mQueueRunning,  \* the queue's own mRunning
    mMutex,         \* the thread inside a critical section, or NoThread
    loaded,         \* the counter that thread bumps, and the value it loaded
    lObject,        \* what pop() is returning to each thread
    qpc,            \* where each thread stands in its call of the queue
    gcStep,         \* how far the running getCounters() has come, 0 when none runs
    pCount          \* the out-parameters of getCounters()

queueVars == <<mQueue, mDropSize, mCount, mQueueRunning, mMutex, loaded, lObject,
               qpc, gcStep, pCount>>
statVars == <<gcStep, pCount>>

CounterNames == {"In", "Out", "Drop"}
CountValues == 0 .. CounterMod - 1

\* A thread is outside the queue, inside a critical section ("pushing",
\* "popping"), about to call notify_one ("notify"), blocked in the condition
\* variable ("waiting") or taken off it and in need of the mutex ("woken").
QueueStates == {"out", "pushing", "popping", "notify", "waiting", "woken"}

NoBump == [counter |-> "none", value |-> 0]

QueueInit ==
    /\ mQueue = <<>>
    /\ mDropSize = 0
    /\ mCount = [c \in CounterNames |-> 0]
    /\ mQueueRunning = TRUE
    /\ mMutex = NoThread
    /\ loaded = NoBump
    /\ lObject = [t \in Threads |-> NoItem]
    /\ qpc = [t \in Threads |-> "out"]
    /\ gcStep = 0
    /\ pCount = [c \in CounterNames |-> 0]
-----------------------------------------------------------------------------
(* Definitions whose name starts with Faulty are not part of the model: each  *)
(* is the definition after it with a plausible bug, kept to see that the     *)
(* properties notice it.                                                     *)

FaultyFull == mDropSize > 0 /\ Len(mQueue) > mDropSize

Full == mDropSize > 0 /\ Len(mQueue) >= mDropSize

\* The two halves of "counter++": a plain load and a plain store.
Load(c) == loaded' = [counter |-> c, value |-> mCount[c]]

FaultyStore ==
    /\ mCount' = IF loaded.counter = "none"
                 THEN mCount
                 ELSE [mCount EXCEPT ![loaded.counter] = loaded.value + 1]
    /\ loaded' = NoBump

Store ==
    /\ mCount' = IF loaded.counter = "none"
                 THEN mCount
                 ELSE [mCount EXCEPT ![loaded.counter] = (loaded.value + 1) % CounterMod]
    /\ loaded' = NoBump

Enter(t, state) ==
    /\ mMutex = NoThread
    /\ mMutex' = t
    /\ qpc' = [qpc EXCEPT ![t] = state]

Leave(t, state) ==
    /\ mMutex' = NoThread
    /\ qpc' = [qpc EXCEPT ![t] = state]
    /\ Store

\* push(): a full queue refuses the object and counts it as dropped.
PushAccepts(i) == ~Full /\ mQueue' = Append(mQueue, i) /\ Load("In")
PushDrops == Full /\ Load("Drop") /\ UNCHANGED mQueue

PushBegin(t, i) ==
    /\ qpc[t] = "out"
    /\ Enter(t, "pushing")
    /\ PushAccepts(i) \/ PushDrops
    /\ UNCHANGED <<mDropSize, mCount, mQueueRunning, lObject, statVars>>

FaultyPushFrontEvicts(i) == Full /\ mQueue' = <<i>> \o Tail(mQueue) /\ Load("Drop")

\* push_front(): always inserts; a full queue first gives up the object at its back.
PushFrontEvicts(i) ==
    /\ Full
    /\ mQueue' = <<i>> \o SubSeq(mQueue, 1, Len(mQueue) - 1)
    /\ Load("Drop")
FaultyPushFrontFits(i) == ~Full /\ mQueue' = Append(mQueue, i) /\ UNCHANGED loaded

PushFrontFits(i) == ~Full /\ mQueue' = <<i>> \o mQueue /\ UNCHANGED loaded

PushFrontBegin(t, i) ==
    /\ qpc[t] = "out"
    /\ Enter(t, "pushing")
    /\ PushFrontEvicts(i) \/ PushFrontFits(i)
    /\ UNCHANGED <<mDropSize, mCount, mQueueRunning, lObject, statVars>>

FaultyPushEnd(t) ==
    /\ qpc[t] = "pushing"
    /\ Leave(t, "out")
    /\ UNCHANGED <<mQueue, mDropSize, mQueueRunning, lObject, statVars>>

\* The end of the block that holds the lock guard, in both pushes.
PushEnd(t) ==
    /\ qpc[t] = "pushing"
    /\ Leave(t, "notify")
    /\ UNCHANGED <<mQueue, mDropSize, mQueueRunning, lObject, statVars>>

Waiting == {t \in Threads : qpc[t] = "waiting"}

\* Notifies only when the queue was empty before.
FaultyNotifyOne(t) ==
    /\ qpc[t] = "notify"
    /\ \/ \E w \in Waiting :
             Len(mQueue) = 1 /\ qpc' = [qpc EXCEPT ![t] = "out", ![w] = "woken"]
       \/ (Waiting = {} \/ Len(mQueue) # 1) /\ qpc' = [qpc EXCEPT ![t] = "out"]
    /\ UNCHANGED <<mQueue, mDropSize, mCount, mQueueRunning, mMutex, loaded, lObject,
                   statVars>>

\* notify_one(): takes one waiting thread, whichever, off the condition
\* variable; without one it does nothing. A dropped push notifies too.
NotifyOne(t) ==
    /\ qpc[t] = "notify"
    /\ \/ \E w \in Waiting : qpc' = [qpc EXCEPT ![t] = "out", ![w] = "woken"]
       \/ Waiting = {} /\ qpc' = [qpc EXCEPT ![t] = "out"]
    /\ UNCHANGED <<mQueue, mDropSize, mCount, mQueueRunning, mMutex, loaded, lObject,
                   statVars>>

\* Forgets pop_front().
FaultyPopBegin(t) ==
    /\ qpc[t] \in {"out", "woken"}
    /\ mQueue # <<>>
    /\ Enter(t, "popping")
    /\ lObject' = [lObject EXCEPT ![t] = Head(mQueue)]
    /\ Load("Out")
    /\ UNCHANGED <<mQueue, mDropSize, mCount, mQueueRunning, statVars>>

\* pop(): with the mutex, on entry or on return from wait().
PopBegin(t) ==
    /\ qpc[t] \in {"out", "woken"}
    /\ mQueue # <<>>
    /\ Enter(t, "popping")
    /\ lObject' = [lObject EXCEPT ![t] = Head(mQueue)]
    /\ mQueue' = Tail(mQueue)
    /\ Load("Out")
    /\ UNCHANGED <<mDropSize, mCount, mQueueRunning, statVars>>

\* The loop test fails to find an object: wait() releases the mutex and blocks.
PopWait(t) ==
    /\ qpc[t] \in {"out", "woken"}
    /\ mMutex = NoThread
    /\ mQueue = <<>>
    /\ qpc' = [qpc EXCEPT ![t] = "waiting"]
    /\ UNCHANGED <<mQueue, mDropSize, mCount, mQueueRunning, mMutex, loaded, lObject,
                   statVars>>

\* wait() may return without a notification.
SpuriousWakeup(t) ==
    /\ qpc[t] = "waiting"
    /\ qpc' = [qpc EXCEPT ![t] = "woken"]
    /\ UNCHANGED <<mQueue, mDropSize, mCount, mQueueRunning, mMutex, loaded, lObject,
                   statVars>>

\* pop() returns lObject[t] to its caller.
PopEnd(t) ==
    /\ qpc[t] = "popping"
    /\ Leave(t, "out")
    /\ lObject' = [lObject EXCEPT ![t] = NoItem]
    /\ UNCHANGED <<mQueue, mDropSize, mQueueRunning, statVars>>
-----------------------------------------------------------------------------
\* size() reads the deque without the mutex: a data race with the thread that
\* is changing it, whose outcome is one of TornSizes as well.
SizeOutcomes == {Len(mQueue)} \cup IF mMutex = NoThread THEN {} ELSE TornSizes

SetDropSize(n) ==
    /\ mDropSize' = n
    /\ UNCHANGED <<mQueue, mCount, mQueueRunning, mMutex, loaded, lObject, qpc, statVars>>

StopQueue ==
    /\ mQueueRunning' = FALSE
    /\ UNCHANGED <<mQueue, mDropSize, mCount, mMutex, loaded, lObject, qpc, statVars>>

\* getCounters() reads the three counters in this order, then sets them to 0
\* in the reverse order, one plain access at a time and without the mutex.
\* Only one thread, the pool's manager, calls it.
CounterOrder == <<"In", "Out", "Drop", "Drop", "Out", "In">>

GetCountersRead ==
    /\ gcStep \in 0 .. 2
    /\ LET c == CounterOrder[gcStep + 1]
       IN pCount' = [pCount EXCEPT ![c] = mCount[c]]
    /\ gcStep' = gcStep + 1
    /\ UNCHANGED <<mQueue, mDropSize, mCount, mQueueRunning, mMutex, loaded, lObject, qpc>>

GetCountersReset ==
    /\ gcStep \in 3 .. 5
    /\ mCount' = [mCount EXCEPT ![CounterOrder[gcStep + 1]] = 0]
    /\ gcStep' = (gcStep + 1) % 6
    /\ UNCHANGED <<mQueue, mDropSize, mQueueRunning, mMutex, loaded, lObject, qpc, pCount>>

GetCounters == GetCountersRead \/ GetCountersReset

\* setDropSize() has one caller, ThreadPool::start, which runs before any
\* thread uses the queue.
Unused == mQueue = <<>> /\ \A t \in Threads : qpc[t] = "out"

QueueNext ==
    \/ \E t \in Threads :
          \/ \E i \in Items : PushBegin(t, i) \/ PushFrontBegin(t, i)
          \/ PushEnd(t) \/ NotifyOne(t)
          \/ PopBegin(t) \/ PopWait(t) \/ SpuriousWakeup(t) \/ PopEnd(t)
    \/ \E n \in Nat : Unused /\ SetDropSize(n)
    \/ StopQueue
    \/ GetCounters

QueueSpec == QueueInit /\ [][QueueNext]_queueVars
-----------------------------------------------------------------------------
\* Types. The mutex belongs to the one thread that is inside a critical section.
Increments == [counter : CounterNames \cup {"none"}, value : CountValues]

QueueTypeOK ==
    /\ mQueue \in Seq(Items)
    /\ mDropSize \in Nat
    /\ mCount \in [CounterNames -> CountValues]
    /\ mQueueRunning \in BOOLEAN
    /\ mMutex \in Threads \cup {NoThread}
    /\ loaded \in Increments
    /\ lObject \in [Threads -> Items \cup {NoItem}]
    /\ qpc \in [Threads -> QueueStates]
    /\ gcStep \in 0 .. 5
    /\ pCount \in [CounterNames -> CountValues]

\* The threads that will look at the queue before they can block again: a
\* pusher on its way to notify_one, or a thread already woken.
Wakers == {t \in Threads : qpc[t] \in {"pushing", "notify", "woken"}}

\* No lost wakeup. push and push_front notify after they release mMutex
\* (MultiThreadQueue.cc:36 and 49) and notify_one remembers nothing when no
\* thread waits. Still, whenever a thread is blocked in pop(), every object in
\* the queue is matched by a thread that is about to notify or to pop, so no
\* object is left behind while a consumer sleeps.
NoLostWakeup == Waiting # {} => Len(mQueue) <= Cardinality(Wakers)

\* The queue never grows past its drop size, pills pushed to its front
\* included: push refuses, push_front makes room first.
QueueBounded == mDropSize > 0 => Len(mQueue) <= mDropSize
=============================================================================
