----------------------------- MODULE ThreadPool -----------------------------
(***************************************************************************)
(* The pool that duplicates requests behind Apache's back:                 *)
(* src/src/ThreadPool.hh and .cc, with the worker it runs,                 *)
(* RequestProcessor::run and runOne (src/src/RequestProcessor.cc), the     *)
(* request threads that push (filters_dup.cc) and the main thread that     *)
(* starts and stops it (childInit and cleanUp of mod_dup.cc).              *)
(*                                                                         *)
(*   Clients  Apache request threads: push() one request each call         *)
(*   Workers  boost::thread objects running RequestProcessor::run          *)
(*   Manager  the thread running ThreadPool::run                           *)
(*   main     start(), then stop(); it never calls the queue's mutex       *)
(*                                                                         *)
(* Every access to the queue is an action of MultiThreadQueue, so every    *)
(* step of the pool is a step of the queue's most general client or leaves *)
(* the queue alone.                                                        *)
(*                                                                         *)
(* Definitions whose name starts with Faulty are not part of the model:    *)
(* each is the definition after it with a plausible bug, kept to see that  *)
(* the properties notice it.                                               *)
(***************************************************************************)
EXTENDS MultiThreadQueue

CONSTANTS
    Workers, Clients, Manager,
    Requests, Poison,
    mMinThreads, mMaxThreads,
    mMinQueued, mMaxQueued,
    StatsEvery,        \* mStatsInterval / mManageInterval: loops between two statistics
    KilledMod,         \* 2^32 in the code: mBeingKilled is unsigned
    SizeMod,           \* 2^64 in the code: mThreads.size() is a size_t
    MaxCurls,          \* bound on the curl calls one request leads to
    InitCurlMayFail    \* whether curl_easy_init() may return NULL

ASSUME RolesAssumption ==
    /\ Threads = Workers \cup Clients \cup {Manager}
    /\ Workers \cap Clients = {} /\ Manager \notin Workers \cup Clients
ASSUME ItemsAssumption == Items = Requests \cup {Poison} /\ Poison \notin Requests
\* setThreads and setQueue of mod_dup.cc refuse a maximum below the minimum.
ASSUME PoolAssumption ==
    /\ mMinThreads \in Nat /\ mMaxThreads \in Nat /\ mMinThreads <= mMaxThreads
    /\ mMinQueued \in Nat /\ mMaxQueued \in Nat /\ mMinQueued <= mMaxQueued
    /\ mMaxThreads <= Cardinality(Workers)
    /\ StatsEvery \in Nat \ {0} /\ MaxCurls \in Nat
\* A pool has far fewer threads than an unsigned can count.
ASSUME WidthAssumption ==
    /\ KilledMod \in Nat /\ SizeMod \in Nat
    /\ 2 * mMaxThreads < KilledMod /\ KilledMod <= SizeMod
ASSUME InitCurlAssumption == InitCurlMayFail \in BOOLEAN

VARIABLES
    mThreads,        \* the list of worker threads, in the order they were spawned
    mBeingKilled,
    mRunning,
    wpc,             \* where each worker stands
    current,         \* the request a worker is processing
    todo,            \* the curl calls runOne still has to make for it
    mStats,          \* mTimeoutCount and mDuplicatedCount of the RequestProcessor
    spc,             \* where the main thread stands
    mpc,             \* where the manager stands
    it,              \* the iterator of collectKilled(), 1 outside it
    load,            \* how lQueuedPerThread compares with mMaxQueued and mMinQueued
    left,            \* the pills the final loop of run() still has to push
    iterationsSinceStats,
    fate             \* what became of each request (history)

poolVars == <<mThreads, mBeingKilled, mRunning, wpc, current, todo, mStats, spc, mpc,
              it, load, left, iterationsSinceStats, fate>>
managerVars == <<mBeingKilled, mpc, it, load, left, iterationsSinceStats>>
workerVars == <<wpc, current, todo, mStats>>
vars == <<queueVars, poolVars>>

StatNames == {"TmOut", "DupReq"}
WorkerStates == {"none", "init", "idle", "work", "curl", "exited"}
ManagerStates == {"none", "while", "collect", "adjust", "pill", "stats", "counters",
                  "providers", "poison", "lastPill", "collectLast", "finished"}
MainStates == {"constructed", "starting", "up", "stopping", "joining", "stopped"}
NoLoad == [high |-> FALSE, low |-> FALSE]   \* lQueuedPerThread is out of scope
Fates == {"new", "queued", "dropped", "evicted", "taken", "done"}

Init ==
    /\ QueueInit
    /\ mThreads = <<>>
    /\ mBeingKilled = 0
    /\ mRunning = FALSE
    /\ wpc = [w \in Workers |-> "none"]
    /\ current = [w \in Workers |-> NoItem]
    /\ todo = [w \in Workers |-> 0]
    /\ mStats = [s \in StatNames |-> 0]
    /\ spc = "constructed"
    /\ mpc = "none"
    /\ it = 1
    /\ load = NoLoad
    /\ left = 0
    /\ iterationsSinceStats = 0
    /\ fate = [r \in Requests |-> "new"]
-----------------------------------------------------------------------------
(* The main thread. *)

\* newThread(): a boost::thread object that is not in use starts the worker.
newThread ==
    \E w \in Workers :
        /\ wpc[w] = "none"
        /\ wpc' = [wpc EXCEPT ![w] = "init"]
        /\ mThreads' = Append(mThreads, w)

Start ==
    /\ spc = "constructed"
    /\ spc' = "starting"
    /\ mRunning' = TRUE
    /\ SetDropSize(mMaxQueued * mMaxThreads)
    /\ UNCHANGED <<mThreads, workerVars, managerVars, fate>>

StartWorker ==
    /\ spc = "starting" /\ Len(mThreads) < mMinThreads
    /\ newThread
    /\ UNCHANGED <<queueVars, mRunning, current, todo, mStats, spc, managerVars, fate>>

StartManager ==
    /\ spc = "starting" /\ Len(mThreads) = mMinThreads
    /\ spc' = "up"
    /\ mpc' = "while"
    /\ UNCHANGED <<queueVars, mThreads, mBeingKilled, mRunning, workerVars, it, load,
                   left, iterationsSinceStats, fate>>

\* stop(): the pool's flag, then the queue's, then join the manager. The
\* workers are not joined here.
StopPool ==
    /\ spc = "up"
    /\ spc' = "stopping"
    /\ mRunning' = FALSE
    /\ UNCHANGED <<queueVars, mThreads, workerVars, managerVars, fate>>

StopQueueFlag ==
    /\ spc = "stopping"
    /\ spc' = "joining"
    /\ StopQueue
    /\ UNCHANGED <<mThreads, mRunning, workerVars, managerVars, fate>>

JoinManager ==
    /\ spc = "joining" /\ mpc = "finished"
    /\ spc' = "stopped"
    /\ UNCHANGED <<queueVars, mThreads, mRunning, workerVars, managerVars, fate>>

Main == Start \/ StartWorker \/ StartManager \/ StopPool \/ StopQueueFlag \/ JoinManager
-----------------------------------------------------------------------------
(* The request threads: gThreadPool->push(), between childInit and cleanUp. *)

ClientPush(c, r) ==
    /\ spc \in {"up", "stopping", "joining"}
    /\ fate[r] = "new"
    /\ PushBegin(c, r)
    /\ fate' = [fate EXCEPT ![r] = IF Full THEN "dropped" ELSE "queued"]
    /\ UNCHANGED <<mThreads, mRunning, workerVars, spc, managerVars>>

ClientUnlock(c) == PushEnd(c) /\ UNCHANGED poolVars
ClientNotify(c) == NotifyOne(c) /\ UNCHANGED poolVars

Client(c) == (\E r \in Requests : ClientPush(c, r)) \/ ClientUnlock(c) \/ ClientNotify(c)
-----------------------------------------------------------------------------
(* A worker: RequestProcessor::run. *)

InitCurl(w) ==
    /\ wpc[w] = "init"
    /\ \/ wpc' = [wpc EXCEPT ![w] = "idle"]
       \/ InitCurlMayFail /\ wpc' = [wpc EXCEPT ![w] = "exited"]
    /\ UNCHANGED <<queueVars, mThreads, mRunning, current, todo, mStats, spc, managerVars, fate>>

WorkerPop(w) ==
    /\ wpc[w] = "idle"
    /\ PopBegin(w)
    /\ fate' = [r \in Requests |-> IF r = Head(mQueue) THEN "taken" ELSE fate[r]]
    /\ UNCHANGED <<mThreads, mRunning, workerVars, spc, managerVars>>

WorkerWait(w) == wpc[w] = "idle" /\ PopWait(w) /\ UNCHANGED poolVars
WorkerWakeup(w) == SpuriousWakeup(w) /\ UNCHANGED poolVars

\* pop() returned: a pill ends the thread, a request is handed to runOne,
\* which parses it, matches the filters and draws the number of duplicates.
ReceivePill(w) ==
    /\ lObject[w] = Poison
    /\ PopEnd(w)
    /\ wpc' = [wpc EXCEPT ![w] = "exited"]
    /\ UNCHANGED <<mThreads, mRunning, current, todo, mStats, spc, managerVars, fate>>

\* Forgets isPoison().
FaultyReceiveRequest(w) ==
    /\ PopEnd(w)
    /\ wpc' = [wpc EXCEPT ![w] = "work"]
    /\ current' = [current EXCEPT ![w] = lObject[w]]
    /\ \E n \in 0 .. MaxCurls : todo' = [todo EXCEPT ![w] = n]
    /\ UNCHANGED <<mThreads, mRunning, mStats, spc, managerVars, fate>>

ReceiveRequest(w) ==
    /\ lObject[w] # Poison
    /\ PopEnd(w)
    /\ wpc' = [wpc EXCEPT ![w] = "work"]
    /\ current' = [current EXCEPT ![w] = lObject[w]]
    /\ \E n \in 0 .. MaxCurls : todo' = [todo EXCEPT ![w] = n]
    /\ UNCHANGED <<mThreads, mRunning, mStats, spc, managerVars, fate>>

\* runOne looks at stillRunning, the queue's flag, before each curl call.
StartCurl(w) ==
    /\ wpc[w] = "work" /\ todo[w] > 0 /\ mQueueRunning
    /\ wpc' = [wpc EXCEPT ![w] = "curl"]
    /\ UNCHANGED <<queueVars, mThreads, mRunning, current, todo, mStats, spc, managerVars, fate>>

Increment(s) == [mStats EXCEPT ![s] = (@ + 1) % CounterMod]

\* performCurlCall returns, timed out or not.
EndCurl(w) ==
    /\ wpc[w] = "curl"
    /\ wpc' = [wpc EXCEPT ![w] = "work"]
    /\ todo' = [todo EXCEPT ![w] = @ - 1]
    /\ \/ mStats' = Increment("DupReq")
       \/ mStats' = [s \in StatNames |-> Increment(s)[s]]
    /\ UNCHANGED <<queueVars, mThreads, mRunning, current, spc, managerVars, fate>>

\* runOne returns: all calls made, or the queue was stopped.
FinishRequest(w) ==
    /\ wpc[w] = "work" /\ (todo[w] = 0 \/ ~mQueueRunning)
    /\ wpc' = [wpc EXCEPT ![w] = "idle"]
    /\ current' = [current EXCEPT ![w] = NoItem]
    /\ todo' = [todo EXCEPT ![w] = 0]
    /\ fate' = [fate EXCEPT ![current[w]] = "done"]
    /\ UNCHANGED <<queueVars, mThreads, mRunning, mStats, spc, managerVars>>

Worker(w) ==
    \/ InitCurl(w) \/ WorkerPop(w) \/ WorkerWait(w)
    \/ ReceivePill(w) \/ ReceiveRequest(w)
    \/ StartCurl(w) \/ FinishRequest(w)
-----------------------------------------------------------------------------
(* The manager: ThreadPool::run. *)

\* lQueuedPerThread, the queue's length over the number of threads, is read
\* before collectKilled() and used after it. Comparing the quotient with an
\* integer is comparing the products; a quotient by zero threads is infinite
\* for a queue that is not empty and not a number for an empty one.
ReadLoad ==
    /\ mpc = "while" /\ mRunning
    /\ \E n \in SizeOutcomes :
          load' = [high |-> n > mMaxQueued * Len(mThreads),
                   low |-> n < mMinQueued * Len(mThreads)]
    /\ mpc' = "collect"
    /\ UNCHANGED <<queueVars, mThreads, mBeingKilled, mRunning, workerVars, spc, it, left,
                   iterationsSinceStats, fate>>

\* Poisons only the permanent threads.
FaultyLeaveLoop ==
    /\ mpc = "while" /\ ~mRunning
    /\ mpc' = "poison"
    /\ left' = mMinThreads
    /\ UNCHANGED <<queueVars, mThreads, mBeingKilled, mRunning, workerVars, spc, it, load,
                   iterationsSinceStats, fate>>

LeaveLoop ==
    /\ mpc = "while" /\ ~mRunning
    /\ mpc' = "poison"
    /\ left' = Len(mThreads)
    /\ UNCHANGED <<queueVars, mThreads, mBeingKilled, mRunning, workerVars, spc, it, load,
                   iterationsSinceStats, fate>>

\* Erases the thread after the iterator.
FaultyRemoveAt(s, i) == SubSeq(s, 1, i) \o SubSeq(s, i + 2, Len(s))

RemoveAt(s, i) == SubSeq(s, 1, i - 1) \o SubSeq(s, i + 1, Len(s))

Collecting == mpc \in {"collect", "collectLast"} /\ it <= Len(mThreads)

\* Forgets mBeingKilled--.
FaultyJoinWorker ==
    /\ Collecting /\ wpc[mThreads[it]] = "exited"
    /\ wpc' = [wpc EXCEPT ![mThreads[it]] = "none"]
    /\ mThreads' = RemoveAt(mThreads, it)
    /\ UNCHANGED <<queueVars, mBeingKilled, mRunning, current, todo, mStats, spc, mpc, it,
                   load, left, iterationsSinceStats, fate>>

\* timed_join() succeeds on a thread that has ended ...
JoinWorker ==
    /\ Collecting /\ wpc[mThreads[it]] = "exited"
    /\ wpc' = [wpc EXCEPT ![mThreads[it]] = "none"]
    /\ mThreads' = RemoveAt(mThreads, it)
    /\ mBeingKilled' = (mBeingKilled + KilledMod - 1) % KilledMod
    /\ UNCHANGED <<queueVars, mRunning, current, todo, mStats, spc, mpc, it, load, left,
                   iterationsSinceStats, fate>>

\* Joins without a time limit once the loop is left.
FaultyJoinTimesOut ==
    /\ mpc = "collect" /\ Collecting /\ wpc[mThreads[it]] # "exited"
    /\ it' = it + 1
    /\ UNCHANGED <<queueVars, mThreads, mBeingKilled, mRunning, workerVars, spc, mpc, load,
                   left, iterationsSinceStats, fate>>

\* ... and gives up after 10 ms on one that has not.
JoinTimesOut ==
    /\ Collecting /\ wpc[mThreads[it]] # "exited"
    /\ it' = it + 1
    /\ UNCHANGED <<queueVars, mThreads, mBeingKilled, mRunning, workerVars, spc, mpc, load,
                   left, iterationsSinceStats, fate>>

CollectDone ==
    /\ mpc \in {"collect", "collectLast"} /\ it > Len(mThreads)
    /\ mpc' = IF mpc = "collect" THEN "adjust" ELSE "finished"
    /\ it' = 1
    /\ UNCHANGED <<queueVars, mThreads, mBeingKilled, mRunning, workerVars, spc, load,
                   left, iterationsSinceStats, fate>>

ShouldGrow == load.high /\ Len(mThreads) < mMaxThreads
FaultySurvivors == Len(mThreads)
\* mThreads.size() - mBeingKilled, a difference of a size_t and an unsigned.
Survivors == (Len(mThreads) + SizeMod - mBeingKilled) % SizeMod
ShouldShrink == load.low /\ Survivors > mMinThreads

Grow ==
    /\ mpc = "adjust" /\ ShouldGrow
    /\ newThread
    /\ mpc' = "stats"
    /\ load' = NoLoad
    /\ UNCHANGED <<queueVars, mBeingKilled, mRunning, current, todo, mStats, spc, it, left,
                   iterationsSinceStats, fate>>

\* poisonThread() begins: the pill takes the place of the last request of a full queue.
PushPill ==
    /\ PushFrontBegin(Manager, Poison)
    /\ fate' = [r \in Requests |->
                  IF Full /\ r = mQueue[Len(mQueue)] THEN "evicted" ELSE fate[r]]

Shrink ==
    /\ mpc = "adjust" /\ ~ShouldGrow /\ ShouldShrink
    /\ PushPill
    /\ mpc' = "pill"
    /\ load' = NoLoad
    /\ UNCHANGED <<mThreads, mBeingKilled, mRunning, workerVars, spc, it, left,
                   iterationsSinceStats>>

Keep ==
    /\ mpc = "adjust" /\ ~ShouldGrow /\ ~ShouldShrink
    /\ mpc' = "stats"
    /\ load' = NoLoad
    /\ UNCHANGED <<queueVars, mThreads, mBeingKilled, mRunning, workerVars, spc, it, left,
                   iterationsSinceStats, fate>>

UnlockPill == PushEnd(Manager) /\ UNCHANGED poolVars

\* notify_one(), then mBeingKilled++, which only the manager reads.
NotifyPill ==
    /\ mpc \in {"pill", "lastPill"}
    /\ NotifyOne(Manager)
    /\ mBeingKilled' = (mBeingKilled + 1) % KilledMod
    /\ mpc' = IF mpc = "pill" THEN "stats" ELSE "poison"
    /\ UNCHANGED <<mThreads, mRunning, workerVars, spc, it, load, left,
                   iterationsSinceStats, fate>>

SkipStats ==
    /\ mpc = "stats" /\ iterationsSinceStats + 1 < StatsEvery
    /\ iterationsSinceStats' = iterationsSinceStats + 1
    /\ mpc' = "while"
    /\ UNCHANGED <<queueVars, mThreads, mBeingKilled, mRunning, workerVars, spc, it, load,
                   left, fate>>

StartStats ==
    /\ mpc = "stats" /\ iterationsSinceStats + 1 >= StatsEvery
    /\ mpc' = "counters"
    /\ UNCHANGED <<queueVars, mThreads, mBeingKilled, mRunning, workerVars, spc, it, load,
                   left, iterationsSinceStats, fate>>

ReadCounters ==
    /\ mpc = "counters"
    /\ GetCounters
    /\ mpc' = IF gcStep = 5 THEN "providers" ELSE "counters"
    /\ UNCHANGED <<mThreads, mBeingKilled, mRunning, workerVars, spc, it, load, left,
                   iterationsSinceStats, fate>>

\* getTimeoutCount() and getDuplicatedCount(): atomic fetch and clear.
ReadProviders ==
    /\ mpc = "providers"
    /\ mStats' = [s \in StatNames |-> 0]
    /\ iterationsSinceStats' = 0
    /\ mpc' = "while"
    /\ UNCHANGED <<queueVars, mThreads, mBeingKilled, mRunning, wpc, current, todo, spc, it,
                   load, left, fate>>

\* After the loop: one pill per thread in the list, then one collectKilled().
PoisonAll ==
    /\ mpc = "poison" /\ left > 0
    /\ PushPill
    /\ left' = left - 1
    /\ mpc' = "lastPill"
    /\ UNCHANGED <<mThreads, mBeingKilled, mRunning, workerVars, spc, it, load,
                   iterationsSinceStats>>

CollectLast ==
    /\ mpc = "poison" /\ left = 0
    /\ mpc' = "collectLast"
    /\ UNCHANGED <<queueVars, mThreads, mBeingKilled, mRunning, workerVars, spc, it, load,
                   left, iterationsSinceStats, fate>>

Manage ==
    \/ ReadLoad \/ JoinWorker \/ JoinTimesOut \/ CollectDone
    \/ Grow \/ Shrink \/ Keep \/ UnlockPill \/ NotifyPill
    \/ SkipStats \/ StartStats \/ ReadCounters \/ ReadProviders
    \/ LeaveLoop \/ PoisonAll \/ CollectLast
-----------------------------------------------------------------------------
\* stop() has returned and every thread but the main one has ended.
Ended(w) == wpc[w] \in {"none", "exited"}
Terminated ==
    /\ spc = "stopped"
    /\ \A w \in Workers : Ended(w)
    /\ \A c \in Clients : qpc[c] = "out"
    /\ UNCHANGED vars

Next ==
    \/ Main
    \/ Manage
    \/ \E c \in Clients : Client(c)
    \/ \E w \in Workers : Worker(w) \/ EndCurl(w) \/ WorkerWakeup(w)
    \/ Terminated

Spec == Init /\ [][Next]_vars
-----------------------------------------------------------------------------
\* Types.
TypeOK ==
    /\ QueueTypeOK
    /\ mThreads \in Seq(Workers)
    /\ mBeingKilled \in 0 .. KilledMod - 1
    /\ mRunning \in BOOLEAN
    /\ wpc \in [Workers -> WorkerStates]
    /\ current \in [Workers -> Requests \cup {NoItem}]
    /\ todo \in [Workers -> 0 .. MaxCurls]
    /\ mStats \in [StatNames -> CountValues]
    /\ spc \in MainStates
    /\ mpc \in ManagerStates
    /\ it \in Nat \ {0}
    /\ load \in [high : BOOLEAN, low : BOOLEAN]
    /\ left \in Nat
    /\ iterationsSinceStats \in 0 .. StatsEvery - 1
    /\ fate \in [Requests -> Fates]

PillsIn(s) == Cardinality({k \in DOMAIN s : s[k] = Poison})

\* A worker that has taken a pill off the queue and is still in the list.
Poisoned == {w \in Workers : wpc[w] = "exited" \/ lObject[w] = Poison}
\* A worker that will take another object off the queue.
Alive == {w \in Workers : ~Ended(w) /\ lObject[w] # Poison}

\* The manager is in the body of the while loop of run().
InLoop == mpc \in {"while", "collect", "adjust", "pill", "stats", "counters", "providers"}

\* Pills overtake requests: push_front puts a pill before every queued
\* request, and a push never puts a request before a pill.
PillsFirst ==
    \A j \in DOMAIN mQueue : mQueue[j] = Poison => \A i \in 1 .. j : mQueue[i] = Poison

\* As long as the loop runs, mBeingKilled is exactly the number of pills that
\* are queued or swallowed by a thread not yet collected: no pill is evicted
\* by another push_front, none is counted twice, and the unsigned never wraps.
\* Between push_front and mBeingKilled++ one pill is not counted yet.
KillAccounting ==
    InLoop => mBeingKilled + (IF mpc = "pill" THEN 1 ELSE 0)
                = PillsIn(mQueue) + Cardinality(Poisoned)

\* The minimum is kept: the threads in the list that are not being killed
\* are at least mMinThreads once the pool is up, although the decision to
\* kill one uses a load read before collectKilled().
MinimumKept ==
    InLoop => Len(mThreads) >= mMinThreads + PillsIn(mQueue) + Cardinality(Poisoned)

\* The maximum is kept, and the list holds exactly the threads that exist,
\* each once: collectKilled() erases the thread it joined and no other.
ThreadsListed ==
    /\ Len(mThreads) <= mMaxThreads
    /\ \A w \in Workers : wpc[w] # "none" <=> \E k \in DOMAIN mThreads : mThreads[k] = w
    /\ \A j, k \in DOMAIN mThreads : mThreads[j] = mThreads[k] => j = k

\* Once the final loop of run() has pushed its pills there is one for every
\* worker that still has to die, although push_front on a full queue evicts
\* the object at the back, a pill when the queue is all pills.
EnoughPills ==
    mpc \in {"collectLast", "finished"} => Cardinality(Alive) <= PillsIn(mQueue)

\* Nothing is lost or handled twice on the way: a queued request is in the
\* queue once, a taken one is with exactly one worker, and no other request is
\* anywhere in the pool.
InQueue(r) == {k \in DOMAIN mQueue : mQueue[k] = r}
HeldBy(r) == {w \in Workers : current[w] = r \/ lObject[w] = r}
RequestsAccounted ==
    \A r \in Requests :
        /\ Cardinality(InQueue(r)) = (IF fate[r] = "queued" THEN 1 ELSE 0)
        /\ Cardinality(HeldBy(r)) = (IF fate[r] = "taken" THEN 1 ELSE 0)

\* What ThreadPool.hh:88 says of stop(), "Stop the manager thread and all the
\* workers": when it has returned, no worker is running. cleanUp() of
\* mod_dup.cc relies on it: it deletes the pool, its queue and the processor next.
StopStopsWorkers == spc = "stopped" => \A w \in Workers : Ended(w)

\* What ThreadPool.hh:127 says of mMinThreads, "The minimum number of threads
\* in the pool": the running pool never has fewer.
MinimumThreads == InLoop => Len(mThreads) >= mMinThreads
-----------------------------------------------------------------------------
\* The pool seen as the service it promises: pills, threads and the mutex are
\* invisible, and a popped request counts as taken once it has left the deque.
\* The requests are what follows the pills (PillsFirst).
RequestsOf(q) == SubSeq(q, PillsIn(q) + 1, Len(q))

Service == INSTANCE DupService WITH
    fifo <- RequestsOf(mQueue),
    open <- spc \notin {"stopping", "joining", "stopped"},
    Capacity <- mMaxQueued * mMaxThreads,
    Reserve <- mMaxThreads - mMinThreads

\* The pool implements the bounded FIFO of DupService: pills overtake requests
\* but never reorder them, an accepted request is given to one worker only, and
\* while the pool is up a request is dropped by push or evicted by a pill only
\* when no more than the places of the pills in flight are free.
ImplementsService == Service!ServiceSpec
-----------------------------------------------------------------------------
(* Fairness: the operating system runs every thread that can run. A request  *)
(* thread finishes the push it began; nothing forces requests to arrive or   *)
(* stop() to be called. That a curl call ends is an assumption of its own    *)
(* (CURLOPT_TIMEOUT_MS, unless the timeout is left at 0).                    *)

Scheduling ==
    /\ WF_vars(Start \/ StartWorker \/ StartManager \/ StopQueueFlag \/ JoinManager)
    /\ WF_vars(Manage)
    /\ \A c \in Clients : WF_vars(ClientUnlock(c) \/ ClientNotify(c))
    /\ \A w \in Workers : WF_vars(Worker(w))
CurlCallsEnd == \A w \in Workers : WF_vars(EndCurl(w))

LiveSpec == Spec /\ Scheduling

\* stop() returns, even when a curl call never ends: the manager leaves its
\* loop, finds the mutex, and waits at most 10 ms for each worker.
StopReturns == spc = "stopping" ~> spc = "stopped"

\* Once stop() is called every worker ends, provided that curl calls end: the
\* pills reach the workers that wait, and the ones that work skip the calls
\* they have left.
WorkersEnd == CurlCallsEnd => (spc = "stopping" ~> \A w \in Workers : Ended(w))

\* An accepted request does not stay in the queue while the pool is up and curl
\* calls end: a worker takes it (or a pill evicts it), however the manager
\* resizes the pool.
RequestsServed ==
    CurlCallsEnd =>
        \A r \in Requests : fate[r] = "queued" ~> fate[r] # "queued" \/ spc # "up"
=============================================================================
