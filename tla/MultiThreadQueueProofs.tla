----------------------- MODULE MultiThreadQueueProofs -----------------------
(***************************************************************************)
(* Theorems about the queue, for any number of threads, any objects and    *)
(* any drop size.                                                          *)
(***************************************************************************)
EXTENDS MultiThreadQueue, FiniteSetTheorems, SequenceTheorems, TLAPS

\* A counter stored modulo CounterMod is a counter value.
LEMMA ModuloInRange ==
    ASSUME NEW n \in Nat, NEW m \in Nat \ {0}
    PROVE  n % m \in 0 .. m - 1
OBVIOUS

\* An object put before a sequence.
LEMMA ConsProperties ==
    ASSUME NEW S, NEW s \in Seq(S), NEW i \in S
    PROVE  /\ <<i>> \o s \in Seq(S)
           /\ Len(<<i>> \o s) = Len(s) + 1
           /\ \A k \in 1 .. Len(s) + 1 : (<<i>> \o s)[k] = IF k = 1 THEN i ELSE s[k - 1]
<1>1. <<i>> \in Seq(S) /\ Len(<<i>>) = 1
  OBVIOUS
<1>2. Len(s) \in Nat
  OBVIOUS
<1> QED BY <1>1, <1>2, ConcatProperties

\* A sequence without its last object: pop_back().
LEMMA FrontProperties ==
    ASSUME NEW S, NEW s \in Seq(S), Len(s) > 0
    PROVE  /\ SubSeq(s, 1, Len(s) - 1) \in Seq(S)
           /\ Len(SubSeq(s, 1, Len(s) - 1)) = Len(s) - 1
           /\ \A k \in 1 .. Len(s) - 1 : SubSeq(s, 1, Len(s) - 1)[k] = s[k]
<1> DEFINE n == Len(s) - 1
<1>1. n \in Int /\ 1 \in Int /\ n >= 0
  OBVIOUS
<1>2. \A k \in 1 .. n : s[k] \in S
  OBVIOUS
<1>3. /\ SubSeq(s, 1, n) \in Seq(S)
      /\ Len(SubSeq(s, 1, n)) = IF 1 <= n THEN n - 1 + 1 ELSE 0
      /\ \A k \in 1 .. n - 1 + 1 : SubSeq(s, 1, n)[k] = s[1 + k - 1]
  <2> HIDE DEF n
  <2> QED BY <1>1, <1>2, SubSeqProperties
<1>4. Len(SubSeq(s, 1, n)) = n /\ \A k \in 1 .. n : SubSeq(s, 1, n)[k] = s[k]
  <2> HIDE DEF n
  <2> QED BY <1>1, <1>3
<1> QED BY <1>3, <1>4

\* What push_front() does to the deque.
LEMMA PushFrontQueue ==
    ASSUME QueueTypeOK, NEW i \in Items, PushFrontEvicts(i) \/ PushFrontFits(i)
    PROVE  /\ mQueue' \in Seq(Items)
           /\ Full => Len(mQueue') = Len(mQueue)
           /\ ~Full => Len(mQueue') = Len(mQueue) + 1
<1>1. mQueue \in Seq(Items) /\ Len(mQueue) \in Nat /\ mDropSize \in Nat
  BY DEF QueueTypeOK
<1>2. CASE PushFrontEvicts(i)
  <2>1. Full /\ Len(mQueue) > 0
    BY <1>1, <1>2 DEF PushFrontEvicts, Full
  <2>2. mQueue' = <<i>> \o SubSeq(mQueue, 1, Len(mQueue) - 1)
    BY <1>2 DEF PushFrontEvicts
  <2>3. /\ SubSeq(mQueue, 1, Len(mQueue) - 1) \in Seq(Items)
        /\ Len(SubSeq(mQueue, 1, Len(mQueue) - 1)) = Len(mQueue) - 1
    BY <1>1, <2>1, FrontProperties
  <2>4. /\ mQueue' \in Seq(Items)
        /\ Len(mQueue') = Len(SubSeq(mQueue, 1, Len(mQueue) - 1)) + 1
    BY <2>2, <2>3, ConsProperties
  <2> QED BY <1>1, <2>1, <2>3, <2>4
<1>3. CASE PushFrontFits(i)
  BY <1>1, <1>3, ConsProperties DEF PushFrontFits
<1> QED BY <1>2, <1>3

\* Entering and leaving a critical section, and loading a counter, keep types.
LEMMA EnterTypeOK ==
    ASSUME QueueTypeOK, NEW t \in Threads, NEW state \in QueueStates, Enter(t, state)
    PROVE  mMutex' \in Threads \cup {NoThread} /\ qpc' \in [Threads -> QueueStates]
BY DEF QueueTypeOK, Enter

LEMMA LeaveTypeOK ==
    ASSUME QueueTypeOK, NEW t \in Threads, NEW state \in QueueStates, Leave(t, state)
    PROVE  /\ mMutex' \in Threads \cup {NoThread}
           /\ qpc' \in [Threads -> QueueStates]
           /\ mCount' \in [CounterNames -> CountValues]
           /\ loaded' \in Increments
<1>1. loaded' \in Increments
  BY CounterModAssumption DEF Leave, Store, NoBump, Increments, CountValues
<1>2. (loaded.value + 1) % CounterMod \in CountValues
  <2>1. loaded.value + 1 \in Nat
    BY CounterModAssumption DEF QueueTypeOK, Increments, CountValues
  <2> QED BY <2>1, ModuloInRange, CounterModAssumption DEF CountValues
<1>3. mCount' \in [CounterNames -> CountValues]
  BY <1>2 DEF QueueTypeOK, Leave, Store
<1> QED BY <1>1, <1>3 DEF QueueTypeOK, Leave

LEMMA LoadTypeOK ==
    ASSUME QueueTypeOK, NEW c \in CounterNames, Load(c)
    PROVE  loaded' \in Increments
BY DEF QueueTypeOK, Load, Increments

\* Types are kept by every call any thread can make.
LEMMA QueueTypeStep == QueueTypeOK /\ [QueueNext]_queueVars => QueueTypeOK'
<1> SUFFICES ASSUME QueueTypeOK, [QueueNext]_queueVars PROVE QueueTypeOK'
  OBVIOUS
<1> USE DEF statVars
<1>1. ASSUME NEW t \in Threads, NEW i \in Items, PushBegin(t, i) PROVE QueueTypeOK'
  <2>1. mQueue' \in Seq(Items)
    BY <1>1 DEF PushBegin, PushAccepts, PushDrops, QueueTypeOK
  <2>2. loaded' \in Increments
    BY <1>1, LoadTypeOK DEF PushBegin, PushAccepts, PushDrops, CounterNames
  <2>3. mMutex' \in Threads \cup {NoThread} /\ qpc' \in [Threads -> QueueStates]
    BY <1>1, EnterTypeOK DEF PushBegin, QueueStates
  <2> QED BY <1>1, <2>1, <2>2, <2>3 DEF PushBegin, QueueTypeOK
<1>2. ASSUME NEW t \in Threads, NEW i \in Items, PushFrontBegin(t, i) PROVE QueueTypeOK'
  <2>1. mQueue' \in Seq(Items)
    BY <1>2, PushFrontQueue DEF PushFrontBegin
  <2>2. loaded' \in Increments
    BY <1>2, LoadTypeOK
    DEF PushFrontBegin, PushFrontEvicts, PushFrontFits, CounterNames, QueueTypeOK
  <2>3. mMutex' \in Threads \cup {NoThread} /\ qpc' \in [Threads -> QueueStates]
    BY <1>2, EnterTypeOK DEF PushFrontBegin, QueueStates
  <2> QED BY <1>2, <2>1, <2>2, <2>3 DEF PushFrontBegin, QueueTypeOK
<1>3. ASSUME NEW t \in Threads, PushEnd(t) PROVE QueueTypeOK'
  BY <1>3, LeaveTypeOK DEF PushEnd, QueueStates, QueueTypeOK
<1>4. ASSUME NEW t \in Threads, NotifyOne(t) PROVE QueueTypeOK'
  <2>1. qpc' \in [Threads -> QueueStates]
    BY <1>4 DEF NotifyOne, Waiting, QueueStates, QueueTypeOK
  <2> QED BY <1>4, <2>1 DEF NotifyOne, QueueTypeOK
<1>5. ASSUME NEW t \in Threads, PopBegin(t) PROVE QueueTypeOK'
  <2>1. mQueue' \in Seq(Items) /\ lObject' \in [Threads -> Items \cup {NoItem}]
    BY <1>5 DEF PopBegin, QueueTypeOK
  <2>2. loaded' \in Increments
    BY <1>5, LoadTypeOK DEF PopBegin, CounterNames
  <2>3. mMutex' \in Threads \cup {NoThread} /\ qpc' \in [Threads -> QueueStates]
    BY <1>5, EnterTypeOK DEF PopBegin, QueueStates
  <2> QED BY <1>5, <2>1, <2>2, <2>3 DEF PopBegin, QueueTypeOK
<1>6. ASSUME NEW t \in Threads, PopWait(t) PROVE QueueTypeOK'
  BY <1>6 DEF PopWait, QueueTypeOK, QueueStates
<1>7. ASSUME NEW t \in Threads, SpuriousWakeup(t) PROVE QueueTypeOK'
  BY <1>7 DEF SpuriousWakeup, QueueTypeOK, QueueStates
<1>8. ASSUME NEW t \in Threads, PopEnd(t) PROVE QueueTypeOK'
  <2>1. lObject' \in [Threads -> Items \cup {NoItem}]
    BY <1>8 DEF PopEnd, QueueTypeOK
  <2> QED BY <1>8, <2>1, LeaveTypeOK DEF PopEnd, QueueStates, QueueTypeOK
<1>9. ASSUME NEW n \in Nat, SetDropSize(n) PROVE QueueTypeOK'
  BY <1>9 DEF SetDropSize, QueueTypeOK
<1>10. ASSUME StopQueue PROVE QueueTypeOK'
  BY <1>10 DEF StopQueue, QueueTypeOK
<1>11. ASSUME GetCountersRead PROVE QueueTypeOK'
  BY <1>11 DEF GetCountersRead, CounterOrder, CounterNames, QueueTypeOK
<1>12. ASSUME GetCountersReset PROVE QueueTypeOK'
  <2>1. CounterOrder[gcStep + 1] \in CounterNames
    BY <1>12 DEF GetCountersReset, CounterOrder, CounterNames
  <2>2. mCount' \in [CounterNames -> CountValues]
    BY <1>12, <2>1, CounterModAssumption DEF GetCountersReset, QueueTypeOK, CountValues
  <2>3. gcStep' \in 0 .. 5
    BY <1>12 DEF GetCountersReset, QueueTypeOK
  <2> QED BY <1>12, <2>2, <2>3 DEF GetCountersReset, QueueTypeOK
<1>13. CASE UNCHANGED queueVars
  BY <1>13 DEF queueVars, QueueTypeOK
<1> QED
  BY <1>1, <1>2, <1>3, <1>4, <1>5, <1>6, <1>7, <1>8, <1>9, <1>10, <1>11, <1>12, <1>13
  DEF QueueNext, GetCounters

LEMMA QueueTypeInit == QueueInit => QueueTypeOK
BY CounterModAssumption
DEF QueueInit, QueueTypeOK, NoBump, Increments, CountValues, CounterNames, QueueStates

\* Type correctness of the queue under any client.
THEOREM QueueTypeCorrect == QueueSpec => []QueueTypeOK
BY QueueTypeInit, QueueTypeStep, PTL DEF QueueSpec
-----------------------------------------------------------------------------
\* The queue keeps within its drop size whatever is pushed, to either end.
LEMMA QueueBoundedStep ==
    QueueTypeOK /\ QueueBounded /\ [QueueNext]_queueVars => QueueBounded'
<1> SUFFICES ASSUME QueueTypeOK, QueueBounded, [QueueNext]_queueVars PROVE QueueBounded'
  OBVIOUS
<1> USE DEF QueueBounded
<1>1. mQueue \in Seq(Items) /\ Len(mQueue) \in Nat /\ mDropSize \in Nat
  BY DEF QueueTypeOK
<1>2. ASSUME NEW t \in Threads, NEW i \in Items, PushBegin(t, i) PROVE QueueBounded'
  BY <1>1, <1>2 DEF PushBegin, PushAccepts, PushDrops, Full
<1>3. ASSUME NEW t \in Threads, NEW i \in Items, PushFrontBegin(t, i) PROVE QueueBounded'
  <2>1. /\ Full => Len(mQueue') = Len(mQueue)
        /\ ~Full => Len(mQueue') = Len(mQueue) + 1
    BY <1>3, PushFrontQueue DEF PushFrontBegin
  <2> QED BY <1>1, <1>3, <2>1 DEF PushFrontBegin, Full
<1>4. ASSUME NEW t \in Threads, PopBegin(t) PROVE QueueBounded'
  <2>1. Len(mQueue') = Len(mQueue) - 1
    BY <1>1, <1>4 DEF PopBegin
  <2> QED BY <1>1, <1>4, <2>1 DEF PopBegin
<1>5. ASSUME NEW n \in Nat, Unused, SetDropSize(n) PROVE QueueBounded'
  BY <1>5 DEF Unused, SetDropSize
<1>6. ASSUME UNCHANGED <<mQueue, mDropSize>> PROVE QueueBounded'
  BY <1>6
<1> QED
  BY <1>2, <1>3, <1>4, <1>5, <1>6
  DEF QueueNext, PushEnd, NotifyOne, PopWait, SpuriousWakeup, PopEnd, StopQueue,
      GetCounters, GetCountersRead, GetCountersReset, queueVars

\* The queue is bounded by its drop size (QueueBounded) under any client: a full
\* queue refuses a push and makes room before a push_front.
THEOREM QueueIsBounded == QueueSpec => []QueueBounded
<1>1. QueueInit => QueueBounded
  BY DEF QueueInit, QueueBounded
<1> QED BY <1>1, QueueBoundedStep, QueueTypeCorrect, PTL DEF QueueSpec
-----------------------------------------------------------------------------
\* Wakers is finite, so its elements can be counted.
LEMMA WakersFinite == IsFiniteSet(Wakers) /\ Cardinality(Wakers) \in Nat
<1>1. Wakers \in SUBSET Threads
  BY DEF Wakers
<1> QED BY <1>1, ThreadsAssumption, FS_Subset, FS_CardinalityType

\* A step that takes nothing from Wakers but its own thread, and puts another
\* thread in, keeps the count.
LEMMA WakersSwap ==
    ASSUME QueueTypeOK, NEW t \in Threads, NEW w \in Waiting, qpc[t] = "notify",
           qpc' = [qpc EXCEPT ![t] = "out", ![w] = "woken"]
    PROVE  Cardinality(Wakers') = Cardinality(Wakers)
<1>1. t \in Wakers /\ w \in Threads /\ w \notin Wakers
  BY DEF Waiting, Wakers
<1>2. Wakers' = (Wakers \ {t}) \cup {w}
  BY <1>1 DEF Wakers, Waiting, QueueTypeOK
<1>3. IsFiniteSet(Wakers \ {t}) /\ Cardinality(Wakers \ {t}) = Cardinality(Wakers) - 1
  BY <1>1, WakersFinite, FS_RemoveElement
<1>4. Cardinality(Wakers') = Cardinality(Wakers \ {t}) + 1
  BY <1>1, <1>2, <1>3, FS_AddElement
<1> QED BY <1>3, <1>4, WakersFinite

\* The thread that enters a push becomes a waker.
LEMMA WakersGrow ==
    ASSUME QueueTypeOK, NEW t \in Threads, qpc[t] = "out", Enter(t, "pushing")
    PROVE  Waiting' = Waiting /\ Cardinality(Wakers') = Cardinality(Wakers) + 1
<1>1. Waiting' = Waiting /\ t \notin Wakers /\ Wakers' = Wakers \cup {t}
  BY DEF Waiting, Wakers, Enter, QueueTypeOK
<1> QED BY <1>1, WakersFinite, FS_AddElement

\* The inductive step of NoLostWakeup: the only steps that make the queue longer
\* add a waker, a notification turns a waker into another one as long as a
\* thread waits, and a thread starts to wait only when the queue is empty.
LEMMA NoLostWakeupStep ==
    QueueTypeOK /\ NoLostWakeup /\ [QueueNext]_queueVars => NoLostWakeup'
<1> SUFFICES ASSUME QueueTypeOK, NoLostWakeup, [QueueNext]_queueVars PROVE NoLostWakeup'
  OBVIOUS
<1> USE DEF NoLostWakeup
<1>1. mQueue \in Seq(Items) /\ Len(mQueue) \in Nat /\ qpc \in [Threads -> QueueStates]
  BY DEF QueueTypeOK
<1>2. Cardinality(Wakers) \in Nat /\ IsFiniteSet(Wakers)
  BY WakersFinite
<1>3. ASSUME NEW t \in Threads, NEW i \in Items, PushBegin(t, i) PROVE NoLostWakeup'
  <2>1. Len(mQueue') <= Len(mQueue) + 1 /\ Len(mQueue') \in Nat
    BY <1>1, <1>3 DEF PushBegin, PushAccepts, PushDrops
  <2>2. Waiting' = Waiting /\ Cardinality(Wakers') = Cardinality(Wakers) + 1
    BY <1>3, WakersGrow DEF PushBegin
  <2> QED BY <1>1, <1>2, <2>1, <2>2
<1>4. ASSUME NEW t \in Threads, NEW i \in Items, PushFrontBegin(t, i) PROVE NoLostWakeup'
  <2>1. Len(mQueue') <= Len(mQueue) + 1 /\ Len(mQueue') \in Nat
    BY <1>1, <1>4, PushFrontQueue DEF PushFrontBegin
  <2>2. Waiting' = Waiting /\ Cardinality(Wakers') = Cardinality(Wakers) + 1
    BY <1>4, WakersGrow DEF PushFrontBegin
  <2> QED BY <1>1, <1>2, <2>1, <2>2
<1>5. ASSUME NEW t \in Threads, PushEnd(t) PROVE NoLostWakeup'
  <2>1. Waiting' = Waiting /\ Wakers' = Wakers /\ mQueue' = mQueue
    BY <1>1, <1>5 DEF PushEnd, Leave, Waiting, Wakers
  <2> QED BY <2>1
<1>6. ASSUME NEW t \in Threads, NotifyOne(t) PROVE NoLostWakeup'
  <2>1. CASE Waiting = {}
    <3>1. Waiting' = {}
      BY <1>1, <1>6, <2>1 DEF NotifyOne, Waiting
    <3> QED BY <3>1
  <2>2. CASE Waiting # {}
    <3>1. PICK w \in Waiting : qpc' = [qpc EXCEPT ![t] = "out", ![w] = "woken"]
      BY <1>6, <2>2 DEF NotifyOne
    <3>2. Cardinality(Wakers') = Cardinality(Wakers)
      BY <1>6, <3>1, WakersSwap DEF NotifyOne
    <3> QED BY <1>6, <2>2, <3>2 DEF NotifyOne
  <2> QED BY <2>1, <2>2
<1>7. ASSUME NEW t \in Threads, PopBegin(t) PROVE NoLostWakeup'
  <2>1. Len(mQueue') = Len(mQueue) - 1
    BY <1>1, <1>7 DEF PopBegin
  <2>2. Waiting' = Waiting
    BY <1>1, <1>7 DEF PopBegin, Enter, Waiting
  <2>3. Wakers' = Wakers \ {t}
    BY <1>1, <1>7 DEF PopBegin, Enter, Wakers
  <2>4. Cardinality(Wakers \ {t}) = IF t \in Wakers THEN Cardinality(Wakers) - 1
                                                   ELSE Cardinality(Wakers)
    BY <1>2, FS_RemoveElement
  <2> QED BY <1>1, <1>2, <2>1, <2>2, <2>3, <2>4
<1>8. ASSUME NEW t \in Threads, PopWait(t) PROVE NoLostWakeup'
  <2>1. Len(mQueue') = 0
    BY <1>8 DEF PopWait
  <2>2. Wakers' \in SUBSET Threads
    BY DEF Wakers
  <2>3. Cardinality(Wakers') \in Nat
    BY <2>2, ThreadsAssumption, FS_Subset, FS_CardinalityType
  <2> QED BY <2>1, <2>3
<1>9. ASSUME NEW t \in Threads, SpuriousWakeup(t) PROVE NoLostWakeup'
  <2>1. Waiting' \subseteq Waiting /\ t \notin Wakers /\ Wakers' = Wakers \cup {t}
    BY <1>1, <1>9 DEF SpuriousWakeup, Waiting, Wakers
  <2>2. Cardinality(Wakers') = Cardinality(Wakers) + 1
    BY <1>2, <2>1, FS_AddElement
  <2> QED BY <1>1, <1>2, <1>9, <2>1, <2>2 DEF SpuriousWakeup
<1>10. ASSUME NEW t \in Threads, PopEnd(t) PROVE NoLostWakeup'
  <2>1. Waiting' = Waiting /\ Wakers' = Wakers /\ mQueue' = mQueue
    BY <1>1, <1>10 DEF PopEnd, Leave, Waiting, Wakers
  <2> QED BY <2>1
<1>11. ASSUME UNCHANGED <<mQueue, qpc>> PROVE NoLostWakeup'
  BY <1>11 DEF Waiting, Wakers
<1> QED
  BY <1>3, <1>4, <1>5, <1>6, <1>7, <1>8, <1>9, <1>10, <1>11
  DEF QueueNext, SetDropSize, StopQueue, GetCounters, GetCountersRead, GetCountersReset,
      queueVars

\* No wakeup is lost (NoLostWakeup) for any number of producers and consumers,
\* although notify_one() is called outside the mutex and wakeups may be spurious.
THEOREM NoWakeupIsLost == QueueSpec => []NoLostWakeup
<1>1. QueueInit => NoLostWakeup
  BY DEF QueueInit, NoLostWakeup, Waiting
<1> QED BY <1>1, NoLostWakeupStep, QueueTypeCorrect, PTL DEF QueueSpec
=============================================================================
