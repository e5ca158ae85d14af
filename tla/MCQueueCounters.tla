-------------------------- MODULE MCQueueCounters ---------------------------
(***************************************************************************)
(* The queue's statistics against what really happened: the queue under    *)
(* its most general client, with two history variables.                    *)
(***************************************************************************)
EXTENDS MultiThreadQueue

CONSTANT MaxEvents    \* bound on the events counted by each counter

VARIABLES
    actual,      \* how often each event has happened
    reported     \* the sum of what getCounters() has returned for it

Happened ==
    actual' = [c \in CounterNames |->
                 IF c = loaded.counter THEN actual[c] + 1 ELSE actual[c]]
Report(c) == reported' = [reported EXCEPT ![c] = @ + mCount[c]]

CountersInit ==
    /\ QueueInit
    /\ actual = [c \in CounterNames |-> 0]
    /\ reported = [c \in CounterNames |-> 0]

CountersNext ==
    \/ \E t \in Threads :
          \/ /\ \/ \E i \in Items : PushBegin(t, i) \/ PushFrontBegin(t, i)
                \/ NotifyOne(t) \/ PopBegin(t) \/ PopWait(t)
             /\ UNCHANGED <<actual, reported>>
          \/ (PushEnd(t) \/ PopEnd(t)) /\ Happened /\ UNCHANGED reported
    \/ Unused /\ mDropSize = 0 /\ SetDropSize(1) /\ UNCHANGED <<actual, reported>>
    \/ GetCountersRead /\ Report(CounterOrder[gcStep + 1]) /\ UNCHANGED actual
    \/ GetCountersReset /\ UNCHANGED <<actual, reported>>

Bounded == \A c \in CounterNames : actual'[c] <= MaxEvents /\ reported'[c] <= MaxEvents

CountersSpec ==
    CountersInit /\ [][CountersNext /\ Bounded]_<<queueVars, actual, reported>>

\* What MultiThreadQueue.hh:73-76 says of getCounters(): it returns "the number
\* of elements pushed [popped, dropped] since last call". Between two calls,
\* what was reported and what is still counted add up to what happened.
CountersExact ==
    gcStep = 0 /\ mMutex = NoThread =>
        \A c \in CounterNames : reported[c] + mCount[c] = actual[c]
=============================================================================
