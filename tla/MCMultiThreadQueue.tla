------------------------- MODULE MCMultiThreadQueue -------------------------
(***************************************************************************)
(* The queue under its most general client, on a small instance.           *)
(***************************************************************************)
EXTENDS MultiThreadQueue

CONSTANTS
    DropSizes,    \* the drop sizes tried, 0 (no maximum) among them
    MaxQueue      \* bound on the length of a queue without maximum

\* The most general client with the drop sizes and the length bounded.
MCQueueNext ==
    /\ \/ \E t \in Threads :
             \/ \E i \in Items : PushBegin(t, i) \/ PushFrontBegin(t, i)
             \/ PushEnd(t) \/ NotifyOne(t)
             \/ PopBegin(t) \/ PopWait(t) \/ SpuriousWakeup(t) \/ PopEnd(t)
       \/ \E n \in DropSizes : Unused /\ SetDropSize(n)
       \/ StopQueue
       \/ GetCounters
    /\ Len(mQueue') <= MaxQueue

MCQueueSpec == QueueInit /\ [][MCQueueNext]_queueVars
=============================================================================
