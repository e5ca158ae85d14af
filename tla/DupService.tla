----------------------------- MODULE DupService -----------------------------
(***************************************************************************)
(* What the pool promises the request threads, without threads, mutex or   *)
(* pills: a bounded queue that hands each accepted request over once, in   *)
(* the order of acceptance, and that refuses a request or gives up the one *)
(* accepted last only when it is crowded.                                  *)
(***************************************************************************)
EXTENDS Naturals, Sequences

CONSTANTS
    Requests,
    Capacity,    \* 0 means no bound
    Reserve      \* the places that the pool's own pills may take while it is open

VARIABLES
    fifo,    \* the requests accepted and not yet taken, oldest first
    fate,    \* what became of each request
    open     \* FALSE from the moment the service is told to stop

serviceVars == <<fifo, fate, open>>

ServiceInit ==
    /\ fifo = <<>>
    /\ fate = [r \in Requests |-> "new"]
    /\ open = TRUE

Room == Capacity = 0 \/ Len(fifo) < Capacity

\* A service that is stopping may fill its queue with pills.
Crowded == Capacity > 0 /\ (open => Len(fifo) + Reserve >= Capacity)

Move(r, from, to) == fate[r] = from /\ fate' = [fate EXCEPT ![r] = to]

Accept(r) == Room /\ Move(r, "new", "queued") /\ fifo' = Append(fifo, r) /\ UNCHANGED open
Refuse(r) == Crowded /\ Move(r, "new", "dropped") /\ UNCHANGED <<fifo, open>>
Evict ==
    /\ fifo # <<>> /\ Crowded
    /\ Move(fifo[Len(fifo)], "queued", "evicted")
    /\ fifo' = SubSeq(fifo, 1, Len(fifo) - 1)
    /\ UNCHANGED open
Take ==
    /\ fifo # <<>>
    /\ Move(Head(fifo), "queued", "taken")
    /\ fifo' = Tail(fifo)
    /\ UNCHANGED open
Finish(r) == Move(r, "taken", "done") /\ UNCHANGED <<fifo, open>>
Close == open /\ open' = FALSE /\ UNCHANGED <<fifo, fate>>

ServiceNext ==
    \/ \E r \in Requests : Accept(r) \/ Refuse(r) \/ Finish(r)
    \/ Evict \/ Take \/ Close

ServiceSpec == ServiceInit /\ [][ServiceNext]_serviceVars
=============================================================================
