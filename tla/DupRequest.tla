----------------------------- MODULE DupRequest -----------------------------
(***************************************************************************)
(* One request on its way through mod_dup: the three Apache filters of     *)
(* src/src/filters_dup.cc, which collect it in a RequestInfo and hand it   *)
(* over once, the worker (or, synchronously, the request thread) that      *)
(* sends it to the destinations (runOne and performCurlCall of             *)
(* RequestProcessor.cc), and the server that receives the duplicate and    *)
(* may duplicate it again.                                                 *)
(*                                                                         *)
(* Bodies are sequences of buckets, numbered as they are produced, so that *)
(* a lost, repeated or reordered bucket is seen; metadata buckets other    *)
(* than the end of stream are skipped by the filters and left out.         *)
(* Substitutions rewrite the text of a duplicate, not which buckets it was *)
(* made of. The filters are inserted only at locations where Dup is        *)
(* active, so their tests of dirName and per_dir_config never fail; and    *)
(* the RequestInfo is never taken out of the request, so the branch for a  *)
(* filter context without one is never taken.                              *)
(*                                                                         *)
(* Definitions whose name starts with Faulty are not part of the model:    *)
(* each is the definition after it with a plausible bug, kept to see that  *)
(* the properties notice it.                                               *)
(***************************************************************************)
EXTENDS Naturals, Sequences

CONSTANTS
    Highest,        \* the highest duplication types of the locations considered
    MaxBody,        \* bound on the buckets of the request body
    MaxBuckets,     \* bound on the data buckets of a response brigade
    MaxBrigades,    \* bound on the brigades of a response
    MaxCalls,       \* bound on the curl calls of one request
    MaxHops         \* bound on the length of a chain of duplications

ASSUME HighestAssumption == Highest \subseteq 0 .. 3
ASSUME BoundsAssumption ==
    {MaxBody, MaxBuckets, MaxBrigades, MaxCalls, MaxHops} \subseteq Nat

VARIABLES
    conf,         \* the DupConf of the location
    xDupLog,      \* whether the request has the header X_DUP_LOG
    dupCount,     \* its header X-DUP-COUNT, 0 when it has none
    hops,         \* how many duplications led to this request (history)
    bodyLen,      \* the number of buckets of its body
    nextIn,       \* the first bucket of it that Apache has not read yet
    inEos,        \* the end of the body was read
    readFailed,   \* a bucket of the body could not be read (history)
    ctxIn, ctxBody, ctxHeaders,   \* ctx of the filters: none, the RequestInfo or -1
    info,         \* the RequestInfo, None before makeRequestInfo
    answer,       \* the readable buckets of the response so far (history)
    respEos,      \* the end of the response was produced
    brigades,     \* how many brigades the response has had
    pipe,         \* the brigades between the body and the headers filter
    place,        \* who has the RequestInfo to duplicate
    apc,          \* what the request thread is doing
    todo,         \* the curl calls runOne still has to make
    sent,         \* the duplicate sent last, the empty set before (history)
    outcome,      \* the true result of the curl calls (history)
    initiated,    \* how often the request was handed over (history)
    reply         \* the headers mod_dup added to the response

inputVars == <<bodyLen, nextIn, inEos, readFailed, ctxIn>>
responseVars == <<answer, respEos, brigades>>
requestVars == <<conf, xDupLog, dupCount, hops>>
curlVars == <<todo, sent, outcome>>
vars == <<requestVars, inputVars, ctxBody, ctxHeaders, info, responseVars, pipe, place,
          apc, curlVars, initiated, reply>>

\* eDuplicationType, in its order.
NONE == 0
HEADER_ONLY == 1
COMPLETE_REQUEST == 2
REQUEST_WITH_ANSWER == 3

Confs == [highest : Highest, synchronous : BOOLEAN, substitutions : BOOLEAN]

None == [made |-> FALSE]
\* makeRequestInfo: mCurlCompResponseStatus is -1, written "unset".
NewInfo == [made |-> TRUE, mBody |-> <<>>, mAnswer |-> <<>>, mHeadersOut |-> 0,
            mEOS |-> FALSE, counts |-> <<>>, log |-> FALSE, status |-> "unset",
            comp |-> FALSE]
reqInfo == IF info.made THEN info ELSE NewInfo

NoReply == [X_DUP_LOG |-> FALSE, compare |-> "none"]
NoOutcome == [status |-> "unset", comp |-> FALSE]

Init ==
    /\ conf \in Confs /\ xDupLog \in BOOLEAN /\ dupCount = 0 /\ hops = 0
    /\ bodyLen \in 0 .. MaxBody
    /\ nextIn = 1 /\ inEos = FALSE /\ readFailed = FALSE
    /\ ctxIn = "null" /\ ctxBody = "null" /\ ctxHeaders = "null"
    /\ info = None
    /\ answer = <<>> /\ respEos = FALSE /\ brigades = 0 /\ pipe = 0
    /\ place = "request" /\ apc = "handler"
    /\ todo = 0 /\ sent = {} /\ outcome = NoOutcome
    /\ initiated = 0
    /\ reply = NoReply
-----------------------------------------------------------------------------
(* The input filter. The handler that reads the body calls it, before, while  *)
(* or after it writes the response; after an error it may call again. Once    *)
(* ctx is -1 the filter returns success and reads nothing.                    *)

Buckets(first, n) == [i \in 1 .. n |-> first + i - 1]

\* ap_get_brigade takes n buckets off the connection, and the filter appends the first k.
Input(n, k) ==
    /\ apc = "handler" /\ ~inEos /\ ctxIn # "-1"
    /\ nextIn + n <= bodyLen + 1
    /\ nextIn' = nextIn + n
    /\ info' = [reqInfo EXCEPT !.mBody = @ \o Buckets(nextIn, k)]
    /\ UNCHANGED <<requestVars, bodyLen, ctxBody, ctxHeaders, responseVars, pipe, place,
                   apc, curlVars, initiated, reply>>

InputReads(n) ==
    /\ Input(n, n)
    /\ ctxIn' = "info"
    /\ \/ n > 0 /\ inEos' = FALSE
       \/ nextIn + n = bodyLen + 1 /\ inEos' = TRUE
    /\ UNCHANGED readFailed

\* Forgets that the body was not completely read.
FaultyInputFails(n) == Input(n, 0) /\ ctxIn' = "info" /\ UNCHANGED <<inEos, readFailed>>

\* ap_get_brigade fails; what it had taken is lost.
InputFails(n) == Input(n, 0) /\ ctxIn' = "-1" /\ UNCHANGED <<inEos, readFailed>>

\* apr_bucket_read fails on the bucket after the k first.
InputBucketFails(n, k) ==
    /\ k < n
    /\ Input(n, k)
    /\ ctxIn' = "info"
    /\ readFailed' = TRUE
    /\ UNCHANGED inEos

InputFilterHandler ==
    \E n \in 0 .. MaxBody :
        InputReads(n) \/ InputFails(n) \/ \E k \in 0 .. MaxBody : InputBucketFails(n, k)
-----------------------------------------------------------------------------
(* Handing the request over: prepareRequestInfo and initiateDuplication. *)

FaultyprepareRequestInfo == dupCount <= 4

\* A request that was already duplicated 4 times is not duplicated again.
prepareRequestInfo == dupCount < 4

\* mHeadersIn as far as X-DUP-COUNT goes: the new count is pushed to the
\* front, the request's own headers are copied behind it.
NewCounts == <<dupCount + 1>> \o IF dupCount > 0 THEN <<dupCount>> ELSE <<>>

Prepared(i) == [i EXCEPT !.counts = NewCounts]

\* runOne begins: the filters are matched, which adds X_DUP_LOG to mHeadersOut,
\* and each match leads to some calls.
RunOne(i) ==
    /\ info' = [i EXCEPT !.log = TRUE]
    /\ todo' \in 0 .. MaxCalls
    /\ UNCHANGED <<sent, outcome>>

\* Synchronously, the request thread calls runOne; otherwise the request is
\* pushed to the pool, which may drop it.
initiateDuplication(i, caller) ==
    /\ prepareRequestInfo
    /\ initiated' = initiated + 1
    /\ \/ /\ conf.synchronous \/ xDupLog
          /\ RunOne(Prepared(i))
          /\ apc' = caller
          /\ UNCHANGED place
       \/ /\ ~(conf.synchronous \/ xDupLog)
          /\ info' = Prepared(i)
          /\ place' \in {"queued", "dropped"}
          /\ UNCHANGED <<apc, curlVars>>
-----------------------------------------------------------------------------
(* The output body filter. *)

\* The buckets of a brigade, in front of its end of stream if it has one. After
\* the end of the response only brigades without data follow.
Brigades == UNION {[1 .. n -> {"data", "unreadable"}] : n \in 0 .. MaxBuckets}

IsReadable(b) == b # 0
Numbered(b) == [i \in DOMAIN b |-> IF b[i] = "data" THEN 10 * brigades + i ELSE 0]
Readable(b) == SelectSeq(Numbered(b), IsReadable)

Produce(b, eos) ==
    /\ apc = "handler" /\ brigades < MaxBrigades
    /\ respEos => b = <<>> /\ ~eos
    /\ brigades = MaxBrigades - 1 => eos \/ respEos
    /\ brigades' = brigades + 1
    /\ answer' = IF respEos THEN answer ELSE answer \o Readable(b)
    /\ respEos' = (respEos \/ eos)
    /\ UNCHANGED <<requestVars, inputVars, ctxHeaders, reply>>

\* The response body is kept only where some filter duplicates the answer.
Collected(b) ==
    IF conf.highest = REQUEST_WITH_ANSWER
    THEN [reqInfo EXCEPT !.mAnswer = @ \o Readable(b)]
    ELSE reqInfo

Declined == ctxBody = "-1" \/ conf.highest = NONE

BodyDeclines(b, eos) ==
    /\ Declined
    /\ Produce(b, eos)
    /\ pipe' = pipe + 1
    /\ UNCHANGED <<ctxBody, info, place, apc, curlVars, initiated>>

BodyCollects(b) ==
    /\ ~Declined
    /\ Produce(b, FALSE)
    /\ info' = Collected(b)
    /\ ctxBody' = IF info.made THEN ctxBody ELSE "info"
    /\ pipe' = pipe + 1
    /\ UNCHANGED <<place, apc, curlVars, initiated>>

\* End of stream: ctx is set to -1 and the brigade passed on, after runOne
\* if the request asks for the log of its duplication.
BodyEnds(b) ==
    /\ ~Declined
    /\ ~(xDupLog /\ prepareRequestInfo)
    /\ Produce(b, TRUE)
    /\ info' = [Collected(b) EXCEPT !.mEOS = TRUE,
                                    !.mHeadersOut = IF xDupLog THEN @ + 1 ELSE @]
    /\ ctxBody' = "-1"
    /\ pipe' = pipe + 1
    /\ UNCHANGED <<place, apc, curlVars, initiated>>

BodyEndsAndDuplicates(b) ==
    /\ ~Declined
    /\ xDupLog
    /\ Produce(b, TRUE)
    /\ initiateDuplication([Collected(b) EXCEPT !.mEOS = TRUE, !.mHeadersOut = @ + 1],
                           "body")
    /\ ctxBody' = IF info.made THEN ctxBody ELSE "info"
    /\ UNCHANGED pipe

OutputBodyFilterHandler ==
    \E b \in Brigades :
        \/ \E eos \in BOOLEAN : BodyDeclines(b, eos)
        \/ BodyCollects(b) \/ BodyEnds(b) \/ BodyEndsAndDuplicates(b)
-----------------------------------------------------------------------------
(* The output headers filter. The filters between the two may hold brigades  *)
(* back and merge them: it is called with the first n of them at once.       *)

Called(n) ==
    /\ apc = "handler" /\ n \in 1 .. pipe
    /\ pipe' = pipe - n
    /\ UNCHANGED <<requestVars, inputVars, ctxBody, responseVars, reply>>

HeadersDeclines(n) ==
    /\ Called(n)
    /\ ctxHeaders = "-1" \/ conf.highest = NONE
    /\ ctxHeaders' = "-1"
    /\ UNCHANGED <<info, place, apc, curlVars, initiated>>

\* Each call copies the response headers again.
CopiedHeaders == [reqInfo EXCEPT !.mHeadersOut = @ + 1]

FaultyResponseEnded == TRUE
ResponseEnded == reqInfo.mEOS

HeadersCollects(n) ==
    /\ ctxHeaders # "-1" /\ conf.highest # NONE /\ ~ResponseEnded
    /\ Called(n)
    /\ info' = CopiedHeaders
    /\ UNCHANGED <<ctxHeaders, place, apc, curlVars, initiated>>

\* Nothing to hand over: the body filter did, or the count is too high.
HeadersEnds(n) ==
    /\ ctxHeaders # "-1" /\ conf.highest # NONE /\ ResponseEnded
    /\ xDupLog \/ ~prepareRequestInfo
    /\ Called(n)
    /\ info' = CopiedHeaders
    /\ ctxHeaders' = "-1"
    /\ UNCHANGED <<place, apc, curlVars, initiated>>

\* Leaves ctx as it is.
FaultyHeadersDuplicates(n) ==
    /\ ctxHeaders # "-1" /\ conf.highest # NONE /\ ResponseEnded /\ ~xDupLog
    /\ Called(n)
    /\ initiateDuplication(CopiedHeaders, "headers")
    /\ UNCHANGED ctxHeaders

HeadersDuplicates(n) ==
    /\ ctxHeaders # "-1" /\ conf.highest # NONE /\ ResponseEnded /\ ~xDupLog
    /\ Called(n)
    /\ initiateDuplication(CopiedHeaders, "headers")
    /\ ctxHeaders' = "-1"

OutputHeadersFilterHandler ==
    \E n \in 1 .. MaxBrigades :
        \/ HeadersDeclines(n) \/ HeadersCollects(n)
        \/ HeadersEnds(n) \/ HeadersDuplicates(n)
-----------------------------------------------------------------------------
(* runOne, in a worker or in the request thread. *)

\* The pool: the request is popped, or evicted by a pill.
WorkerTakes ==
    /\ place = "queued"
    /\ place' = "worker"
    /\ RunOne(info)
    /\ UNCHANGED <<requestVars, inputVars, ctxBody, ctxHeaders, responseVars, pipe, apc,
                   initiated, reply>>

Evicted ==
    /\ place = "queued"
    /\ place' = "dropped"
    /\ UNCHANGED <<requestVars, inputVars, ctxBody, ctxHeaders, info, responseVars, pipe,
                   apc, curlVars, initiated, reply>>

FaultySentCount(counts) == counts[Len(counts)]

\* addOrigHeaders sends the first header of each name.
SentCount(counts) == Head(counts)

Duplicate(type) ==
    [type |-> type,
     body |-> IF type >= COMPLETE_REQUEST THEN info.mBody ELSE <<>>,
     answer |-> IF type = REQUEST_WITH_ANSWER THEN info.mAnswer ELSE <<>>,
     count |-> SentCount(info.counts)]

\* What one call adds to a record of results: the last curl status, and
\* whether a response so far had the header X-COMP-STATUS.
Noted(r, status, comp) == [r EXCEPT !.status = status, !.comp = @ \/ comp]

\* With substitutions, performCurlCall works on a copy of the RequestInfo.
performCurlCall ==
    /\ apc \in {"body", "headers"} \/ place = "worker"
    /\ todo > 0
    /\ todo' = todo - 1
    /\ \E type \in NONE .. conf.highest, status \in {"ok", "error"}, comp \in BOOLEAN :
          /\ sent' = {Duplicate(type)}
          /\ outcome' = Noted(outcome, status, comp)
          /\ info' = IF conf.substitutions THEN info ELSE Noted(info, status, comp)
    /\ UNCHANGED <<requestVars, inputVars, ctxBody, ctxHeaders, responseVars, pipe, place,
                   apc, initiated, reply>>

WorkerDone ==
    /\ place = "worker" /\ todo = 0
    /\ place' = "done"
    /\ UNCHANGED <<requestVars, inputVars, ctxBody, ctxHeaders, info, responseVars, pipe,
                   apc, curlVars, initiated, reply>>

\* Tests for an error before it looks for a comparison.
FaultycheckCurlResponseCompareStatus(r) ==
    IF r.status = "unset" THEN "No Duplication, No Comparison"
    ELSE IF r.status = "error" THEN "NOT REACHED"
    ELSE IF r.comp THEN "X-COMP-STATUS"
    ELSE "Reached Destination - No Comparison"

\* The header of the response that tells what became of the comparison.
checkCurlResponseCompareStatus(r) ==
    IF r.comp THEN "X-COMP-STATUS"
    ELSE IF r.status = "unset" THEN "No Duplication, No Comparison"
    ELSE IF r.status = "error" THEN "NOT REACHED"
    ELSE "Reached Destination - No Comparison"

\* runOne returns to the filter, which sets the response headers
\* (checkAdditionalHeaders, checkCurlResponseCompareStatus) and passes the brigade on.
SyncDone ==
    /\ apc \in {"body", "headers"} /\ todo = 0
    /\ apc' = "handler"
    /\ reply' = IF xDupLog
                THEN [X_DUP_LOG |-> info.log, compare |-> checkCurlResponseCompareStatus(info)]
                ELSE reply
    /\ ctxBody' = IF apc = "body" THEN "-1" ELSE ctxBody
    /\ pipe' = IF apc = "body" THEN pipe + 1 ELSE pipe
    /\ UNCHANGED <<requestVars, inputVars, ctxHeaders, info, responseVars, place, curlVars,
                   initiated>>
-----------------------------------------------------------------------------
\* The whole response has passed the filters.
EndRequest ==
    /\ apc = "handler" /\ respEos /\ pipe = 0
    /\ apc' = "ended"
    /\ UNCHANGED <<requestVars, inputVars, ctxBody, ctxHeaders, info, responseVars, pipe,
                   place, curlVars, initiated, reply>>

Settled == apc = "ended" /\ place \in {"request", "done", "dropped"}

\* The duplicate arrives at a server that is configured like this one, this
\* one itself if the destination is localhost, and is handled in its turn.
\* X_DUP_LOG is copied with the other headers.
NextHop ==
    /\ Settled /\ hops < MaxHops
    /\ \E d \in sent : dupCount' = d.count
    /\ hops' = hops + 1
    /\ nextIn' = 1 /\ inEos' = FALSE /\ readFailed' = FALSE
    /\ ctxIn' = "null" /\ ctxBody' = "null" /\ ctxHeaders' = "null"
    /\ info' = None
    /\ answer' = <<>> /\ respEos' = FALSE /\ brigades' = 0 /\ pipe' = 0
    /\ place' = "request" /\ apc' = "handler"
    /\ todo' = 0 /\ sent' = {} /\ outcome' = NoOutcome
    /\ initiated' = 0
    /\ reply' = NoReply
    /\ UNCHANGED <<conf, xDupLog, bodyLen>>

Terminated == Settled /\ UNCHANGED vars

Next ==
    \/ InputFilterHandler \/ OutputBodyFilterHandler \/ OutputHeadersFilterHandler
    \/ WorkerTakes \/ Evicted \/ performCurlCall \/ WorkerDone \/ SyncDone
    \/ EndRequest \/ NextHop \/ Terminated

Spec == Init /\ [][Next]_vars
-----------------------------------------------------------------------------
\* Types; the count of a request never passes 4.
Contexts == {"null", "info", "-1"}
TypeOK ==
    /\ conf \in Confs /\ xDupLog \in BOOLEAN /\ dupCount \in 0 .. 4 /\ hops \in 0 .. MaxHops
    /\ bodyLen \in 0 .. MaxBody /\ nextIn \in 1 .. bodyLen + 1
    /\ inEos \in BOOLEAN /\ readFailed \in BOOLEAN
    /\ {ctxIn, ctxBody, ctxHeaders} \subseteq Contexts
    /\ respEos \in BOOLEAN /\ brigades \in 0 .. MaxBrigades /\ pipe \in 0 .. MaxBrigades
    /\ place \in {"request", "queued", "dropped", "worker", "done"}
    /\ apc \in {"handler", "body", "headers", "ended"}
    /\ todo \in 0 .. MaxCalls /\ initiated \in Nat
    /\ outcome.status \in {"unset", "ok", "error"} /\ outcome.comp \in BOOLEAN

\* The request is handed over exactly once, by one of the two output filters,
\* however its response is cut into brigades and whenever the filters run;
\* never when nothing is to be duplicated or it was duplicated 4 times.
Eligible == conf.highest # NONE /\ dupCount < 4
ExactlyOnce ==
    /\ initiated <= 1
    /\ apc = "ended" => initiated = (IF Eligible THEN 1 ELSE 0)

\* A duplicate sent with the answer carries the whole answer, each bucket
\* once and in order: the request is not handed over before the end of stream.
AnswerComplete ==
    \A d \in sent : d.type = REQUEST_WITH_ANSWER => respEos /\ d.answer = answer

\* No bucket is missing in the middle of the body of a duplicate, even when
\* ap_get_brigade failed and the handler tried again; only an unreadable
\* bucket leaves a hole.
BodyIsPrefix ==
    \A d \in sent : ~readFailed => d.body = Buckets(1, Len(d.body))

\* Once the request is in the pool, the output filters do not touch the
\* answer and the headers any more, which the worker reads and extends
\* without a lock (mAnswer and mHeadersOut of the RequestInfo they share).
Answered == <<info.mAnswer, info.mHeadersOut>>
InPool == place \in {"queued", "worker"}
AnswerFrozen == [][InPool => UNCHANGED Answered]_vars

\* The client that asked for the log is told what really happened, as far as
\* no substitution is configured: that nothing was sent, that a destination
\* compared the answers, or that the last one called was not reached.
StatusReported ==
    ~conf.substitutions /\ reply.compare # "none" =>
        /\ reply.compare = "No Duplication, No Comparison" <=> sent = {}
        /\ reply.compare = "X-COMP-STATUS" <=> outcome.comp
        /\ reply.compare = "NOT REACHED" => outcome.status = "error"
        /\ reply.compare = "Reached Destination - No Comparison" => outcome.status = "ok"

\* What the log message of filters_dup.cc:69 says of the status -1, "Curl
\* uninitialized, no duplication, so no comparison": the client is told "No
\* Duplication, No Comparison" only when nothing was sent.
StatusTruthful == reply.compare = "No Duplication, No Comparison" => sent = {}

\* A chain of duplications, through this server again or through others, has
\* at most 4 links.
ChainBounded == hops <= 4
=============================================================================
