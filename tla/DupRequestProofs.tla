-------------------------- MODULE DupRequestProofs --------------------------
(***************************************************************************)
(* What mod_dup's filters promise about one request, for any bodies, any   *)
(* cut of the response into brigades and any length of the chain of        *)
(* duplications.                                                           *)
(***************************************************************************)
EXTENDS DupRequest, SequenceTheorems, TLAPS

USE DEF requestVars, inputVars, responseVars, curlVars, NONE, HEADER_ONLY, COMPLETE_REQUEST,
        REQUEST_WITH_ANSWER

-----------------------------------------------------------------------------
(* The RequestInfo as a record: which fields an update leaves alone. *)

Statuses == {"unset", "ok", "error"}

IsInfo(i) ==
    i \in [made : {TRUE}, mBody : {i.mBody}, mAnswer : {i.mAnswer},
           mHeadersOut : {i.mHeadersOut}, mEOS : BOOLEAN, counts : {i.counts},
           log : BOOLEAN, status : Statuses, comp : BOOLEAN]

InfoOK == info = None \/ IsInfo(info)

LEMMA NewInfoFields ==
    /\ IsInfo(NewInfo) /\ NewInfo.made = TRUE /\ NewInfo.mBody = <<>> /\ NewInfo.mAnswer = <<>>
    /\ NewInfo.mEOS = FALSE /\ NewInfo.status = "unset" /\ NewInfo.comp = FALSE
BY DEF IsInfo, NewInfo, Statuses

LEMMA ReqInfo ==
    ASSUME InfoOK
    PROVE  /\ IsInfo(reqInfo) /\ info.made \in BOOLEAN /\ reqInfo.made = TRUE
           /\ reqInfo.mEOS \in BOOLEAN
           /\ info.made => reqInfo = info
           /\ ~info.made => reqInfo = NewInfo
<1>1. CASE info = None
  <2>1. info.made = FALSE
    BY <1>1 DEF None
  <2> QED BY <2>1, NewInfoFields DEF reqInfo, IsInfo
<1>2. CASE IsInfo(info)
  <2>1. info.made = TRUE /\ info.mEOS \in BOOLEAN
    BY <1>2 DEF IsInfo
  <2> QED BY <1>2, <2>1 DEF reqInfo
<1> QED BY <1>1, <1>2 DEF InfoOK

LEMMA LogUpdate ==
    ASSUME NEW i, IsInfo(i), NEW j, j = [i EXCEPT !.log = TRUE]
    PROVE  /\ IsInfo(j) /\ j.made = TRUE /\ j.mBody = i.mBody /\ j.mAnswer = i.mAnswer
           /\ j.mHeadersOut = i.mHeadersOut /\ j.mEOS = i.mEOS /\ j.counts = i.counts
           /\ j.status = i.status /\ j.comp = i.comp
BY DEF IsInfo

\* What a filter sees: a new RequestInfo is as good as none.
LEMMA CollectedFields ==
    ASSUME InfoOK, NEW b, NEW j, j = Collected(b)
    PROVE  /\ IsInfo(j) /\ j.made = TRUE /\ j.mBody = reqInfo.mBody /\ j.mEOS = reqInfo.mEOS
           /\ j.counts = reqInfo.counts /\ j.status = reqInfo.status /\ j.comp = reqInfo.comp
           /\ conf.highest = REQUEST_WITH_ANSWER => j.mAnswer = reqInfo.mAnswer \o Readable(b)
<1>1. CASE conf.highest = REQUEST_WITH_ANSWER
  <2> DEFINE x == reqInfo.mAnswer \o Readable(b)
  <2>1. IsInfo(reqInfo) /\ j = [reqInfo EXCEPT !.mAnswer = x]
    BY <1>1, ReqInfo DEF Collected
  <2> HIDE DEF x
  <2> QED BY <2>1 DEF IsInfo, x
<1>2. CASE conf.highest # REQUEST_WITH_ANSWER
  BY <1>2, ReqInfo DEF Collected
<1> QED BY <1>1, <1>2

LEMMA CopiedFields ==
    ASSUME InfoOK, NEW j, j = CopiedHeaders
    PROVE  /\ IsInfo(j) /\ j.made = TRUE /\ j.mBody = reqInfo.mBody
           /\ j.mAnswer = reqInfo.mAnswer /\ j.mEOS = reqInfo.mEOS
           /\ j.counts = reqInfo.counts /\ j.status = reqInfo.status /\ j.comp = reqInfo.comp
<1> DEFINE x == reqInfo.mHeadersOut + 1
<1>1. IsInfo(reqInfo) /\ j = [reqInfo EXCEPT !.mHeadersOut = x]
  BY ReqInfo DEF CopiedHeaders
<1> HIDE DEF x
<1> QED BY <1>1 DEF IsInfo

\* Both ways of handing a request over set the counts and keep the rest.
LEMMA InitiateFields ==
    ASSUME NEW i, IsInfo(i), NEW caller, initiateDuplication(i, caller)
    PROVE  /\ IsInfo(info') /\ info'.made = TRUE /\ info'.counts = NewCounts
           /\ info'.mBody = i.mBody /\ info'.mAnswer = i.mAnswer /\ info'.mEOS = i.mEOS
           /\ info'.status = i.status /\ info'.comp = i.comp
<1> DEFINE p == Prepared(i)
<1>1. /\ IsInfo(p) /\ p.made = TRUE /\ p.counts = NewCounts
      /\ p.mBody = i.mBody /\ p.mAnswer = i.mAnswer /\ p.mEOS = i.mEOS
      /\ p.status = i.status /\ p.comp = i.comp
  <2>1. p = [i EXCEPT !.counts = NewCounts]
    BY DEF Prepared
  <2> HIDE DEF p
  <2> QED BY <2>1 DEF IsInfo
<1>2. info' = p \/ info' = [p EXCEPT !.log = TRUE]
  BY DEF initiateDuplication, RunOne
<1> HIDE DEF p
<1>3. CASE info' = p
  BY <1>1, <1>3
<1>4. CASE info' = [p EXCEPT !.log = TRUE]
  BY <1>1, <1>4, LogUpdate
<1> QED BY <1>2, <1>3, <1>4
-----------------------------------------------------------------------------
(* The inductive invariant. *)

\* Where the response and the hand-over stand: how the end of stream, the
\* filters' contexts and the brigades on their way hang together.
Flow ==
    /\ info.made /\ info.mEOS <=> respEos /\ conf.highest # NONE
    /\ ctxBody = "-1" => respEos /\ conf.highest # NONE
    /\ respEos /\ conf.highest # NONE => ctxBody = "-1" \/ apc = "body"
    /\ apc = "body" => xDupLog /\ initiated = 1
    /\ apc = "headers" => ~xDupLog /\ initiated = 1
    /\ ctxHeaders = "-1" => respEos \/ conf.highest = NONE
    /\ initiated =
         IF Eligible /\ (IF xDupLog THEN respEos ELSE ctxHeaders = "-1") THEN 1 ELSE 0
    /\ ~xDupLog /\ Eligible /\ respEos /\ ctxHeaders # "-1" => pipe > 0
    /\ place # "request" => initiated = 1 /\ ~xDupLog
    /\ apc = "ended" => respEos /\ pipe = 0
    /\ pipe + (IF apc = "body" THEN 1 ELSE 0) <= brigades

\* The count that goes out is one more than the count that came in.
Calls ==
    /\ initiated = 1 => info.counts = NewCounts
    /\ sent # {} => initiated = 1
    /\ \A d \in sent : d.count = dupCount + 1
    /\ hops = dupCount

\* As long as every bucket could be read, the body is a prefix, and the whole
\* of what was read unless ap_get_brigade failed.
BodyKept ==
    /\ ~info.made => nextIn = 1
    /\ info.made /\ ~readFailed =>
         \E k \in Nat : info.mBody = Buckets(1, k) /\ (ctxIn # "-1" => k = nextIn - 1)
    /\ \A d \in sent : ~readFailed => \E k \in Nat : d.body = Buckets(1, k)

\* Where the answer is duplicated it is all there, at any time.
AnswerKept ==
    conf.highest = REQUEST_WITH_ANSWER =>
        /\ ~info.made => answer = <<>>
        /\ info.made => info.mAnswer = answer

\* Without substitutions the RequestInfo knows the true results, and after the
\* reply nothing is sent any more.
StatusKept ==
    /\ outcome \in [status : Statuses, comp : BOOLEAN]
    /\ outcome.status = "unset" <=> sent = {}
    /\ outcome.status = "unset" => ~outcome.comp
    /\ ~info.made => outcome.status = "unset"
    /\ ~conf.substitutions /\ info.made =>
         info.status = outcome.status /\ info.comp = outcome.comp
    /\ reply.compare # "none" => xDupLog /\ initiated = 1 /\ todo = 0
    /\ ~conf.substitutions /\ reply.compare # "none" =>
         reply.compare = checkCurlResponseCompareStatus(outcome)

Inv ==
    /\ TypeOK /\ InfoOK /\ Flow /\ Calls /\ BodyKept /\ AnswerComplete /\ AnswerKept
    /\ StatusKept
-----------------------------------------------------------------------------
LEMMA BucketsJoin ==
    ASSUME NEW a \in Nat, NEW b \in Nat
    PROVE  Buckets(1, a) \o Buckets(a + 1, b) = Buckets(1, a + b)
<1> DEFINE u == Buckets(1, a)
           v == Buckets(a + 1, b)
           w == Buckets(1, a + b)
<1>1. u \in Seq(Nat) /\ Len(u) = a /\ \A i \in 1 .. a : u[i] = i
  BY IsASeq DEF Buckets
<1>2. v \in Seq(Nat) /\ Len(v) = b /\ \A i \in 1 .. b : v[i] = a + i
  BY DEF Buckets
<1>3. w \in Seq(Nat) /\ Len(w) = a + b /\ \A i \in 1 .. a + b : w[i] = i
  BY DEF Buckets
<1> HIDE DEF u, v, w
<1>4. u \o v \in Seq(Nat) /\ Len(u \o v) = a + b
  BY <1>1, <1>2
<1>5. \A i \in 1 .. a + b : (u \o v)[i] = i
  BY <1>1, <1>2
<1>6. u \o v = w
  BY <1>3, <1>4, <1>5, SeqEqual
<1> QED BY <1>6 DEF u, v, w

LEMMA BucketsLen ==
    ASSUME NEW k \in Nat
    PROVE  Len(Buckets(1, k)) = k
BY DEF Buckets

LEMMA NoBuckets == <<>> = Buckets(1, 0)
BY DEF Buckets

LEMMA SentCountIsNext ==
    ASSUME dupCount \in Nat
    PROVE  SentCount(NewCounts) = dupCount + 1
<1>1. CASE dupCount > 0
  BY <1>1 DEF SentCount, NewCounts
<1>2. CASE ~(dupCount > 0)
  BY <1>2 DEF SentCount, NewCounts
<1> QED BY <1>1, <1>2
-----------------------------------------------------------------------------
(* One lemma per handler. *)

LEMMA InputStep ==
    ASSUME Inv, InputFilterHandler
    PROVE  Inv'
<1> USE DEF Inv
<1>1. PICK n \in 0 .. MaxBody, k \in 0 .. MaxBody :
        /\ Input(n, k) /\ inEos' \in BOOLEAN
        /\ \/ k = n /\ ctxIn' = "info" /\ UNCHANGED readFailed
           \/ k = 0 /\ ctxIn' = "-1" /\ UNCHANGED readFailed
           \/ ctxIn' = "info" /\ readFailed' = TRUE
  <2>1. ASSUME NEW n \in 0 .. MaxBody, InputReads(n) PROVE Input(n, n) /\ inEos' \in BOOLEAN
    BY <2>1 DEF InputReads
  <2>2. ASSUME NEW n \in 0 .. MaxBody, InputFails(n)
        PROVE  0 \in 0 .. MaxBody /\ Input(n, 0) /\ inEos' \in BOOLEAN
    BY <2>2, BoundsAssumption DEF InputFails, TypeOK
  <2>3. ASSUME NEW n \in 0 .. MaxBody, NEW k \in 0 .. MaxBody, InputBucketFails(n, k)
        PROVE  Input(n, k) /\ inEos' \in BOOLEAN
    BY <2>3 DEF InputBucketFails, TypeOK
  <2> QED
    BY <2>1, <2>2, <2>3 DEF InputFilterHandler, InputReads, InputFails, InputBucketFails
<1>2. /\ ctxIn # "-1" /\ nextIn' = nextIn + n /\ nextIn + n <= bodyLen + 1
      /\ info' = [reqInfo EXCEPT !.mBody = @ \o Buckets(nextIn, k)]
      /\ UNCHANGED <<requestVars, bodyLen, ctxBody, ctxHeaders, responseVars, pipe, place,
                     apc, curlVars, initiated, reply>>
  BY <1>1 DEF Input
<1>3. /\ IsInfo(info') /\ info'.made = TRUE
      /\ info'.mBody = reqInfo.mBody \o Buckets(nextIn, k)
      /\ info'.mAnswer = reqInfo.mAnswer /\ info'.mEOS = reqInfo.mEOS
      /\ info'.counts = reqInfo.counts
      /\ info'.status = reqInfo.status /\ info'.comp = reqInfo.comp
  BY <1>2, ReqInfo DEF IsInfo
<1>4. TypeOK' /\ InfoOK'
  <2>1. nextIn' \in 1 .. bodyLen' + 1 /\ bodyLen' \in 0 .. MaxBody
    BY <1>2, BoundsAssumption DEF TypeOK
  <2>2. {ctxIn, ctxBody, ctxHeaders}' \subseteq Contexts /\ readFailed' \in BOOLEAN
    BY <1>1, <1>2 DEF TypeOK, Contexts
  <2>3. TypeOK'
    BY <1>1, <1>2, <2>1, <2>2 DEF TypeOK
  <2> QED BY <1>3, <2>3 DEF InfoOK
<1>5. info'.mEOS /\ info'.made <=> info.made /\ info.mEOS
  BY <1>3, ReqInfo, NewInfoFields
<1>6. Flow'
  BY <1>2, <1>5 DEF Flow, Eligible
<1>7. Calls'
  <2>1. initiated = 1 => info.made
    BY DEF Flow, Eligible
  <2> QED BY <1>2, <1>3, <2>1, ReqInfo DEF Calls, NewCounts
<1>8. BodyKept'
  <2>1. ASSUME ~readFailed'
        PROVE  \E m \in Nat : info'.mBody = Buckets(1, m) /\ (ctxIn' # "-1" => m = nextIn' - 1)
    <3>1. /\ ~readFailed
          /\ \/ k = n /\ ctxIn' = "info"
             \/ k = 0 /\ ctxIn' = "-1"
      BY <1>1, <2>1
    <3>2. reqInfo.mBody = Buckets(1, nextIn - 1)
      <4>1. CASE info.made
        BY <1>2, <3>1, <4>1, ReqInfo DEF BodyKept
      <4>2. CASE ~info.made
        BY <4>2, ReqInfo, NewInfoFields, NoBuckets DEF BodyKept
      <4> QED BY <4>1, <4>2
    <3>3. nextIn \in Nat /\ nextIn >= 1 /\ k \in Nat /\ n \in Nat
      BY BoundsAssumption DEF TypeOK
    <3> DEFINE a == nextIn - 1
    <3>4. a \in Nat /\ nextIn = a + 1
      BY <3>3
    <3> HIDE DEF a
    <3>5. reqInfo.mBody = Buckets(1, a)
      BY <3>2 DEF a
    <3>6. info'.mBody = Buckets(1, a) \o Buckets(a + 1, k)
      BY <1>3, <3>4, <3>5
    <3>7. info'.mBody = Buckets(1, a + k)
      BY <3>3, <3>4, <3>6, BucketsJoin
    <3>8. a + k \in Nat /\ (ctxIn' # "-1" => a + k = nextIn' - 1)
      BY <1>2, <3>1, <3>3, <3>4
    <3> QED BY <3>7, <3>8
  <2>2. readFailed => readFailed'
    BY <1>1
  <2> QED BY <1>2, <1>3, <2>1, <2>2 DEF BodyKept
<1>9. AnswerComplete' /\ AnswerKept'
  BY <1>2, <1>3, ReqInfo, NewInfoFields DEF AnswerComplete, AnswerKept
<1>10. StatusKept'
  <2>1. ~info.made => reqInfo.status = "unset" /\ reqInfo.comp = FALSE
    BY ReqInfo, NewInfoFields
  <2>2. ~info.made => outcome.status = "unset" /\ outcome.comp = FALSE
    BY DEF StatusKept
  <2>3. info.made => reqInfo = info
    BY ReqInfo
  <2>4. ~conf.substitutions => info'.status = outcome.status /\ info'.comp = outcome.comp
    BY <1>3, <2>1, <2>2, <2>3 DEF StatusKept
  <2> QED BY <1>2, <1>3, <2>4 DEF StatusKept
<1> QED BY <1>4, <1>6, <1>7, <1>8, <1>9, <1>10

\* What is left to show where nothing is sent and the RequestInfo only changes
\* in its answer, its end of stream and its headers.
LEMMA SameContents ==
    ASSUME Inv, IsInfo(info'), info'.made = TRUE,
           info'.mBody = reqInfo.mBody, info'.status = reqInfo.status, info'.comp = reqInfo.comp,
           UNCHANGED <<conf, inputVars, sent, outcome>>
    PROVE  /\ InfoOK' /\ BodyKept'
           /\ ~conf.substitutions => info'.status = outcome.status /\ info'.comp = outcome.comp
           /\ info.made /\ initiated = 1 => reqInfo = info
<1> USE DEF Inv
<1>1. InfoOK'
  BY DEF InfoOK
<1>2. BodyKept'
  <2>1. ASSUME ~readFailed
        PROVE  \E m \in Nat : info'.mBody = Buckets(1, m) /\ (ctxIn # "-1" => m = nextIn - 1)
    <3>1. CASE info.made
      BY <2>1, <3>1, ReqInfo DEF BodyKept
    <3>2. CASE ~info.made
      BY <3>2, ReqInfo, NewInfoFields, NoBuckets DEF BodyKept
    <3> QED BY <3>1, <3>2
  <2> QED BY <2>1 DEF BodyKept
<1>3. ~info.made => reqInfo.status = "unset" /\ reqInfo.comp = FALSE
  BY ReqInfo, NewInfoFields
<1>4. ~info.made => outcome.status = "unset" /\ outcome.comp = FALSE
  BY DEF StatusKept
<1>5. info.made => reqInfo = info
  BY ReqInfo
<1>6. ~conf.substitutions => info'.status = outcome.status /\ info'.comp = outcome.comp
  BY <1>3, <1>4, <1>5 DEF StatusKept
<1> QED BY <1>1, <1>2, <1>5, <1>6

\* A brigade that the filter collects comes before the end of the response.
LEMMA CollectingFacts ==
    ASSUME Inv, ~Declined, apc = "handler"
    PROVE  /\ ~respEos /\ conf.highest # NONE /\ initiated = 0 /\ sent = {} /\ place = "request"
           /\ reply.compare = "none" /\ ctxHeaders # "-1"
BY DEF Inv, Declined, Flow, Eligible, Calls, StatusKept

LEMMA DeclinesStep ==
    ASSUME Inv, NEW b, NEW eos \in BOOLEAN, BodyDeclines(b, eos)
    PROVE  Inv'
<1> USE DEF Inv
<1>1. /\ apc = "handler" /\ brigades < MaxBrigades /\ brigades' = brigades + 1
      /\ respEos' = (respEos \/ eos) /\ pipe' = pipe + 1
      /\ answer' = IF respEos THEN answer ELSE answer \o Readable(b)
      /\ ctxBody = "-1" \/ conf.highest = NONE
      /\ UNCHANGED <<requestVars, inputVars, ctxHeaders, reply, ctxBody, info, place, apc,
                     curlVars, initiated>>
  BY DEF BodyDeclines, Produce, Declined
<1>2. TypeOK' /\ InfoOK'
  BY <1>1, BoundsAssumption DEF TypeOK, InfoOK, Flow, Contexts
<1>3. Flow'
  BY <1>1 DEF Flow, Eligible, TypeOK
<1>4. Calls' /\ BodyKept' /\ StatusKept'
  BY <1>1 DEF Calls, BodyKept, StatusKept, NewCounts
<1>5. respEos => answer' = answer /\ respEos'
  BY <1>1
<1>6. conf.highest = REQUEST_WITH_ANSWER => respEos
  BY <1>1 DEF Flow
<1>7. AnswerComplete' /\ AnswerKept'
  BY <1>1, <1>5, <1>6 DEF AnswerComplete, AnswerKept
<1> QED BY <1>2, <1>3, <1>4, <1>7

LEMMA CollectsStep ==
    ASSUME Inv, NEW b, BodyCollects(b)
    PROVE  Inv'
<1> USE DEF Inv
<1>1. /\ ~Declined /\ apc = "handler" /\ brigades < MaxBrigades /\ brigades' = brigades + 1
      /\ respEos' = (respEos \/ FALSE) /\ pipe' = pipe + 1
      /\ answer' = IF respEos THEN answer ELSE answer \o Readable(b)
      /\ info' = Collected(b)
      /\ ctxBody' = IF info.made THEN ctxBody ELSE "info"
      /\ UNCHANGED <<requestVars, inputVars, ctxHeaders, reply, place, apc, curlVars, initiated>>
  BY DEF BodyCollects, Produce
<1>2. /\ ~respEos /\ conf.highest # NONE /\ initiated = 0 /\ sent = {} /\ place = "request"
      /\ reply.compare = "none"
  BY <1>1, CollectingFacts
<1>3. /\ IsInfo(info') /\ info'.made = TRUE /\ info'.mBody = reqInfo.mBody
      /\ info'.mEOS = reqInfo.mEOS /\ info'.status = reqInfo.status /\ info'.comp = reqInfo.comp
      /\ conf.highest = REQUEST_WITH_ANSWER => info'.mAnswer = reqInfo.mAnswer \o Readable(b)
  BY <1>1, CollectedFields
<1>4. /\ InfoOK' /\ BodyKept'
      /\ ~conf.substitutions => info'.status = outcome.status /\ info'.comp = outcome.comp
  BY <1>1, <1>3, SameContents
<1>5. TypeOK'
  BY <1>1, BoundsAssumption DEF TypeOK, Flow, Contexts
<1>6. ~reqInfo.mEOS
  BY <1>2, ReqInfo, NewInfoFields DEF Flow
<1>7. Flow'
  BY <1>1, <1>2, <1>3, <1>6 DEF Flow, Eligible, TypeOK, Declined
<1>8. Calls' /\ StatusKept'
  BY <1>1, <1>2, <1>3, <1>4 DEF Calls, StatusKept
<1>9. AnswerComplete' /\ AnswerKept'
  BY <1>1, <1>2, <1>3, ReqInfo, NewInfoFields DEF AnswerComplete, AnswerKept
<1> QED BY <1>4, <1>5, <1>7, <1>8, <1>9

LEMMA EndsStep ==
    ASSUME Inv, NEW b, BodyEnds(b)
    PROVE  Inv'
<1> USE DEF Inv
<1>1. /\ ~Declined /\ apc = "handler" /\ brigades < MaxBrigades /\ brigades' = brigades + 1
      /\ ~(xDupLog /\ prepareRequestInfo)
      /\ respEos' = TRUE /\ pipe' = pipe + 1 /\ ctxBody' = "-1"
      /\ answer' = IF respEos THEN answer ELSE answer \o Readable(b)
      /\ UNCHANGED <<requestVars, inputVars, ctxHeaders, reply, place, apc, curlVars, initiated>>
  BY DEF BodyEnds, Produce
<1>2. /\ ~respEos /\ conf.highest # NONE /\ initiated = 0 /\ sent = {} /\ place = "request"
      /\ reply.compare = "none"
  BY <1>1, CollectingFacts
<1>3. /\ IsInfo(info') /\ info'.made = TRUE /\ info'.mEOS = TRUE
      /\ info'.mBody = reqInfo.mBody
      /\ info'.status = reqInfo.status /\ info'.comp = reqInfo.comp
      /\ conf.highest = REQUEST_WITH_ANSWER => info'.mAnswer = reqInfo.mAnswer \o Readable(b)
  <2> DEFINE c == Collected(b)
             x == IF xDupLog THEN c.mHeadersOut + 1 ELSE c.mHeadersOut
  <2>1. info' = [c EXCEPT !.mEOS = TRUE, !.mHeadersOut = x]
    BY DEF BodyEnds
  <2>2. /\ IsInfo(c) /\ c.made = TRUE /\ c.mBody = reqInfo.mBody
        /\ c.status = reqInfo.status /\ c.comp = reqInfo.comp
        /\ conf.highest = REQUEST_WITH_ANSWER => c.mAnswer = reqInfo.mAnswer \o Readable(b)
    BY CollectedFields
  <2> HIDE DEF c, x
  <2>3. /\ IsInfo(info') /\ info'.made = TRUE /\ info'.mEOS = TRUE /\ info'.mBody = c.mBody
        /\ info'.status = c.status /\ info'.comp = c.comp /\ info'.mAnswer = c.mAnswer
    BY <2>1, <2>2 DEF IsInfo
  <2> QED BY <2>2, <2>3
<1>4. /\ InfoOK' /\ BodyKept'
      /\ ~conf.substitutions => info'.status = outcome.status /\ info'.comp = outcome.comp
  BY <1>1, <1>3, SameContents
<1>5. TypeOK'
  BY <1>1, BoundsAssumption DEF TypeOK, Flow, Contexts
<1>6. Flow'
  BY <1>1, <1>2, <1>3 DEF Flow, Eligible, TypeOK, Declined, prepareRequestInfo
<1>7. Calls' /\ StatusKept'
  BY <1>1, <1>2, <1>3, <1>4 DEF Calls, StatusKept
<1>8. AnswerComplete' /\ AnswerKept'
  BY <1>1, <1>2, <1>3, ReqInfo, NewInfoFields DEF AnswerComplete, AnswerKept
<1> QED BY <1>4, <1>5, <1>6, <1>7, <1>8

LEMMA EndsAndDuplicatesStep ==
    ASSUME Inv, NEW b, BodyEndsAndDuplicates(b)
    PROVE  Inv'
<1> USE DEF Inv
<1>1. /\ ~Declined /\ apc = "handler" /\ brigades < MaxBrigades /\ brigades' = brigades + 1
      /\ xDupLog /\ prepareRequestInfo /\ initiated' = initiated + 1
      /\ apc' = "body" /\ todo' \in 0 .. MaxCalls
      /\ respEos' = TRUE /\ pipe' = pipe
      /\ ctxBody' = IF info.made THEN ctxBody ELSE "info"
      /\ answer' = IF respEos THEN answer ELSE answer \o Readable(b)
      /\ UNCHANGED <<requestVars, inputVars, ctxHeaders, reply, place, sent, outcome>>
  BY DEF BodyEndsAndDuplicates, Produce, initiateDuplication, RunOne
<1>2. /\ ~respEos /\ conf.highest # NONE /\ initiated = 0 /\ sent = {} /\ place = "request"
      /\ reply.compare = "none"
  BY <1>1, CollectingFacts
<1>3. /\ IsInfo(info') /\ info'.made = TRUE /\ info'.mEOS = TRUE /\ info'.counts = NewCounts
      /\ info'.mBody = reqInfo.mBody
      /\ info'.status = reqInfo.status /\ info'.comp = reqInfo.comp
      /\ conf.highest = REQUEST_WITH_ANSWER => info'.mAnswer = reqInfo.mAnswer \o Readable(b)
  <2> DEFINE c == Collected(b)
             i == [c EXCEPT !.mEOS = TRUE, !.mHeadersOut = @ + 1]
  <2>1. initiateDuplication(i, "body")
    BY DEF BodyEndsAndDuplicates
  <2>2. /\ IsInfo(c) /\ c.made = TRUE /\ c.mBody = reqInfo.mBody
        /\ c.status = reqInfo.status /\ c.comp = reqInfo.comp
        /\ conf.highest = REQUEST_WITH_ANSWER => c.mAnswer = reqInfo.mAnswer \o Readable(b)
    BY CollectedFields
  <2> HIDE DEF c
  <2>3. /\ IsInfo(i) /\ i.made = TRUE /\ i.mEOS = TRUE /\ i.mBody = c.mBody
        /\ i.status = c.status /\ i.comp = c.comp /\ i.mAnswer = c.mAnswer
    BY <2>2 DEF IsInfo
  <2> HIDE DEF i
  <2>4. /\ IsInfo(info') /\ info'.made = TRUE /\ info'.counts = NewCounts
        /\ info'.mBody = i.mBody /\ info'.mAnswer = i.mAnswer /\ info'.mEOS = i.mEOS
        /\ info'.status = i.status /\ info'.comp = i.comp
    BY <2>1, <2>3, InitiateFields
  <2> QED BY <2>2, <2>3, <2>4
<1>4. /\ InfoOK' /\ BodyKept'
      /\ ~conf.substitutions => info'.status = outcome.status /\ info'.comp = outcome.comp
  BY <1>1, <1>3, SameContents
<1>5. TypeOK'
  BY <1>1, <1>2, BoundsAssumption DEF TypeOK, Flow, Contexts
<1>6. Flow'
  BY <1>1, <1>2, <1>3 DEF Flow, Eligible, TypeOK, Declined, prepareRequestInfo
<1>7. Calls' /\ StatusKept'
  BY <1>1, <1>2, <1>3, <1>4 DEF Calls, StatusKept, NewCounts
<1>8. AnswerComplete' /\ AnswerKept'
  BY <1>1, <1>2, <1>3, ReqInfo, NewInfoFields DEF AnswerComplete, AnswerKept
<1> QED BY <1>4, <1>5, <1>6, <1>7, <1>8

LEMMA HeadersDeclinesStep ==
    ASSUME Inv, NEW n, HeadersDeclines(n)
    PROVE  Inv'
<1> USE DEF Inv
<1>1. /\ apc = "handler" /\ n \in 1 .. pipe /\ pipe' = pipe - n /\ ctxHeaders' = "-1"
      /\ ctxHeaders = "-1" \/ conf.highest = NONE
      /\ UNCHANGED <<requestVars, inputVars, ctxBody, responseVars, reply, info, place, apc,
                     curlVars, initiated>>
  BY DEF HeadersDeclines, Called
<1>2. TypeOK' /\ InfoOK'
  BY <1>1, BoundsAssumption DEF TypeOK, InfoOK, Flow, Contexts
<1>3. Flow'
  BY <1>1 DEF Flow, Eligible, TypeOK
<1>4. Calls' /\ BodyKept' /\ StatusKept' /\ AnswerComplete' /\ AnswerKept'
  BY <1>1 DEF Calls, BodyKept, StatusKept, NewCounts, AnswerComplete, AnswerKept
<1> QED BY <1>2, <1>3, <1>4

\* The headers filter saw the end of the response exactly if it ended.
LEMMA EndedFacts ==
    ASSUME Inv, ctxHeaders # "-1", conf.highest # NONE
    PROVE  /\ ResponseEnded <=> respEos
           /\ respEos => info.made
           /\ ~xDupLog => initiated = 0 /\ sent = {} /\ place = "request"
           /\ ~respEos => initiated = 0 /\ sent = {} /\ place = "request"
<1>1. ResponseEnded <=> respEos
  BY ReqInfo, NewInfoFields DEF Inv, ResponseEnded, Flow
<1>2. respEos => info.made
  BY DEF Inv, Flow
<1>3. ~xDupLog => initiated = 0
  BY DEF Inv, Flow
<1>4. ~respEos => initiated = 0
  BY DEF Inv, Flow
<1> QED BY <1>1, <1>2, <1>3, <1>4 DEF Inv, Flow, Calls

LEMMA HeadersCollectsStep ==
    ASSUME Inv, NEW n, HeadersCollects(n) \/ HeadersEnds(n)
    PROVE  Inv'
<1> USE DEF Inv
<1>1. /\ apc = "handler" /\ n \in 1 .. pipe /\ pipe' = pipe - n /\ info' = CopiedHeaders
      /\ ctxHeaders # "-1" /\ conf.highest # NONE
      /\ \/ ~ResponseEnded /\ ctxHeaders' = ctxHeaders
         \/ ResponseEnded /\ (xDupLog \/ ~prepareRequestInfo) /\ ctxHeaders' = "-1"
      /\ UNCHANGED <<requestVars, inputVars, ctxBody, responseVars, reply, place, apc,
                     curlVars, initiated>>
  BY DEF HeadersCollects, HeadersEnds, Called
<1>2. /\ ResponseEnded <=> respEos
      /\ respEos => info.made
      /\ ~respEos => initiated = 0 /\ sent = {} /\ place = "request"
  BY <1>1, EndedFacts
<1>3. /\ IsInfo(info') /\ info'.made = TRUE /\ info'.mBody = reqInfo.mBody
      /\ info'.mAnswer = reqInfo.mAnswer /\ info'.mEOS = reqInfo.mEOS
      /\ info'.counts = reqInfo.counts
      /\ info'.status = reqInfo.status /\ info'.comp = reqInfo.comp
  BY <1>1, CopiedFields
<1>4. /\ InfoOK' /\ BodyKept'
      /\ ~conf.substitutions => info'.status = outcome.status /\ info'.comp = outcome.comp
  BY <1>1, <1>3, SameContents
<1>5. TypeOK'
  BY <1>1, BoundsAssumption DEF TypeOK, Flow, Contexts
<1>6. info'.mEOS <=> respEos
  BY <1>2, <1>3 DEF ResponseEnded
<1>7. Flow'
  BY <1>1, <1>2, <1>3, <1>6 DEF Flow, Eligible, TypeOK, prepareRequestInfo
<1>8. initiated = 1 => info'.counts = NewCounts
  BY <1>2, <1>3, ReqInfo DEF Calls
<1>9. Calls' /\ StatusKept'
  BY <1>1, <1>3, <1>4, <1>8 DEF Calls, StatusKept, NewCounts
<1>10. AnswerComplete' /\ AnswerKept'
  BY <1>1, <1>3, ReqInfo, NewInfoFields DEF AnswerComplete, AnswerKept
<1> QED BY <1>4, <1>5, <1>7, <1>9, <1>10

LEMMA HeadersDuplicatesStep ==
    ASSUME Inv, NEW n, HeadersDuplicates(n)
    PROVE  Inv'
<1> USE DEF Inv
<1>1. /\ apc = "handler" /\ n \in 1 .. pipe /\ pipe' = pipe - n /\ ctxHeaders' = "-1"
      /\ ctxHeaders # "-1" /\ conf.highest # NONE /\ ResponseEnded /\ ~xDupLog
      /\ prepareRequestInfo /\ initiated' = initiated + 1
      /\ initiateDuplication(CopiedHeaders, "headers")
      /\ UNCHANGED <<requestVars, inputVars, ctxBody, responseVars, reply, sent, outcome>>
  BY DEF HeadersDuplicates, Called, initiateDuplication, RunOne
<1>2. /\ todo' \in 0 .. MaxCalls
      /\ \/ apc' = "headers" /\ place' = place
         \/ apc' = apc /\ place' \in {"queued", "dropped"}
  BY <1>1 DEF initiateDuplication, RunOne, TypeOK
<1>3. respEos /\ info.made /\ initiated = 0 /\ sent = {} /\ place = "request"
  BY <1>1, EndedFacts
<1>4. /\ IsInfo(info') /\ info'.made = TRUE /\ info'.mBody = reqInfo.mBody
      /\ info'.mAnswer = reqInfo.mAnswer /\ info'.mEOS = reqInfo.mEOS
      /\ info'.counts = NewCounts
      /\ info'.status = reqInfo.status /\ info'.comp = reqInfo.comp
  <2> DEFINE i == CopiedHeaders
  <2>1. /\ IsInfo(i) /\ i.made = TRUE /\ i.mBody = reqInfo.mBody
        /\ i.mAnswer = reqInfo.mAnswer /\ i.mEOS = reqInfo.mEOS
        /\ i.status = reqInfo.status /\ i.comp = reqInfo.comp
    BY CopiedFields
  <2>2. initiateDuplication(i, "headers")
    BY <1>1
  <2> HIDE DEF i
  <2>3. /\ IsInfo(info') /\ info'.made = TRUE /\ info'.counts = NewCounts
        /\ info'.mBody = i.mBody /\ info'.mAnswer = i.mAnswer /\ info'.mEOS = i.mEOS
        /\ info'.status = i.status /\ info'.comp = i.comp
    BY <2>1, <2>2, InitiateFields
  <2> QED BY <2>1, <2>3
<1>5. /\ InfoOK' /\ BodyKept'
      /\ ~conf.substitutions => info'.status = outcome.status /\ info'.comp = outcome.comp
  BY <1>1, <1>4, SameContents
<1>6. TypeOK'
  BY <1>1, <1>2, <1>3, BoundsAssumption DEF TypeOK, Flow, Contexts
<1>7. Flow'
  BY <1>1, <1>2, <1>3, <1>4 DEF Flow, Eligible, TypeOK, prepareRequestInfo, ResponseEnded
<1>8. reply.compare = "none"
  BY <1>1 DEF StatusKept
<1>9. Calls' /\ StatusKept'
  BY <1>1, <1>3, <1>4, <1>5, <1>8 DEF Calls, StatusKept, NewCounts
<1>10. AnswerComplete' /\ AnswerKept'
  BY <1>1, <1>3, <1>4, ReqInfo DEF AnswerComplete, AnswerKept
<1> QED BY <1>5, <1>6, <1>7, <1>9, <1>10

LEMMA WorkerTakesStep ==
    ASSUME Inv, WorkerTakes
    PROVE  Inv'
<1> USE DEF Inv
<1>1. /\ place = "queued" /\ place' = "worker" /\ info' = [info EXCEPT !.log = TRUE]
      /\ todo' \in 0 .. MaxCalls
      /\ UNCHANGED <<requestVars, inputVars, ctxBody, ctxHeaders, responseVars, pipe, apc,
                     initiated, reply, sent, outcome>>
  BY DEF WorkerTakes, RunOne
<1>2. initiated = 1 /\ ~xDupLog /\ info.made /\ reply.compare = "none"
  BY <1>1 DEF Flow, Eligible, StatusKept
<1>3. IsInfo(info)
  BY <1>2 DEF InfoOK, None
<1>4. /\ IsInfo(info') /\ info'.made = TRUE /\ info'.mBody = info.mBody
      /\ info'.mAnswer = info.mAnswer /\ info'.mEOS = info.mEOS /\ info'.counts = info.counts
      /\ info'.status = info.status /\ info'.comp = info.comp
  BY <1>1, <1>3, LogUpdate
<1>5. TypeOK' /\ InfoOK'
  BY <1>1, <1>4 DEF TypeOK, InfoOK
<1>6. Flow'
  BY <1>1, <1>2, <1>4 DEF Flow, Eligible
<1>7. Calls' /\ BodyKept' /\ AnswerComplete' /\ AnswerKept'
  BY <1>1, <1>2, <1>4 DEF Calls, NewCounts, BodyKept, AnswerComplete, AnswerKept
<1>8. StatusKept'
  BY <1>1, <1>2, <1>4 DEF StatusKept
<1> QED BY <1>5, <1>6, <1>7, <1>8

LEMMA CurlStep ==
    ASSUME Inv, performCurlCall
    PROVE  Inv'
<1> USE DEF Inv
<1>1. PICK type \in NONE .. conf.highest, status \in {"ok", "error"}, comp \in BOOLEAN :
        /\ sent' = {Duplicate(type)}
        /\ outcome' = Noted(outcome, status, comp)
        /\ info' = IF conf.substitutions THEN info ELSE Noted(info, status, comp)
  BY DEF performCurlCall
<1>2. /\ apc \in {"body", "headers"} \/ place = "worker"
      /\ todo > 0 /\ todo' = todo - 1
      /\ UNCHANGED <<requestVars, inputVars, ctxBody, ctxHeaders, responseVars, pipe, place,
                     apc, initiated, reply>>
  BY DEF performCurlCall
<1>3. initiated = 1 /\ info.made /\ Eligible /\ respEos
  BY <1>2 DEF Flow, Eligible
<1>4. IsInfo(info)
  BY <1>3 DEF InfoOK, None
<1>5. /\ IsInfo(info') /\ info'.made = TRUE /\ info'.mBody = info.mBody
      /\ info'.mAnswer = info.mAnswer /\ info'.mEOS = info.mEOS /\ info'.counts = info.counts
      /\ ~conf.substitutions => info'.status = status /\ info'.comp = (info.comp \/ comp)
  <2>1. CASE conf.substitutions
    BY <1>1, <1>3, <1>4, <2>1 DEF IsInfo
  <2>2. CASE ~conf.substitutions
    <3>1. info' = Noted(info, status, comp) /\ status \in Statuses
      BY <1>1, <2>2 DEF Statuses
    <3> QED BY <1>4, <2>2, <3>1 DEF IsInfo, Noted
  <2> QED BY <2>1, <2>2
<1>6. /\ outcome' \in [status : Statuses, comp : BOOLEAN]
      /\ outcome'.status = status /\ outcome'.comp = (outcome.comp \/ comp)
  BY <1>1 DEF Noted, StatusKept, Statuses
<1>7. /\ \A d \in sent' : d.count = SentCount(info.counts) /\ sent' # {}
      /\ \A d \in sent' : d.body = info.mBody \/ d.body = <<>>
      /\ \A d \in sent' : d.type = REQUEST_WITH_ANSWER =>
                            d.answer = info.mAnswer /\ type = REQUEST_WITH_ANSWER
  BY <1>1 DEF Duplicate
<1>8. TypeOK' /\ InfoOK'
  BY <1>2, <1>5, <1>6, BoundsAssumption DEF TypeOK, InfoOK, Statuses
<1>9. Flow'
  BY <1>2, <1>3, <1>5 DEF Flow, Eligible
<1>10. Calls'
  <2>1. SentCount(info.counts) = dupCount + 1
    BY <1>3, SentCountIsNext DEF Calls, TypeOK
  <2> QED BY <1>2, <1>3, <1>5, <1>7, <2>1 DEF Calls, NewCounts
<1>11. BodyKept'
  <2>1. ASSUME ~readFailed, NEW d \in sent' PROVE \E k \in Nat : d.body = Buckets(1, k)
    <3>1. CASE d.body = info.mBody
      BY <1>3, <2>1, <3>1 DEF BodyKept
    <3>2. CASE d.body = <<>>
      BY <3>2, NoBuckets
    <3> QED BY <1>7, <3>1, <3>2
  <2> QED BY <1>2, <1>3, <1>5, <2>1 DEF BodyKept
<1>12. AnswerComplete' /\ AnswerKept'
  <2>1. type = REQUEST_WITH_ANSWER => conf.highest = REQUEST_WITH_ANSWER
    <3>1. conf.highest \in Highest
      BY DEF TypeOK, Confs
    <3>2. conf.highest \in 0 .. 3
      BY <3>1, HighestAssumption
    <3> QED BY <3>2
  <2> QED BY <1>2, <1>3, <1>5, <1>7, <2>1 DEF AnswerComplete, AnswerKept
<1>13. StatusKept'
  <2>1. reply.compare = "none"
    BY <1>2 DEF StatusKept, TypeOK
  <2>2. ~conf.substitutions => info'.comp = outcome'.comp /\ info'.status = outcome'.status
    BY <1>3, <1>5, <1>6 DEF StatusKept
  <2>3. sent' # {} /\ outcome'.status # "unset"
    BY <1>1, <1>6
  <2> QED BY <1>2, <1>5, <1>6, <2>1, <2>2, <2>3 DEF StatusKept
<1> QED BY <1>8, <1>9, <1>10, <1>11, <1>12, <1>13

LEMMA SyncDoneStep ==
    ASSUME Inv, SyncDone
    PROVE  Inv'
<1> USE DEF Inv
<1>1. /\ apc \in {"body", "headers"} /\ todo = 0 /\ apc' = "handler"
      /\ ctxBody' = IF apc = "body" THEN "-1" ELSE ctxBody
      /\ pipe' = IF apc = "body" THEN pipe + 1 ELSE pipe
      /\ UNCHANGED <<requestVars, inputVars, ctxHeaders, info, responseVars, place, curlVars,
                     initiated>>
  BY DEF SyncDone
<1>2. /\ ~xDupLog => reply' = reply
      /\ xDupLog => reply'.compare = checkCurlResponseCompareStatus(info)
  BY DEF SyncDone
<1>3. initiated = 1 /\ info.made /\ Eligible /\ respEos
  BY <1>1 DEF Flow, Eligible
<1>4. TypeOK' /\ InfoOK'
  <2>1. pipe' \in 0 .. MaxBrigades
    BY <1>1, BoundsAssumption DEF TypeOK, Flow
  <2> QED BY <1>1, <2>1 DEF TypeOK, InfoOK, Contexts
<1>5. Flow'
  BY <1>1, <1>3 DEF Flow, Eligible, TypeOK
<1>6. Calls' /\ BodyKept' /\ AnswerComplete' /\ AnswerKept'
  BY <1>1 DEF Calls, NewCounts, BodyKept, AnswerComplete, AnswerKept
<1>7. ~conf.substitutions =>
         checkCurlResponseCompareStatus(info) = checkCurlResponseCompareStatus(outcome)
  BY <1>3 DEF StatusKept, checkCurlResponseCompareStatus
<1>8. StatusKept'
  <2>1. CASE xDupLog
    BY <1>1, <1>2, <1>3, <1>7, <2>1 DEF StatusKept, checkCurlResponseCompareStatus
  <2>2. CASE ~xDupLog
    BY <1>1, <1>2, <1>3, <2>2 DEF StatusKept, checkCurlResponseCompareStatus
  <2> QED BY <2>1, <2>2
<1> QED BY <1>4, <1>5, <1>6, <1>8

\* The steps that only move the request on.
LEMMA PlaceStep ==
    ASSUME Inv, Evicted \/ WorkerDone \/ EndRequest
    PROVE  Inv'
<1> USE DEF Inv
<1>1. UNCHANGED <<requestVars, inputVars, ctxBody, ctxHeaders, info, responseVars, pipe,
                  curlVars, initiated, reply>>
  BY DEF Evicted, WorkerDone, EndRequest
<1>2. /\ place' \in {place, "dropped", "done"} /\ (place' # place => place # "request")
      /\ apc' \in {apc, "ended"} /\ (apc' # apc => apc = "handler" /\ respEos /\ pipe = 0)
  BY DEF Evicted, WorkerDone, EndRequest
<1>3. TypeOK' /\ InfoOK'
  BY <1>1, <1>2 DEF TypeOK, InfoOK
<1>4. Flow'
  BY <1>1, <1>2 DEF Flow, Eligible, TypeOK
<1>5. Calls' /\ BodyKept' /\ AnswerComplete' /\ AnswerKept' /\ StatusKept'
  BY <1>1 DEF Calls, NewCounts, BodyKept, AnswerComplete, AnswerKept, StatusKept,
     checkCurlResponseCompareStatus
<1> QED BY <1>3, <1>4, <1>5

\* A new request begins as Init has it, but for its count.
Fresh ==
    /\ info = None /\ nextIn = 1 /\ answer = <<>> /\ respEos = FALSE /\ brigades = 0
    /\ pipe = 0 /\ ctxBody = "null" /\ ctxHeaders = "null"
    /\ place = "request" /\ apc = "handler" /\ todo = 0 /\ sent = {}
    /\ outcome = NoOutcome /\ initiated = 0 /\ reply = NoReply /\ hops = dupCount

LEMMA FreshInv ==
    Fresh => InfoOK /\ Flow /\ Calls /\ BodyKept /\ AnswerComplete /\ AnswerKept /\ StatusKept
<1> SUFFICES ASSUME Fresh
             PROVE  /\ InfoOK /\ Flow /\ Calls /\ BodyKept /\ AnswerComplete /\ AnswerKept
                    /\ StatusKept
  OBVIOUS
<1> USE DEF Fresh
<1>1. info.made = FALSE
  BY DEF None
<1>2. InfoOK /\ Calls /\ AnswerComplete
  BY DEF InfoOK, Calls, AnswerComplete
<1>3. Flow
  BY <1>1 DEF Flow
<1>4. BodyKept /\ AnswerKept
  BY <1>1 DEF BodyKept, AnswerKept
<1>5. StatusKept
  BY <1>1 DEF StatusKept, NoOutcome, NoReply, Statuses
<1> QED BY <1>2, <1>3, <1>4, <1>5

LEMMA NextHopStep == Inv /\ NextHop => TypeOK' /\ Fresh'
<1> SUFFICES ASSUME Inv, NextHop PROVE TypeOK' /\ Fresh'
  OBVIOUS
<1> USE DEF Inv
<1>1. PICK d \in sent : dupCount' = d.count
  BY DEF NextHop
<1>2. dupCount' = dupCount + 1 /\ initiated = 1
  BY <1>1 DEF Calls
<1>3. dupCount' \in 0 .. 4
  BY <1>2 DEF Flow, Eligible, TypeOK
<1>4. hops' = dupCount' /\ hops' \in 0 .. MaxHops
  BY <1>2, BoundsAssumption DEF NextHop, Calls, TypeOK
<1>5. Fresh'
  BY <1>4 DEF NextHop, Fresh, None, NoOutcome, NoReply
<1>6. TypeOK'
  <2>1. bodyLen' \in 0 .. MaxBody /\ nextIn' \in 1 .. bodyLen' + 1
    BY BoundsAssumption DEF NextHop, TypeOK
  <2>2. {ctxIn, ctxBody, ctxHeaders}' \subseteq Contexts
    BY DEF NextHop, Contexts
  <2>3. brigades' \in 0 .. MaxBrigades /\ pipe' \in 0 .. MaxBrigades /\ todo' \in 0 .. MaxCalls
    BY BoundsAssumption DEF NextHop
  <2>4. outcome'.status \in {"unset", "ok", "error"} /\ outcome'.comp \in BOOLEAN
    BY DEF NextHop, NoOutcome
  <2> QED BY <1>3, <1>4, <2>1, <2>2, <2>3, <2>4 DEF NextHop, TypeOK
<1> QED BY <1>5, <1>6

\* The invariant of the whole request. Flow is what makes it inductive: the
\* hand-over is tied to the end of stream and to the filters' contexts.
THEOREM RequestInvariant == Spec => []Inv
<1>1. Init => TypeOK /\ Fresh
  <2> SUFFICES ASSUME Init PROVE TypeOK /\ Fresh
    OBVIOUS
  <2>1. Fresh
    BY DEF Init, Fresh
  <2>2. bodyLen \in Nat /\ nextIn \in 1 .. bodyLen + 1
    BY BoundsAssumption DEF Init
  <2>3. {ctxIn, ctxBody, ctxHeaders} \subseteq Contexts
    BY DEF Init, Contexts
  <2>4. /\ brigades \in 0 .. MaxBrigades /\ pipe \in 0 .. MaxBrigades /\ todo \in 0 .. MaxCalls
        /\ hops \in 0 .. MaxHops
    BY BoundsAssumption DEF Init
  <2>5. outcome.status \in {"unset", "ok", "error"} /\ outcome.comp \in BOOLEAN
    BY DEF Init, NoOutcome
  <2>6. /\ conf \in Confs /\ xDupLog \in BOOLEAN
        /\ inEos \in BOOLEAN /\ readFailed \in BOOLEAN /\ respEos \in BOOLEAN
        /\ bodyLen \in 0 .. MaxBody
        /\ place = "request" /\ apc = "handler"
    BY Zenon DEF Init
  <2>7. dupCount \in 0 .. 4 /\ initiated \in Nat
    BY DEF Init
  <2>8. TypeOK
    BY <2>2, <2>3, <2>4, <2>5, <2>6, <2>7 DEF TypeOK
  <2> QED BY <2>1, <2>8
<1>2. Inv /\ [Next]_vars => Inv' \/ (Inv /\ NextHop)
  <2> SUFFICES ASSUME Inv, [Next]_vars, ~NextHop PROVE Inv'
    OBVIOUS
  <2>1. ASSUME OutputBodyFilterHandler PROVE Inv'
    BY <2>1, DeclinesStep, CollectsStep, EndsStep, EndsAndDuplicatesStep
    DEF OutputBodyFilterHandler
  <2>2. ASSUME OutputHeadersFilterHandler PROVE Inv'
    BY <2>2, HeadersDeclinesStep, HeadersCollectsStep, HeadersDuplicatesStep
    DEF OutputHeadersFilterHandler
  <2>3. CASE UNCHANGED vars
    <3>1. TypeOK' /\ InfoOK' /\ Flow' /\ Calls'
      BY <2>3 DEF Inv, vars, TypeOK, InfoOK, Flow, Eligible, Calls, NewCounts
    <3>2. BodyKept' /\ AnswerComplete' /\ AnswerKept' /\ StatusKept'
      BY <2>3 DEF Inv, vars, BodyKept, AnswerComplete, AnswerKept, StatusKept,
         checkCurlResponseCompareStatus
    <3> QED BY <3>1, <3>2 DEF Inv
  <2> QED
    BY <2>1, <2>2, <2>3, InputStep, WorkerTakesStep, CurlStep, SyncDoneStep, PlaceStep
    DEF Next, Terminated
<1> QED BY <1>1, <1>2, FreshInv, NextHopStep, PTL DEF Spec, Inv

\* Types, and that the count of a request never passes 4 (TypeOK).
THEOREM RequestTypeCorrect == Spec => []TypeOK
<1>1. Inv => TypeOK
  BY DEF Inv
<1> QED BY <1>1, RequestInvariant, PTL

\* Every eligible request is handed over exactly once, by the body filter or by
\* the headers filter, and no other request is (ExactlyOnce).
THEOREM HandedOverOnce == Spec => []ExactlyOnce
<1>1. Inv => ExactlyOnce
  BY DEF Inv, Flow, Eligible, ExactlyOnce
<1> QED BY <1>1, RequestInvariant, PTL

\* A duplicate with the answer carries all of it (AnswerComplete).
THEOREM AnswersAreComplete == Spec => []AnswerComplete
<1>1. Inv => AnswerComplete
  BY DEF Inv
<1> QED BY <1>1, RequestInvariant, PTL

\* A duplicate's body has no hole unless a bucket was unreadable (BodyIsPrefix).
THEOREM BodiesArePrefixes == Spec => []BodyIsPrefix
<1>1. Inv => BodyIsPrefix
  <2> SUFFICES ASSUME Inv, NEW d \in sent, ~readFailed PROVE d.body = Buckets(1, Len(d.body))
    BY DEF BodyIsPrefix
  <2>1. PICK k \in Nat : d.body = Buckets(1, k)
    BY DEF Inv, BodyKept
  <2> QED BY <2>1, BucketsLen
<1> QED BY <1>1, RequestInvariant, PTL

\* The client that asked for it is told the truth, unless substitutions are
\* configured (StatusReported).
THEOREM StatusIsReported == Spec => []StatusReported
<1>1. Inv => StatusReported
  BY DEF Inv, StatusKept, StatusReported, checkCurlResponseCompareStatus, Statuses
<1> QED BY <1>1, RequestInvariant, PTL

\* Servers that duplicate to each other, or to themselves, stop after 4 hops
\* (ChainBounded), however long a chain the model would allow.
THEOREM ChainsEnd == Spec => []ChainBounded
<1>1. Inv => ChainBounded
  BY DEF Inv, Calls, TypeOK, ChainBounded
<1> QED BY <1>1, RequestInvariant, PTL

\* The output filters leave the answer and the headers alone while the pool
\* has the request (AnswerFrozen), although the input filter still runs.
THEOREM AnswersAreFrozen == Spec => AnswerFrozen
<1>1. ASSUME Inv, [Next]_vars, InPool PROVE UNCHANGED Answered
  <2>1. /\ info.made /\ ctxBody = "-1" /\ ctxHeaders = "-1" /\ initiated = 1 /\ reqInfo = info
        /\ apc \notin {"body", "headers"} \/ apc = "headers"
    BY <1>1, ReqInfo DEF InPool, Inv, Flow, Eligible
  <2>2. IsInfo(info)
    BY <1>1, <2>1 DEF Inv, InfoOK, None
  <2>3. CASE UNCHANGED info
    BY <2>3 DEF Answered
  <2>4. CASE InputFilterHandler
    <3>1. PICK x : info' = [info EXCEPT !.mBody = x]
      BY <2>1, <2>4 DEF InputFilterHandler, InputReads, InputFails, InputBucketFails, Input
    <3> QED BY <2>2, <3>1 DEF IsInfo, Answered
  <2>5. CASE OutputBodyFilterHandler
    BY <2>1, <2>3, <2>5
    DEF OutputBodyFilterHandler, BodyDeclines, BodyCollects, BodyEnds, BodyEndsAndDuplicates,
        Declined
  <2>6. CASE OutputHeadersFilterHandler
    BY <2>1, <2>3, <2>6
    DEF OutputHeadersFilterHandler, HeadersDeclines, HeadersCollects, HeadersEnds,
        HeadersDuplicates
  <2>7. CASE WorkerTakes
    <3>1. info' = [info EXCEPT !.log = TRUE]
      BY <2>7 DEF WorkerTakes, RunOne
    <3> QED BY <2>2, <3>1 DEF IsInfo, Answered
  <2>8. CASE performCurlCall
    <3>1. PICK s \in {"ok", "error"}, c \in BOOLEAN :
            info' = info \/ info' = Noted(info, s, c)
      BY <2>8 DEF performCurlCall
    <3>2. CASE info' = Noted(info, s, c)
      BY <2>2, <3>2 DEF IsInfo, Answered, Noted
    <3> QED BY <2>3, <3>1, <3>2
  <2>9. ~NextHop
    BY <1>1 DEF NextHop, Settled, InPool
  <2>10. CASE Evicted \/ WorkerDone \/ SyncDone \/ EndRequest \/ Terminated \/ UNCHANGED vars
    BY <2>3, <2>10 DEF Evicted, WorkerDone, SyncDone, EndRequest, Terminated, vars
  <2> QED BY <1>1, <2>4, <2>5, <2>6, <2>7, <2>8, <2>9, <2>10 DEF Next
<1>2. Inv /\ [Next]_vars => [InPool => UNCHANGED Answered]_vars
  BY <1>1
<1> QED BY <1>2, RequestInvariant, PTL DEF Spec, AnswerFrozen
=============================================================================
