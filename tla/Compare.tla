------------------------------ MODULE Compare ------------------------------
(***************************************************************************)
(* mod_compare from its configuration to its log, with mod_migrate in the  *)
(* same server: the directives, the translate hooks, the input filters     *)
(* that unpack a duplicated request (module DupFormat), the two output     *)
(* filters that collect and compare its answer (module LibWsDiff), the     *)
(* differences that Cassandra's users left, and the record in the log      *)
(* (module CompareLog).                                                    *)
(*                                                                         *)
(* A scenario gives the directives of the one location, what the server    *)
(* finds when it starts, the translate hooks that Apache calls (none on an *)
(* Alias), the requests of the threads, and whether the handler reads,     *)
(* reads fail and a process is killed. The handler that serves the         *)
(* location, the network and the filters between ours are Apache's: they   *)
(* read and pass on what they like.                                        *)
(*                                                                         *)
(* Definitions whose name starts with Faulty are not part of the model:    *)
(* each is the definition after it with a plausible bug, kept to see that  *)
(* the properties notice it.                                               *)
(***************************************************************************)
EXTENDS DupFormat, LibWsDiff, Migrate, CompareLog, FiniteSets

CONSTANTS
    Scenarios,  \* see above
    Number,     \* the texts that are numbers, and the numbers
    CMaxBytes,  \* how much the modules ask for when they read a whole body
    ReadSizes   \* how much a handler asks for

\* What is sent is text, and the original headers have no others than lines.
IsRequest(q) ==
    /\ q.args \in Seq(Range(q.args)) /\ IsFiniteSet(DOMAIN q.headers)
    /\ q.answer \in Seq(Range(q.answer))
    /\ q.text \in Seq(Range(q.text)) /\ q.body \in Seq(Range(q.body))
    /\ q.original \in Seq(Range(q.original)) /\ q.originalBody \in Seq(Range(q.originalBody))
    /\ Range(q.original) \subseteq Range(Lines)

\* Apache calls the hook of each module once, in any order, or has none to call.
HookOrders == {<<>>, <<"compare">>, <<"migrate">>, <<"compare", "migrate">>, <<"migrate", "compare">>}

ASSUME CompareAssumption ==
    /\ CMaxBytes \in Nat \ {0} /\ ReadSizes \subseteq Nat \ {0}
    /\ \A s \in Scenarios : /\ s.shm \in {"none", "empty", "zero", "ready", "denied"}
                            /\ s.hooks \in HookOrders
                            /\ s.directives \in Seq(Range(s.directives))
                            /\ DOMAIN s.requests \subseteq Threads
                            /\ \A t \in DOMAIN s.requests : IsRequest(s.requests[t])

VARIABLES
    scenario,
    phase,      \* config, running or refused (the server does not start)
    todo,       \* the directives still to read
    conf,       \* CompareConf and MigrateConf of the location, and gWriteInFile
    rq,         \* the requests, by thread
    cassandra   \* by process: <<thread, field>>, the differences its handler found

vars == <<scenario, phase, todo, conf, rq, cassandra, logVars>>

Request(t) == scenario.requests[t]
Serving == DOMAIN scenario.requests

CompareConf == [mLogType |-> "json", mCompareDisabled |-> FALSE, mIsActive |-> FALSE,
                mCompHeader |-> NoRules, mCompBody |-> NoRules]

NoInfo == [present |-> FALSE, mBody |-> <<>>, mReqBody |-> <<>>, mResponseHeader |-> <<>>,
           mResponseBody |-> <<>>, offset |-> 0, mReqHttpStatus |-> -1, mReqHeader |-> <<>>,
           mDupResponseBody |-> <<>>, eos |-> FALSE]

NoRecord == [header |-> {}, body |-> FALSE, cassandra |-> {}]

\* What the network brings is the text of the request's body. As history: failed,
\* whether a read of the network has failed, and cut, whether a part of the body
\* was lost, or taken for all of it, because of a failure.
NewRequest(q, hooks) ==
    [pc |-> "translate", hooks |-> hooks, net |-> q.text, failed |-> FALSE, cut |-> FALSE,
     mig |-> [read |-> FALSE, body |-> <<>>, ctx |-> 0], env |-> <<>>,
     method |-> q.method, headers |-> q.headers, info |-> NoInfo,
     ictx |-> 0, readbytes |-> 0, got |-> <<>>, eos |-> FALSE, error |-> FALSE,
     toSend |-> q.answer, headersOut |-> q.answerHeaders, ended |-> FALSE, unread |-> FALSE,
     off |-> FALSE, off2 |-> FALSE, toPass |-> FALSE, again |-> FALSE,
     printer |-> NoRecord, logged |-> FALSE]

Init ==
    /\ scenario \in Scenarios
    /\ phase = "config"
    /\ todo = scenario.directives
    /\ conf = [compare |-> CompareConf, migrate |-> MigrateConf, gWriteInFile |-> TRUE]
    /\ rq = [t \in Serving |-> NewRequest(Request(t), scenario.hooks)]
    /\ cassandra = [p \in Processes |-> {}]
    /\ LogInit(scenario.shm)

-----------------------------------------------------------------------------
(* The directives. A regular expression that boost refuses is an exception *)
(* nobody catches, so it ends the start as an error does.                  *)

BadRegex == {"bad"}
d == Head(todo)

Directive(name, accepted, newConf) ==
    /\ phase = "config" /\ todo # <<>> /\ d.name = name
    /\ todo' = Tail(todo)
    /\ phase' = IF accepted THEN phase ELSE "refused"
    /\ conf' = IF accepted THEN newConf ELSE conf
    /\ UNCHANGED <<scenario, rq, cassandra, logVars>>

ListTypes == [STOP |-> "stop", IGNORE |-> "ignore"]

setBodyList ==
    Directive("CompareBody", d.list \in DOMAIN ListTypes /\ d.re # BadRegex,
              [conf EXCEPT !.compare.mCompBody[ListTypes[d.list]] = Append(@, d.re)])

setHeaderList ==
    Directive("CompareHeader", d.list \in DOMAIN ListTypes /\ d.re # BadRegex,
              [conf EXCEPT !.compare.mCompHeader[ListTypes[d.list]] = AddRule(@, d.key, d.re)])

\* The log types by name; archive leaves mLogType as it is.
LogTypes == [multiline |-> "multiline", simplejson |-> "json", utf8json |-> "json"]

setDiffLogType ==
    Directive("CompareLogType", d.type \in DOMAIN LogTypes \cup {"archive"},
              [conf EXCEPT !.compare.mCompareDisabled = d.type = "archive",
                           !.compare.mLogType = IF d.type = "archive" THEN @ ELSE LogTypes[d.type]])

setDisableLibwsdiff ==
    Directive("DisableLibwsdiff", TRUE, [conf EXCEPT !.compare.mCompareDisabled = d.value])

setCompareLog ==
    Directive("CompareLog", d.type \in {"FILE", "SYSLOG"},
              [conf EXCEPT !.gWriteInFile = d.type = "FILE"])

\* The directive takes no argument: the function reads an argument that Apache
\* does not pass. It activates the module, or the read ends the start.
setCompare ==
    \E argument \in {"readable", "unmapped"} :
        Directive("Compare", argument = "readable" /\ scenario.modules,
                  [conf EXCEPT !.compare.mIsActive = TRUE])

setApplicationScope ==
    Directive("MigrateApplicationScope", scenario.modules /\ d.scope \in DOMAIN MigrateScopes,
              [conf EXCEPT !.migrate.mDirName = TRUE, !.migrate.scope = MigrateScopes[d.scope]])

setMigrateEnv ==
    Directive("MigrateEnv", scenario.modules /\ d.re # BadRegex,
              [conf EXCEPT !.migrate.mDirName = TRUE,
                           !.migrate.mEnvLists = Append(@, [var |-> d.var, re |-> d.re, value |-> d.value,
                                                            scope |-> conf.migrate.scope])])

\* postConfig opens the log once as root, childInit in every process.
postConfig ==
    /\ phase = "config" /\ todo = <<>>
    /\ phase' = IF conf.gWriteInFile /\ scenario.file = "denied" THEN "refused" ELSE "running"
    /\ childInit(conf.gWriteInFile /\ scenario.file = "open")
    /\ UNCHANGED <<scenario, todo, conf, rq, cassandra, mutexVars, log, alive, writer>>

Configure ==
    \/ setBodyList \/ setHeaderList \/ setDiffLogType \/ setDisableLibwsdiff
    \/ setCompareLog \/ setCompare \/ setApplicationScope \/ setMigrateEnv
    \/ postConfig

-----------------------------------------------------------------------------
(* A step of thread t, whose request x is.                                 *)

Running(t, pc) ==
    /\ phase = "running" /\ t \in Serving /\ Process[t] \in alive
    /\ rq[t].pc = pc

Becomes(t, x) == rq' = [rq EXCEPT ![t] = x]

OnlyRequest == UNCHANGED <<scenario, phase, todo, conf, cassandra, logVars>>

With(map, key, value) == [k \in DOMAIN map \cup {key} |-> IF k = key THEN value ELSE map[k]]
Without(map, keys) == Restrict(map, DOMAIN map \ keys)
Has(x, key, value) == key \in DOMAIN x.headers /\ x.headers[key] = value
IsDuplicate(x) == Has(x, "Duplication-Type", "Response")

-----------------------------------------------------------------------------
(* Reading. The network gives some of what is left, with or without the    *)
(* end of the stream, or fails; it may be read again after that. A brigade *)
(* is what ap_get_brigade returns, with the request after it.              *)

NetBrigades(x, n) ==
    {[ok |-> TRUE, data |-> SubSeq(x.net, 1, b.cells), eos |-> b.eos,
      x |-> [x EXCEPT !.net = SubSeq(@, b.cells + 1, Len(@))]] :
        b \in {c \in [cells : {Min({1, Len(x.net)}), Min({n, Len(x.net)})}, eos : BOOLEAN] :
                    /\ c.eos => c.cells = Len(x.net)
                    /\ x.net = <<>> => c.eos}}
    \cup {[ok |-> FALSE, data |-> <<>>, eos |-> FALSE, x |-> [x EXCEPT !.failed = TRUE]] :
            i \in IF scenario.faults THEN {1} ELSE {}}

\* Below mod_compare: the filter of mod_migrate where its hook has run. If the
\* filter below that fails, so does the call, and its data is lost.
Brigades(x, n) ==
    LET b == inputFilterBody2Brigade(x.mig.body, x.mig.ctx, n)
        y == [x EXCEPT !.mig.ctx = b.ctx]
    IN IF ~x.mig.read THEN NetBrigades(x, n)
       ELSE IF ~b.next THEN {[ok |-> TRUE, data |-> b.data, eos |-> FALSE, x |-> y]}
       ELSE {[r EXCEPT !.data = IF r.ok THEN b.data \o @ ELSE @,
                       !.x.cut = @ \/ (~r.ok /\ b.data # <<>>)] : r \in NetBrigades(y, n)}

\* How far the buckets of a brigade can be read: in a fault, up to any of them.
Readable(r) == IF scenario.faults THEN 0 .. Len(r.data) ELSE {Len(r.data)}

\* What is appended to the content, whether that is taken for its end, and the
\* request after it. A brigade that fails is the end, and so is a bucket that
\* cannot be read: what is behind it in the brigade is lost.
extractBrigadeContent(brigades) ==
    UNION {{[data |-> SubSeq(r.data, 1, k),
             done |-> ~r.ok \/ r.eos \/ k < Len(r.data),
             x |-> [r.x EXCEPT !.cut = @ \/ ~r.ok \/ k < Len(r.data)]] : k \in Readable(r)} : r \in brigades}

-----------------------------------------------------------------------------
(* The translate hooks.                                                    *)

Methods == {"GET", "PUT", "PATCH", "POST", "DELETE"}

changeMethod(method, pMethod) == IF pMethod \in Methods THEN pMethod ELSE method

\* DUP headers out, method and content type of the original request in.
initRequest(x) ==
    LET method  == IF "X_DUP_METHOD" \in DOMAIN x.headers
                   THEN changeMethod(x.method, x.headers["X_DUP_METHOD"]) ELSE x.method
        marked  == IF Has(x, "Content-Type", "application/x-dup-serialized")
                   THEN With(x.headers, "X-COMPARE-TRANSLATED", "1") ELSE x.headers
        typed   == IF "X_DUP_CONTENT_TYPE" \in DOMAIN marked
                   THEN With(marked, "Content-Type", marked["X_DUP_CONTENT_TYPE"]) ELSE marked
        copied  == Without(typed, {"X_DUP_METHOD", "X_DUP_CONTENT_TYPE"})
        status  == IF "X_DUP_HTTP_STATUS" \in DOMAIN copied THEN copied["X_DUP_HTTP_STATUS"] ELSE ""
    IN [x EXCEPT !.method = method,
                 !.headers = Without(copied, {"ELAPSED_TIME_BY_DUP", "X_DUP_HTTP_STATUS"}),
                 !.info = [NoInfo EXCEPT
                    !.present = TRUE,
                    !.mReqHeader = copied,
                    !.mReqHttpStatus = IF status \in DOMAIN Number THEN Number[status] ELSE -1]]

NextHook(x) == [x EXCEPT !.hooks = Tail(@)]

translateHookCompare(t) ==
    LET x == rq[t]
    IN /\ Running(t, "translate") /\ x.hooks # <<>> /\ Head(x.hooks) = "compare"
       /\ Becomes(t, NextHook(IF conf.compare.mIsActive THEN initRequest(x) ELSE x))
       /\ OnlyRequest

\* The keys and the values of all headers, whose order does not matter.
HeaderWords(headers) ==
    [p \in (DOMAIN headers) \X {"key", "value"} |-> IF p[2] = "key" THEN p[1] ELSE headers[p[1]]]

\* mod_migrate reads the whole body, one brigade a step, then sets the variables.
translateHookMigrate(t) ==
    /\ Running(t, "translate") /\ rq[t].hooks # <<>> /\ Head(rq[t].hooks) = "migrate"
    /\ IF ~conf.migrate.mDirName THEN Becomes(t, NextHook(rq[t]))
       ELSE \E e \in extractBrigadeContent(NetBrigades(rq[t], CMaxBytes)) :
                LET body == rq[t].mig.body \o e.data
                    info == [args |-> Request(t).args, body |-> body,
                             header |-> HeaderWords(e.x.headers)]
                    read == [e.x EXCEPT !.mig.body = body]
                IN Becomes(t, IF ~e.done THEN read
                              ELSE NextHook([read EXCEPT
                                    !.mig.read = TRUE,
                                    !.env = enrichContext(conf.migrate.mEnvLists, info)]))
    /\ OnlyRequest

Translated(t) ==
    /\ Running(t, "translate") /\ rq[t].hooks = <<>>
    /\ Becomes(t, [rq[t] EXCEPT !.pc = "handle"])
    /\ OnlyRequest

-----------------------------------------------------------------------------
(* The input filter, called by the handler for readbytes.                  *)

Delivered(r) ==
    [r.x EXCEPT !.pc = "handle", !.readbytes = 0,
                !.got = @ \o r.data, !.eos = r.eos, !.error = ~r.ok]

\* The request is unpacked: its body is sent, then what the next filter has.
FaultyReinjected(x) ==
    LET toSend == Min({Len(x.info.mReqBody) - x.info.offset, x.readbytes})
        data == SubSeq(x.info.mReqBody, x.info.offset + 1, x.info.offset + toSend)
    IN {Delivered([ok |-> TRUE, data |-> data, eos |-> FALSE,
                   x |-> [x EXCEPT !.info.offset = @ + x.readbytes]]) :
            i \in IF toSend > 0 THEN {1} ELSE {}}
       \cup {Delivered(r) : r \in IF toSend > 0 THEN {} ELSE Brigades(x, x.readbytes)}

Reinjected(x) ==
    LET toSend == Min({Len(x.info.mReqBody) - x.info.offset, x.readbytes})
        data == SubSeq(x.info.mReqBody, x.info.offset + 1, x.info.offset + toSend)
    IN {Delivered([ok |-> TRUE, data |-> data, eos |-> FALSE,
                   x |-> [x EXCEPT !.info.offset = @ + toSend]]) :
            i \in IF toSend > 0 THEN {1} ELSE {}}
       \cup {Delivered(r) : r \in IF toSend > 0 THEN {} ELSE Brigades(x, x.readbytes)}

\* The end of the extraction: a body that cannot be unpacked is an error, and
\* what was unpacked of it stays.
Unpacked(x, parsed) ==
    [x EXCEPT !.ictx = 1,
              !.error = ~parsed.ok,
              !.headers = IF parsed.ok THEN With(@, "Content-Length", Len(parsed.reqBody)) ELSE @,
              !.info.mReqBody = parsed.reqBody,
              !.info.mResponseHeader = parsed.respHeader,
              !.info.mResponseBody = parsed.respBody]

\* After an error the handler may go on reading.
inputFilterHandler(t) ==
    \E n \in ReadSizes :
        LET x == [rq[t] EXCEPT !.readbytes = n]
        IN /\ Running(t, "handle") /\ scenario.reads /\ ~x.eos
           /\ \E y \in IF ~IsDuplicate(x) THEN {Delivered(r) : r \in Brigades(x, n)}
                       ELSE IF x.ictx = 1 THEN Reinjected(x)
                       ELSE {[IF x.info.present THEN x ELSE initRequest(x) EXCEPT !.pc = "extract"]} :
                  Becomes(t, y)
           /\ OnlyRequest

\* One turn of the loop around extractBrigadeContent, and what follows the last.
Unpacks(t) ==
    /\ Running(t, "extract")
    /\ \E e \in extractBrigadeContent(Brigades(rq[t], CMaxBytes)) :
        LET x == [e.x EXCEPT !.info.mBody = @ \o e.data]
        IN IF ~e.done THEN Becomes(t, x)
           ELSE \E parsed \in {deserializeBody(x.info.mBody)} : \E y \in {Unpacked(x, parsed)} :
                   IF y.error THEN Becomes(t, [y EXCEPT !.pc = "handle", !.readbytes = 0])
                   ELSE \E z \in Reinjected(y) : Becomes(t, z)
    /\ OnlyRequest

\* The handler has read enough, and has found what Cassandra holds differently.
StopsReading(t) ==
    /\ Running(t, "handle")
    /\ Becomes(t, [rq[t] EXCEPT !.pc = "respond"])
    /\ cassandra' = [cassandra EXCEPT ![Process[t]] =
                        @ \cup {<<t, f>> : f \in Request(t).cassandra}]
    /\ UNCHANGED <<scenario, phase, todo, conf, logVars>>

-----------------------------------------------------------------------------
(* The first output filter, inserted if the module is active: it collects  *)
(* the answer up to its end. The filters between may hold a brigade back,  *)
(* so that the second one is called for several at once.                   *)

\* Cells of the answer and the end of it; a bucket may turn out unreadable.
AnswerBrigades(x) ==
    {b \in [cells : {Min({1, Len(x.toSend)}), Len(x.toSend)}, eos : BOOLEAN, readable : BOOLEAN] :
        /\ b.eos => b.cells = Len(x.toSend)
        /\ b.cells = 0 => b.eos /\ b.readable
        /\ ~b.readable => scenario.faults}

Collects(x) == conf.compare.mIsActive /\ ~x.off /\ IsDuplicate(x) /\ x.info.present

Collected(x, data, e) ==
    [x EXCEPT !.info.mDupResponseBody = @ \o data,
              !.info.eos = @ \/ e,
              !.headersOut = IF "X_COMP_LOG" \in DOMAIN x.headers
                             THEN With(@, "X-COMP-STATUS", <<"COMPARED">>) ELSE @]

TruncatesFirst(t) == conf.compare.mIsActive /\ Request(t).comp_truncate /\ ~rq[t].off

outputFilterHandler(t) ==
    /\ Running(t, "respond") /\ ~rq[t].ended
    /\ ~TruncatesFirst(t)
    /\ \E b \in AnswerBrigades(rq[t]) :
        LET data == IF b.readable THEN SubSeq(rq[t].toSend, 1, b.cells) ELSE <<>>
            x == [rq[t] EXCEPT !.toSend = SubSeq(@, b.cells + 1, Len(@)),
                               !.ended = b.eos,
                               !.unread = @ \/ ~b.readable,
                               !.toPass = TRUE]
        IN Becomes(t, IF Collects(x) THEN Collected(x, data, b.eos) ELSE [x EXCEPT !.off = TRUE])
    /\ OnlyRequest

\* comp_truncate in the address: the first call reopens the log.
TruncatesLog(t) ==
    /\ t \in Serving /\ TruncatesFirst(t)
    /\ \/ /\ Running(t, "respond")
          /\ Becomes(t, [rq[t] EXCEPT !.pc = "reopen"])
          /\ TruncateCloses(Process[t], conf.gWriteInFile)
       \/ /\ Running(t, "reopen")
          /\ Becomes(t, [rq[t] EXCEPT !.pc = "respond", !.off = TRUE])
          /\ TruncateOpens(Process[t], conf.gWriteInFile)
    /\ UNCHANGED <<scenario, phase, todo, conf, cassandra, mutexVars, alive, writer>>

-----------------------------------------------------------------------------
(* The second output filter compares when the end was seen, and once.      *)

Compares(x) == ~x.off2 /\ x.info.present /\ x.info.eos

Passed(x) == [x EXCEPT !.toPass = FALSE]
Compared(x) == [Passed(x) EXCEPT !.pc = "respond", !.off2 = TRUE]

PassesOn(t) ==
    /\ Running(t, "respond") /\ rq[t].toPass
    /\ ~conf.compare.mIsActive \/ ~Compares(rq[t])
    /\ Becomes(t, Passed(rq[t]))
    /\ OnlyRequest

\* The record is written as archive or, from the printer, as differences.
Writes(t, form) ==
    writer' = [writer EXCEPT ![t] = [NoWriter EXCEPT !.pc = "start", !.form = form,
                                                     !.file = conf.gWriteInFile]]

writeSerializedRequest(t) ==
    LET x == rq[t]
    IN /\ Running(t, "respond") /\ x.toPass /\ Compares(x)
       /\ conf.compare.mIsActive /\ conf.compare.mCompareDisabled
       /\ Becomes(t, [x EXCEPT !.pc = "write", !.logged = TRUE])
       /\ Writes(t, "archive")
       /\ UNCHANGED <<scenario, phase, todo, conf, cassandra, mutexVars, gFile, log, alive>>

SameId(t, entry) == Request(entry[1]).id = Request(t).id

FaultycheckCassandraDiff(t) == \E entry \in cassandra[Process[t]] : ~SameId(t, entry)

checkCassandraDiff(t) == \E entry \in cassandra[Process[t]] : SameId(t, entry)

\* The status is compared too, but a difference in it alone is not written.
Found(x, rules) ==
    [header |-> IF HeaderStopped(rules.mCompHeader, x.info.mResponseHeader, x.headersOut) THEN {}
                ELSE HeaderDifferences(rules.mCompHeader, x.info.mResponseHeader, x.headersOut),
     body |-> BodyDiffers(rules.mCompBody, x.info.mResponseBody, x.info.mDupResponseBody),
     cassandra |-> {}]

outputFilterHandler2(t) ==
    LET x == rq[t]
        printer == Found(x, conf.compare)
        headerDiff == ~HeaderStopped(conf.compare.mCompHeader, x.info.mResponseHeader, x.headersOut)
        differs == isDiff(printer) \/ checkCassandraDiff(t)
                   \/ x.info.mReqHttpStatus \notin {-1, Request(t).answerStatus}
    IN /\ Running(t, "respond") /\ x.toPass /\ Compares(x)
       /\ conf.compare.mIsActive /\ ~conf.compare.mCompareDisabled
       /\ Becomes(t, IF (headerDiff \/ printer.body) /\ differs
                     THEN [x EXCEPT !.pc = "differs", !.printer = printer]
                     ELSE Compared(x))
       /\ OnlyRequest

\* The elapsed time is converted outside of the try block: text that is no
\* number is an exception that ends the process.
ElapsedThrows(x) ==
    /\ "ELAPSED_TIME_BY_DUP" \in DOMAIN x.info.mReqHeader
    /\ x.info.mReqHeader["ELAPSED_TIME_BY_DUP"] \notin DOMAIN Number

writeDifferencesThrows(t) ==
    /\ Running(t, "differs") /\ ElapsedThrows(rq[t])
    /\ Die(Process[t])
    /\ UNCHANGED <<scenario, phase, todo, conf, rq, cassandra>>

FaultywriteCassandraDiff(t) ==
    [taken |-> {entry \in cassandra[Process[t]] : SameId(t, entry)},
     left  |-> cassandra[Process[t]]]

writeCassandraDiff(t) ==
    LET taken == {entry \in cassandra[Process[t]] : SameId(t, entry)}
    IN [taken |-> taken, left |-> cassandra[Process[t]] \ taken]

writeDifferences(t) ==
    LET diff == writeCassandraDiff(t)
        printer == [rq[t].printer EXCEPT !.cassandra = diff.taken]
    IN /\ Running(t, "differs") /\ ~ElapsedThrows(rq[t])
       /\ cassandra' = [cassandra EXCEPT ![Process[t]] = diff.left]
       /\ IF isDiff(printer)
          THEN /\ Becomes(t, [rq[t] EXCEPT !.pc = "write", !.printer = printer, !.logged = TRUE])
               /\ Writes(t, conf.compare.mLogType)
          ELSE /\ Becomes(t, Compared(rq[t]))
               /\ UNCHANGED writer
       /\ UNCHANGED <<scenario, phase, todo, conf, mutexVars, gFile, log, alive>>

WritesRecord(t) ==
    /\ Running(t, "write")
    /\ WriterStep(t)
    /\ UNCHANGED <<scenario, phase, todo, conf, rq, cassandra>>

RecordWritten(t) ==
    /\ Running(t, "write") /\ writer[t].pc \in {"written", "dropped"}
    /\ Becomes(t, Compared(rq[t]))
    /\ OnlyRequest

\* A filter between ours passes something on after the end of the answer.
PassesAgain(t) ==
    /\ Running(t, "respond") /\ rq[t].ended /\ ~rq[t].toPass /\ ~rq[t].again
    /\ Becomes(t, [rq[t] EXCEPT !.toPass = TRUE, !.again = TRUE])
    /\ OnlyRequest

Finishes(t) ==
    /\ Running(t, "respond") /\ rq[t].ended /\ ~rq[t].toPass
    /\ Becomes(t, [rq[t] EXCEPT !.pc = "done"])
    /\ OnlyRequest

-----------------------------------------------------------------------------
Step(t) ==
    \/ translateHookCompare(t) \/ translateHookMigrate(t) \/ Translated(t)
    \/ inputFilterHandler(t) \/ Unpacks(t) \/ StopsReading(t)
    \/ outputFilterHandler(t) \/ TruncatesLog(t)
    \/ PassesOn(t) \/ writeSerializedRequest(t) \/ outputFilterHandler2(t)
    \/ writeDifferencesThrows(t) \/ writeDifferences(t)
    \/ WritesRecord(t) \/ RecordWritten(t)
    \/ PassesAgain(t) \/ Finishes(t)

\* A child is killed; one, so that there is somebody left to wait for.
Crash(p) ==
    /\ phase = "running" /\ scenario.crash /\ alive = Processes
    /\ Die(p)
    /\ UNCHANGED <<scenario, phase, todo, conf, rq, cassandra>>

Wakes(t) ==
    /\ Running(t, "write")
    /\ LockWakes(t)
    /\ UNCHANGED <<scenario, phase, todo, conf, rq, cassandra>>

Next ==
    \/ Configure
    \/ \E t \in Threads : Step(t) \/ Wakes(t)
    \/ \E p \in Processes : Crash(p)

Spec ==
    /\ Init /\ [][Next]_vars
    /\ WF_vars(Configure)
    /\ \A t \in Threads : WF_vars(Step(t))

-----------------------------------------------------------------------------
(* Properties.                                                             *)

\* The configuration, the mutex and the requests have their types; a buffer is
\* never full, no offset leaves its body, and only a comparison starts a record.
TypeOK ==
    /\ phase \in {"config", "running", "refused"}
    /\ conf.compare.mLogType \in {"json", "multiline"}
    /\ shm \in {"none", "empty", "zero", "ready", "denied"}
    /\ owner \in Threads \cup {Nobody} /\ mapped \subseteq Processes /\ alive \subseteq Processes
    /\ \A p \in Processes : Len(gFile[p].buf) < BufSize
    /\ \A t \in Serving :
        /\ rq[t].info.offset \in 0 .. Len(rq[t].info.mReqBody)
        /\ rq[t].mig.ctx \in -1 .. Len(rq[t].mig.body)
        /\ writer[t].pc # "idle" => rq[t].pc = "write" \/ rq[t].off2

\* Written by mod_dup, and no section is longer than its length can say.
WellFormed(q) ==
    /\ q.text = DupContent(q.body, q.original, q.originalBody)
    /\ \A n \in {Len(q.body), Len(q.original), Len(q.originalBody)} : n <= MaxSection

\* The handler reads the body of the original request, never anything else of
\* the format and no more than there is; if it is told that this was the end,
\* it has all of it, however the brigades were cut, with or without
\* mod_migrate, and although reads that fail may be repeated. It is told of an
\* error only if a read failed. The method and the headers of the duplication
\* are gone by then. Nothing is said of the body once a failed read was taken
\* for the end of it (extractBrigadeContent) or took what mod_migrate had put
\* in front of it: the handler may then be given the rest of the format, or a
\* body with a hole.
RequestRestored ==
    \A t \in Serving :
        LET x == rq[t]
            q == Request(t)
            sent == IF IsDuplicate(x) THEN q.body ELSE q.text
        IN WellFormed(q) =>
            /\ ~x.cut => IsPrefix(x.got, sent) /\ (x.eos => x.got = sent)
            /\ x.error => x.failed \/ x.cut
            /\ x.info.present =>
                /\ "X_DUP_METHOD" \in DOMAIN q.headers /\ q.headers["X_DUP_METHOD"] \in Methods
                    => x.method = q.headers["X_DUP_METHOD"]
                /\ {"X_DUP_METHOD", "X_DUP_HTTP_STATUS", "X_DUP_CONTENT_TYPE"} \cap DOMAIN x.headers = {}

\* What mod_migrate looks at: the query string, the whole body, and the headers as
\* they are when its hook runs.
EnvScopes == <<"QUERY_STRING", "BODY", "HEADERS">>
EnvHeaders(t) ==
    IF conf.compare.mIsActive /\ scenario.hooks[1] = "compare"
    THEN initRequest(NewRequest(Request(t), <<>>)).headers ELSE Request(t).headers
EnvTexts(t) == <<Request(t).args, Request(t).text, HeaderWords(EnvHeaders(t))>>

\* Where a rule finds something in one of the texts, and the rules and texts with
\* something for a variable.
EnvPlaces(texts, rule, i) ==
    {k \in DOMAIN texts[i] : EnvScopes[i] \in rule.scope /\ texts[i][k] \in rule.re}
EnvSetters(texts, rules, var) ==
    {m \in (DOMAIN rules) \X (1 .. 3) : /\ rules[m[1]].var = var
                                       /\ EnvPlaces(texts, rules[m[1]], m[2]) # {}}

\* The variables are those for which something was found; the last rule and text
\* count.
EnvOf(texts, rules, env) ==
    /\ DOMAIN env = {rules[i].var : i \in {j \in DOMAIN rules : EnvSetters(texts, rules, rules[j].var) # {}}}
    /\ \A v \in DOMAIN env : \E m \in EnvSetters(texts, rules, v) :
        /\ \A n \in EnvSetters(texts, rules, v) : 3 * n[1] + n[2] <= 3 * m[1] + m[2]
        /\ env[v] = [k \in 1 .. Cardinality(EnvPlaces(texts, rules[m[1]], m[2])) |-> rules[m[1]].value]

\* mod_migrate sets the variables that its rules find in the whole of the request,
\* although the body is read piece by piece and the hook of mod_compare may have
\* changed the headers before, unless a failed read was taken for the end of it.
EnvMatches ==
    \A t \in Serving :
        rq[t].mig.read /\ ~rq[t].cut => EnvOf(EnvTexts(t), conf.migrate.mEnvLists, rq[t].env)

-----------------------------------------------------------------------------
(* Which differences are to be logged, from the directives and from the    *)
(* answers as the two servers sent them.                                   *)

\* The first directive of a list for a header, as a set of at most one.
HeaderRule(list, key) ==
    LET rules == {i \in DOMAIN scenario.directives :
                    LET r == scenario.directives[i]
                    IN r.name = "CompareHeader" /\ r.list = list /\ r.key = key}
    IN {scenario.directives[i].re : i \in {j \in rules : \A k \in rules : j <= k}}

BodyRules(list) ==
    UNION {r.re : r \in {e \in Range(scenario.directives) : e.name = "CompareBody" /\ e.list = list}}

Mentions(words, re) == Range(words) \cap re # {}

\* What is left of a header when the ignored words are taken away, as a set of at
\* most one: there is nothing left of a header of which all is ignored.
LeftOf(map, key) ==
    IF key \notin DOMAIN map THEN {}
    ELSE IF HeaderRule("IGNORE", key) = {} THEN {map[key]}
    ELSE {regex_erase(map[key], re) : re \in HeaderRule("IGNORE", key)} \ {<<>>}

\* The headers of the answer, and those of the original one, where the last line
\* with a key counts.
Answered(t) ==
    IF "X_COMP_LOG" \in DOMAIN Request(t).headers
    THEN With(Request(t).answerHeaders, "X-COMP-STATUS", <<"COMPARED">>) ELSE Request(t).answerHeaders

LastLine(lines, key) ==
    CHOOSE i \in DOMAIN lines : lines[i][1] = key /\ \A n \in i + 1 .. Len(lines) : lines[n][1] # key

Original(t) ==
    LET lines == Request(t).original
    IN [k \in {lines[i][1] : i \in DOMAIN lines} |-> lines[LastLine(lines, k)][2]]

HeadersStop(t) ==
    \E map \in {Original(t), Answered(t)} : \E k \in DOMAIN map :
        Mentions(map[k], UNION HeaderRule("STOP", k))

HeaderKeys(t) ==
    {k \in DOMAIN Original(t) \cup DOMAIN Answered(t) :
        ~HeadersStop(t) /\ LeftOf(Original(t), k) # LeftOf(Answered(t), k)}

BodiesDiffer(t) ==
    LET Left(words) == BodyLines(regex_erase(words, BodyRules("IGNORE")))
    IN /\ ~Mentions(Request(t).originalBody \o Request(t).answer, BodyRules("STOP"))
       /\ Left(Request(t).originalBody) # Left(Request(t).answer)

\* Unpacked and answered without a failure, in a location that compares.
Comparable(t) ==
    /\ WellFormed(Request(t)) /\ ~rq[t].cut /\ ~rq[t].unread
    /\ rq[t].ictx = 1 /\ rq[t].info.eos
    /\ conf.compare.mIsActive

\* The lines of a body in which no IGNORE rule finds anything.
LinesLeft(words) ==
    LET SameLine(i, j) == \A k \in Min({i, j}) .. Max({i, j}) - 1 : words[k] # "\n"
        left == {i \in DOMAIN words :
                    \A j \in DOMAIN words : SameLine(i, j) => words[j] \notin BodyRules("IGNORE")}
    IN [i \in 1 .. Cardinality(left) |->
            words[CHOOSE j \in left : Cardinality({k \in left : k <= j}) = i]]

\* The answers are such that the rules mean the same in USAGE.md and in the code.
\* There a STOP rule stops the whole comparison, here that of the headers or of
\* the bodies; there an IGNORE rule for the body takes the lines in which it finds
\* something, here what it finds.
AsDocumented(t) ==
    LET stopped == Mentions(Request(t).originalBody \o Request(t).answer, BodyRules("STOP"))
        Left(words) == BodyLines(LinesLeft(words))
    IN /\ HeadersStop(t) => ~BodiesDiffer(t)
       /\ stopped => HeaderKeys(t) = {}
       /\ ~stopped => (BodiesDiffer(t) <=> Left(Request(t).originalBody) # Left(Request(t).answer))

\* A request that is through is in the log exactly if the answer differs from
\* the original one, in what the rules leave of it, or Cassandra had something
\* on it; the record has these differences and no others. This is said where the
\* code and USAGE.md agree on what the rules leave. (The code also means to log a
\* difference in the status alone, and does not.)
DifferencesLogged ==
    \A t \in Serving :
        rq[t].pc = "done" /\ Comparable(t) /\ ~conf.compare.mCompareDisabled /\ AsDocumented(t) =>
            LET printer == rq[t].printer
            IN /\ rq[t].logged <=> HeaderKeys(t) # {} \/ BodiesDiffer(t) \/ printer.cassandra # {}
               /\ rq[t].logged => /\ {h.key : h \in printer.header} = HeaderKeys(t)
                                  /\ printer.body = BodiesDiffer(t)

\* The differences of Cassandra in the record of a request, and those found
\* during a request that are no longer in the map.
Reported(t) == rq[t].printer.cassandra
Gone(t) == {<<t, f>> : f \in Request(t).cassandra} \ cassandra[Process[t]]

\* A difference in Cassandra is reported at most once, by a request with its
\* id in its process, and stays in the map until then, although it is looked up
\* in one critical section and taken in another.
CassandraReported ==
    \A t \in Serving :
        /\ \A t2 \in Serving : t2 # t => Reported(t) \cap Reported(t2) = {}
        /\ Reported(t) \cap cassandra[Process[t]] = {}
        /\ \A entry \in Reported(t) : SameId(t, entry) /\ Process[entry[1]] = Process[t]
        /\ rq[t].pc \notin {"translate", "handle", "extract"} =>
            Gone(t) \subseteq UNION {Reported(t2) : t2 \in Serving}

\* The request during which a difference was found is compared after it, so the
\* difference is reported when it is through, unless a STOP rule for a header
\* silenced a request whose bodies are equal.
CassandraComplete ==
    \A t \in Serving :
        rq[t].pc = "done" /\ Comparable(t) /\ ~conf.compare.mCompareDisabled
        /\ (~HeadersStop(t) \/ BodiesDiffer(t))
            => Gone(t) = {<<t, f>> : f \in Request(t).cassandra}

\* Every request is finished, whatever process is killed holding the mutex:
\* nobody waits for it for ever. The exceptions are a server that does not
\* start and a mutex that was used before it was initialised.
WritersProceed ==
    <>(\/ phase = "refused"
       \/ early
       \/ \A t \in Serving : rq[t].pc = "done" \/ Process[t] \notin alive)
============================================================================
