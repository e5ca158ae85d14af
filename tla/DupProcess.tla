----------------------------- MODULE DupProcess -----------------------------
(***************************************************************************)
(* mod_dup from its configuration to the duplicates it sends: the          *)
(* directives of src/src/mod_dup.cc, which fill the DupConf of a location  *)
(* and the Commands of its destinations, and runOne of                     *)
(* src/src/RequestProcessor.cc in several threads at once, which share the *)
(* filters and with them tFilter::mMatch, a string that is written and     *)
(* read without a lock.                                                    *)
(*                                                                         *)
(* A scenario gives the directives and one request for every thread, in    *)
(* the state in which the filter chain (module DupRequest) hands it over;  *)
(* rewrite says whether mod_rewrite is loaded and events whether timeouts, *)
(* stat reports and the end of the pool are considered.                    *)
(* A directive that returns a message ends the start of the server, so     *)
(* what it stored before it failed is not modelled.                        *)
(*                                                                         *)
(* Definitions whose name starts with Faulty are not part of the model:    *)
(* each is the definition after it with a plausible bug, kept to see that  *)
(* the properties notice it.                                               *)
(***************************************************************************)
EXTENDS DupRules

CONSTANTS
    Locations,      \* the locations, each with its DupConf
    DestOrder,      \* the destinations, in the order of std::map
    Workers,        \* the threads that call runOne
    Scenarios,      \* [rewrite, events, directives, requests] records
    Rands,          \* the outcomes of random_r considered
    UnsignedRange,  \* lexical_cast to an unsigned type wraps negative numbers by this
    MaxReports      \* bound on the stat reports

Text == Seq(STRING)
KeyValList == Seq([key : Text, val : Text])
RequestInfo == [mMethod : Text, mPath : Text, mArgs : Text, mParsedArgs : KeyValList,
                mHeadersIn : KeyValList, mBody : Text, mHeadersOut : KeyValList,
                mValidationHeaderDup : BOOLEAN]
NoDestination == ""
FilterTypes == {"REGULAR", "PREVENT_DUPLICATION"}

\* What the functions of the directives are called with, as far as the module
\* itself and not the administrator decides it.
DirectiveOK(x) ==
    /\ x.name = "DupDestination" => /\ x.dest \in Range(DestOrder) \cup {NoDestination}
                                   /\ x.percentage \in -UnsignedRange .. UnsignedRange
    /\ x.name \in {"DupFilter", "DupRawFilter"} => x.type \in FilterTypes
    /\ x.name \in {"DupSubstitute", "DupRawSubstitute"} => x.replacement \in Seq(Range(x.replacement))

ASSUME DupProcessAssumption ==
    /\ DestOrder \in Seq(Range(DestOrder)) /\ IsInjective(DestOrder)
    /\ NoDestination \notin Range(DestOrder)
    /\ IsFiniteSet(Workers)
    /\ \A s \in Scenarios :
          /\ s.rewrite \in BOOLEAN /\ s.events \in BOOLEAN
          /\ s.directives \in Seq(Range(s.directives))
          /\ \A x \in Range(s.directives) : DirectiveOK(x)
          /\ \A t \in Workers : /\ s.requests[t].loc \in Locations
                                /\ s.requests[t].info \in RequestInfo
                                /\ s.requests[t].info.mParsedArgs = <<>>
    /\ Rands \subseteq 0 .. 99
    /\ UnsignedRange \in Nat /\ UnsignedRange > 10001
    /\ MaxReports \in Nat

VARIABLES
    scenario,
    phase,       \* config, running, refused (a directive failed) or crashed
    todo,        \* the directives still to read
    conf,        \* the DupConf of the locations
    mCommands,   \* the Commands by location and destination
    server,      \* what the server-wide directives set; gProcessor says if init() ran
    mMatch,      \* tFilter::mMatch by location, destination and filter
    w,           \* the threads
    isRunning,   \* the queue's, false when the pool is stopping
    counts,      \* mDuplicatedCount and mTimeoutCount
    reported,    \* what the stat lines said so far, and how many there were
    sent         \* the duplicates each thread sent (history)

configVars == <<todo, conf, mCommands, server>>
workVars == <<mMatch, w, isRunning, counts, reported, sent>>
vars == <<scenario, phase, configVars, workVars>>

\* eDuplicationType, in its order.
DuplicationType == [NONE |-> 0, HEADER_ONLY |-> 1, COMPLETE_REQUEST |-> 2,
                    REQUEST_WITH_ANSWER |-> 3]

BadRegex == {"bad"}         \* boost::regex throws
BadNumber == UnsignedRange  \* lexical_cast throws: no number, or too large

DupConf == [currentApplicationScope |-> {"QUERY_STRING"}, dirName |-> FALSE,
            currentDupDestination |-> NoDestination, synchronous |-> FALSE,
            type |-> 0, highest |-> 0]

NewThread == [pc |-> "idle", req |-> <<>>, dests |-> {}, pending |-> NoMatch,
              matched |-> <<>>, dups |-> 0, raced |-> FALSE]

Init ==
    /\ scenario \in Scenarios
    /\ phase = "config"
    /\ todo = scenario.directives
    /\ conf = [l \in Locations |-> DupConf]
    /\ mCommands = [l \in Locations |-> <<>>]
    /\ server = [gProcessor |-> FALSE, codec |-> "default", timeout |-> 0,
                 threads |-> <<>>, queue |-> <<>>]
    /\ mMatch = <<>>
    /\ w = [t \in Workers |-> NewThread]
    /\ isRunning = TRUE
    /\ counts = [duplicated |-> 0, timeout |-> 0]
    /\ reported = [duplicated |-> 0, timeout |-> 0, lines |-> 0]
    /\ sent = [t \in Workers |-> <<>>]

-----------------------------------------------------------------------------
(* The directives. d is the one being read and c the DupConf it applies to. *)

d == Head(todo)
c == conf[d.loc]

Directive(name, accepted) ==
    /\ phase = "config" /\ todo # <<>> /\ d.name = name
    /\ todo' = Tail(todo)
    /\ phase' = IF accepted THEN phase ELSE "refused"
    /\ UNCHANGED <<scenario, workVars>>

SetConf(accepted, newConf) ==
    conf' = IF accepted THEN [conf EXCEPT ![d.loc] = newConf] ELSE conf

init == server' = [server EXCEPT !.gProcessor = TRUE]

lexical_cast(n) == IF n < 0 THEN n + UnsignedRange ELSE n

\* setActive: also called first by the directives of a location that need it.
Activated == [c EXCEPT !.dirName = TRUE]

setActive ==
    /\ Directive("Dup", scenario.rewrite)
    /\ SetConf(scenario.rewrite, Activated)
    /\ UNCHANGED <<mCommands, server>>

setSynchronous ==
    /\ Directive("DupSync", TRUE)
    /\ SetConf(TRUE, [c EXCEPT !.synchronous = TRUE])
    /\ UNCHANGED <<mCommands, server>>

FaultysetDuplicationType ==
    LET accepted == scenario.rewrite /\ d.type \in DOMAIN DuplicationType
        dt == DuplicationType[d.type]
    IN /\ Directive("DupDuplicationType", accepted)
       /\ SetConf(accepted, [Activated EXCEPT !.type = dt, !.highest = dt])
       /\ UNCHANGED <<mCommands, server>>

setDuplicationType ==
    LET accepted == scenario.rewrite /\ d.type \in DOMAIN DuplicationType
        dt == DuplicationType[d.type]
    IN /\ Directive("DupDuplicationType", accepted)
       /\ SetConf(accepted, [Activated EXCEPT !.type = dt,
                                              !.highest = IF dt > @ THEN dt ELSE @])
       /\ UNCHANGED <<mCommands, server>>

setApplicationScope ==
    LET accepted == scenario.rewrite /\ d.scope \in DOMAIN stringToEnum
    IN /\ Directive("DupApplicationScope", accepted)
       /\ SetConf(accepted, [Activated EXCEPT !.currentApplicationScope = stringToEnum[d.scope]])
       /\ init
       /\ UNCHANGED mCommands

setErrorLogBodyMatch ==
    /\ Directive("DupErrorLogBodyMatch", d.re # BadRegex)
    /\ UNCHANGED <<conf, mCommands, server>>

\* mCommands[&conf][destination], which creates what is missing.
CommandsOf(dest) ==
    IF dest \in DOMAIN mCommands[d.loc] THEN mCommands[d.loc][dest] ELSE NewCommands

\* A map after map[key] = value.
Assigned(map, key, value) ==
    [k \in DOMAIN map \cup {key} |-> IF k = key THEN value ELSE map[k]]

SetCommands(accepted, dest, commands) ==
    mCommands' = IF accepted THEN [mCommands EXCEPT ![d.loc] = Assigned(@, dest, commands)]
                 ELSE mCommands

setDestination ==
    LET accepted == /\ scenario.rewrite /\ d.dest # NoDestination
                    /\ d.percentage # BadNumber /\ lexical_cast(d.percentage) <= 10000
    IN /\ Directive("DupDestination", accepted)
       /\ SetConf(accepted, [Activated EXCEPT !.currentDupDestination = d.dest])
       /\ SetCommands(accepted, d.dest, [CommandsOf(d.dest) EXCEPT
                        !.mDuplicationPercentage = lexical_cast(d.percentage)])
       /\ init

\* A rule goes to the destination named last and takes the current scope and type.
Rule(name, accepted, commands) ==
    LET dest == c.currentDupDestination
        ok   == scenario.rewrite /\ dest # NoDestination /\ d.re # BadRegex /\ accepted
    IN /\ Directive(name, ok)
       /\ SetConf(ok, Activated)
       /\ SetCommands(ok, dest, commands)
       /\ init

tFilter == [re |-> d.re, scope |-> c.currentApplicationScope, type |-> d.type,
            dest |-> c.currentDupDestination, dupType |-> c.type]
tSubstitute == [re |-> d.re, replacement |-> d.replacement, scope |-> c.currentApplicationScope]

\* setFilter and setPreventFilter.
addFilter ==
    Rule("DupFilter", c.currentApplicationScope \cap Range(KeyParts) # {},
         [CommandsOf(c.currentDupDestination) EXCEPT
            !.mFilters = Append(@, Assigned(tFilter, "field", to_upper(d.field)))])

\* setRawFilter and setRawPreventFilter.
addRawFilter ==
    Rule("DupRawFilter", TRUE, [CommandsOf(c.currentDupDestination) EXCEPT
                                  !.mRawFilters = Append(@, tFilter)])

addSubstitution ==
    Rule("DupSubstitute", TRUE,
         [CommandsOf(c.currentDupDestination) EXCEPT
            !.mSubstitutions = Append(@, Assigned(tSubstitute, "field", to_upper(d.field)))])

addRawSubstitution ==
    Rule("DupRawSubstitute", TRUE, [CommandsOf(c.currentDupDestination) EXCEPT
                                      !.mRawSubstitutions = Append(@, tSubstitute)])

SetServer(name, accepted, newServer) ==
    /\ Directive(name, accepted)
    /\ server' = IF accepted THEN [newServer EXCEPT !.gProcessor = TRUE] ELSE server
    /\ UNCHANGED <<conf, mCommands>>

setName == SetServer("DupName", TRUE, server)

setUrlCodec ==
    SetServer("DupUrlCodec", TRUE,
              [server EXCEPT !.codec = IF d.codec = "apache" THEN "apache" ELSE "default"])

setTimeout ==
    SetServer("DupTimeout", d.ms # BadNumber, [server EXCEPT !.timeout = lexical_cast(d.ms)])

Ordered(min, max) ==
    min # BadNumber /\ max # BadNumber /\ lexical_cast(min) <= lexical_cast(max)

setThreads ==
    SetServer("DupThreads", Ordered(d.min, d.max), [server EXCEPT !.threads = <<d.min, d.max>>])

setQueue ==
    SetServer("DupQueue", Ordered(d.min, d.max), [server EXCEPT !.queue = <<d.min, d.max>>])

\* postConfig and childInit.
Start ==
    /\ phase = "config" /\ todo = <<>>
    /\ phase' = "running"
    /\ UNCHANGED <<scenario, configVars, workVars>>

ReadDirective ==
    \/ setActive \/ setSynchronous \/ setDuplicationType \/ setApplicationScope
    \/ setErrorLogBodyMatch \/ setDestination
    \/ addFilter \/ addRawFilter \/ addSubstitution \/ addRawSubstitution
    \/ setName \/ setUrlCodec \/ setTimeout \/ setThreads \/ setQueue

-----------------------------------------------------------------------------
(* What performCurlCall sends.                                             *)

Header(name, text) == [key |-> <<name>>, val |-> text]

CommonHeaders == <<Header("ELAPSED_TIME_BY_DUP", <<"ms">>), Header("Expect", <<>>),
                   Header("X-DUPLICATED-REQUEST", <<"1">>), Header("User-RealAgent", <<"mod-dup">>)>>

NeverCopied == {<<"Host">>, <<"Transfer-Encoding">>, <<"Content-Length">>, <<"Duplication-Type">>}

FaultyaddOrigHeaders(headersIn, slist) == slist \o headersIn

\* Header names are compared as they are written.
addOrigHeaders(headersIn, slist) ==
    LET taken == NeverCopied \cup {slist[i].key : i \in DOMAIN slist}
        copied == {i \in DOMAIN headersIn :
                      /\ headersIn[i].key \notin taken
                      /\ \A j \in 1 .. i - 1 : headersIn[j].key # headersIn[i].key}
    IN slist \o Pick(headersIn, copied)

WithAnswer(f) == f.dupType = DuplicationType.REQUEST_WITH_ANSWER

addValidationHeadersCompare(r, f) ==
    IF WithAnswer(f) /\ r.mValidationHeaderDup THEN <<Header("X_COMP_LOG", <<"ON">>)>> ELSE <<>>

\* The request in dup format with its answer, with its body, or as a GET.
performCurlCall(r, f) ==
    LET patterns == Pick(r.mHeadersOut, {i \in DOMAIN r.mHeadersOut :
                                            r.mHeadersOut[i].key = <<"X-MATCHED-PATTERN">>})
        withBody == f.dupType = DuplicationType.COMPLETE_REQUEST /\ r.mBody # <<>>
        dupFormat == <<Header("Content-Type", <<"application/x-dup-serialized">>),
                       Header("Duplication-Type", <<"Response">>)>> \o patterns
        length == <<Header("Content-Length", <<"n">>)>>
    IN [dest |-> f.dest, path |-> r.mPath, args |-> r.mArgs,
        headers |-> addOrigHeaders(r.mHeadersIn,
                        CommonHeaders \o addValidationHeadersCompare(r, f)
                        \o (IF WithAnswer(f) THEN dupFormat \o length
                            ELSE IF withBody THEN length ELSE <<>>)),
        body |-> IF WithAnswer(f) \/ withBody THEN r.mBody ELSE <<>>,
        answerHeaders |-> IF WithAnswer(f) THEN r.mHeadersOut ELSE <<>>]

-----------------------------------------------------------------------------
(* runOne in thread t. The thread is one of the pool, or Apache's when the *)
(* location is synchronous or the request has the header X_DUP_LOG; such a *)
(* thread is not stopped by the queue.                                     *)

Location(t) == scenario.requests[t].loc
Commands(t) == mCommands[Location(t)]
FilterAt(t, id) == FilterOf(Commands(t)[id[2]], id[3])
Synchronous(t) ==
    conf[Location(t)].synchronous \/ scenario.requests[t].info.mValidationHeaderDup

\* The thread with some of its fields changed.
Updated(thread, pc, fields) ==
    [k \in DOMAIN thread |-> IF k = "pc" THEN pc
                             ELSE IF k \in DOMAIN fields THEN fields[k] ELSE thread[k]]

Goto(t, pc, fields) == w' = [w EXCEPT ![t] = Updated(@, pc, fields)]

\* The filters duplicate where Dup is active and a type was set; without
\* init() gProcessor and gThreadPool are null.
initiateDuplication(t) ==
    LET r == scenario.requests[t].info
        l == conf[Location(t)]
    IN /\ phase = "running" /\ w[t].pc = "idle"
       /\ IF ~l.dirName \/ l.highest = DuplicationType.NONE
          THEN Goto(t, "declined", <<>>) /\ phase' = phase
          ELSE IF ~server.gProcessor
          THEN phase' = "crashed" /\ w' = w
          ELSE /\ Goto(t, "match",
                       [req |-> [r EXCEPT !.mParsedArgs = @ \o parseArgs(server.codec, r.mArgs)],
                        dests |-> DOMAIN Commands(t)])
               /\ phase' = phase
       /\ UNCHANGED <<scenario, configVars, mMatch, isRunning, counts, reported, sent>>

\* Other threads that are writing the string mMatch of this filter.
Writing(t, id) == {u \in Workers \ {t} : w[u].pc = "write" /\ w[u].pending.id = id}
Unread(u) == w[u].pc \in {"match", "write"}
Torn == <<"torn">>

\* The next of the destinations left, in the order of the map.
NextOf(dests) == DestOrder[Min({i \in DOMAIN DestOrder : DestOrder[i] \in dests})]

FaultymatchDestination(t) ==
    LET dest == NextOf(w[t].dests)
        m == matchesFilter(server.codec, Commands(t)[dest], w[t].req)
    IN /\ phase = "running" /\ w[t].pc = "match" /\ w[t].dests # {}
       /\ Goto(t, "match", [dests |-> w[t].dests \ {dest},
                            matched |-> IF m = NoMatch THEN w[t].matched
                                        ELSE Append(w[t].matched, <<Location(t), dest, m.ref>>)])
       /\ UNCHANGED <<scenario, phase, configVars, mMatch, isRunning, counts, reported, sent>>

\* processRequest for the next destination: a match is found and then stored.
matchDestination(t) ==
    LET dest == NextOf(w[t].dests)
        m == matchesFilter(server.codec, Commands(t)[dest], w[t].req)
        id == <<Location(t), dest, m.ref>>
    IN /\ phase = "running" /\ w[t].pc = "match" /\ w[t].dests # {}
       /\ IF m = NoMatch THEN Goto(t, "match", [dests |-> w[t].dests \ {dest}])
          ELSE Goto(t, "write", [dests |-> w[t].dests \ {dest},
                                 pending |-> [id |-> id, match |-> m.match]])
       /\ UNCHANGED <<scenario, phase, configVars, mMatch, isRunning, counts, reported, sent>>

\* As if mMatch were set only once.
FaultystoreMatch(t) ==
    LET id == w[t].pending.id
    IN /\ phase = "running" /\ w[t].pc = "write"
       /\ mMatch' = mMatch @@ (id :> w[t].pending.match)
       /\ Goto(t, "match", [pending |-> NoMatch, matched |-> Append(w[t].matched, id)])
       /\ UNCHANGED <<scenario, phase, configVars, isRunning, counts, reported, sent>>

\* Two threads that assign the string at once leave either value or neither.
\* raced notes that some other thread has touched a filter this thread matched.
storeMatch(t) ==
    LET id == w[t].pending.id
        overlap == w[t].raced \/ Writing(t, id) # {}
    IN /\ phase = "running" /\ w[t].pc = "write"
       /\ \E value \in {w[t].pending.match} \cup (IF overlap THEN {Torn} ELSE {}) :
             mMatch' = Assigned(mMatch, id, value)
       /\ w' = [u \in Workers |->
                  IF u = t THEN [w[t] EXCEPT !.pc = "match", !.pending = NoMatch,
                                             !.matched = Append(@, id), !.raced = overlap]
                  ELSE IF u \in Writing(t, id) \/ (Unread(u) /\ id \in Range(w[u].matched))
                  THEN [w[u] EXCEPT !.raced = TRUE] ELSE w[u]]
       /\ UNCHANGED <<scenario, phase, configVars, isRunning, counts, reported, sent>>

\* All destinations are tested; addValidationHeadersDup reads mMatch.
addValidationHeadersDup(t) ==
    LET matched == w[t].matched
        Readable(id) == {mMatch[id]} \cup UNION {{w[u].pending.match, Torn} : u \in Writing(t, id)}
    IN /\ phase = "running" /\ w[t].pc = "match" /\ w[t].dests = {}
       /\ \E read \in [DOMAIN matched -> UNION {Readable(id) : id \in Range(matched)}] :
             /\ \A i \in DOMAIN matched : read[i] \in Readable(matched[i])
             /\ Goto(t, "filter",
                     [raced |-> w[t].raced \/ \E id \in Range(matched) : Writing(t, id) # {},
                      req |-> [w[t].req EXCEPT !.mHeadersOut =
                        @ \o [i \in DOMAIN matched |-> Header("X-MATCHED-PATTERN", read[i])]
                          \o <<Header("X_DUP_LOG", <<"log">>)>>]])
       /\ UNCHANGED <<scenario, phase, configVars, mMatch, isRunning, counts, reported, sent>>

\* The next matched filter: how often it duplicates. cbd.at would throw for a
\* destination without Commands.
nextFilter(t) ==
    /\ phase = "running" /\ w[t].pc = "filter"
    /\ IF w[t].matched = <<>> THEN Goto(t, "done", <<>>)
       ELSE \E rand \in Rands :
              LET commands == Commands(t)[FilterAt(t, Head(w[t].matched)).dest]
                  n == toDuplicateInt(commands.mDuplicationPercentage, rand)
              IN IF n = 0 THEN Goto(t, "filter", [matched |-> Tail(w[t].matched)])
                 ELSE Goto(t, "curl", [dups |-> n])
    /\ UNCHANGED <<scenario, phase, configVars, mMatch, isRunning, counts, reported, sent>>

FaultyDuplicateOf(t, f, commands) ==
    substituteRequest(server.codec, commands,
        IF sent[t] = <<>> THEN w[t].req
        ELSE [w[t].req EXCEPT !.mPath = Last(sent[t]).path, !.mBody = Last(sent[t]).body])

\* Substitutions work on a copy of the RequestInfo.
DuplicateOf(t, f, commands) ==
    IF commands.mSubstitutions = <<>> /\ commands.mRawSubstitutions = <<>> THEN w[t].req
    ELSE substituteRequest(server.codec, commands, w[t].req)

\* One curl call, or the end of the loop when the pool is stopping.
duplicate(t) ==
    LET f == FilterAt(t, Head(w[t].matched))
        call == performCurlCall(DuplicateOf(t, f, Commands(t)[f.dest]), f)
    IN /\ phase = "running" /\ w[t].pc = "curl"
       /\ IF Synchronous(t) \/ isRunning
          THEN /\ Goto(t, "count", <<>>)
               /\ sent' = [sent EXCEPT ![t] = Append(@, call)]
               /\ \E timedOut \in (IF scenario.events THEN 0 .. 1 ELSE {0}) : counts' = [counts EXCEPT !.timeout = @ + timedOut]
          ELSE /\ Goto(t, "filter", [matched |-> Tail(w[t].matched), dups |-> 0])
               /\ UNCHANGED <<sent, counts>>
       /\ UNCHANGED <<scenario, phase, configVars, mMatch, isRunning, reported>>

\* Atomic, after the call.
countDuplicate(t) ==
    /\ phase = "running" /\ w[t].pc = "count"
    /\ IF w[t].dups = 1 THEN Goto(t, "filter", [matched |-> Tail(w[t].matched), dups |-> 0])
       ELSE Goto(t, "curl", [dups |-> w[t].dups - 1])
    /\ counts' = [counts EXCEPT !.duplicated = @ + 1]
    /\ UNCHANGED <<scenario, phase, configVars, mMatch, isRunning, reported, sent>>

\* MultiThreadQueue::stop.
stop ==
    /\ phase = "running" /\ isRunning /\ scenario.events
    /\ isRunning' = FALSE
    /\ UNCHANGED <<scenario, phase, configVars, mMatch, w, counts, reported, sent>>

FaultygetCount(stat) ==
    /\ phase = "running" /\ reported.lines < MaxReports /\ scenario.events
    /\ reported' = [reported EXCEPT ![stat] = @ + counts[stat], !.lines = @ + 1]
    /\ UNCHANGED <<scenario, phase, configVars, mMatch, w, isRunning, counts, sent>>

\* getDuplicatedCount and getTimeoutCount, for the stat line of the pool.
getCount(stat) ==
    /\ phase = "running" /\ reported.lines < MaxReports /\ scenario.events
    /\ reported' = [reported EXCEPT ![stat] = @ + counts[stat], !.lines = @ + 1]
    /\ counts' = [counts EXCEPT ![stat] = 0]
    /\ UNCHANGED <<scenario, phase, configVars, mMatch, w, isRunning, sent>>

RunOne(t) ==
    \/ initiateDuplication(t) \/ matchDestination(t) \/ storeMatch(t)
    \/ addValidationHeadersDup(t) \/ nextFilter(t) \/ duplicate(t) \/ countDuplicate(t)

Next == ReadDirective \/ Start \/ (\E t \in Workers : RunOne(t)) \/ stop
        \/ (\E stat \in DOMAIN counts : getCount(stat))

Spec == Init /\ [][Next]_vars

-----------------------------------------------------------------------------
(* Properties.                                                             *)

Steps == {"idle", "match", "write", "filter", "curl", "count", "done", "declined"}

\* The phase, the threads, the counts and the configuration have their types.
TypeOK ==
    /\ phase \in {"config", "running", "refused", "crashed"}
    /\ \A t \in Workers :
          /\ w[t].pc \in Steps /\ w[t].dups \in Nat /\ w[t].raced \in BOOLEAN
          /\ w[t].dests \subseteq DOMAIN Commands(t)
          /\ Range(w[t].matched) \subseteq DOMAIN mMatch
    /\ \A l \in Locations :
          /\ {conf[l].type, conf[l].highest} \subseteq Range(DuplicationType)
          /\ conf[l].currentApplicationScope \in Range(stringToEnum)
          /\ DOMAIN mCommands[l] \subseteq Range(DestOrder)
    /\ {counts.duplicated, counts.timeout, reported.duplicated, reported.timeout} \subseteq Nat
    /\ reported.lines \in 0 .. MaxReports

Filters(commands) == Range(commands.mFilters) \cup Range(commands.mRawFilters)

\* Whatever the order of the directives, a filter is found under its own
\* destination (so the lookup in runOne cannot throw), and the highest type of
\* its location, from which the filter chain decides what to collect, is not
\* below the filter's own, so that what performCurlCall sends was collected.
FiltersServed ==
    \A l \in Locations : \A dest \in DOMAIN mCommands[l] : \A f \in Filters(mCommands[l][dest]) :
        f.dest = dest /\ f.dupType <= conf[l].highest

\* What the directives mean: a filter is about some part of its scope, and finds
\* something there, for a key filter in a value of its field.
Finds(f, codec, r) ==
    IF "field" \in DOMAIN f
    THEN \E part \in f.scope \cap Range(KeyParts) :
            \E kv \in Range(KeyVals(codec, r, part)) :
                to_upper(kv.key) = f.field /\ Range(kv.val) \cap f.re # {}
    ELSE \E part \in f.scope : Range(PartText(r, part)) \cap f.re # {}

Original(t) ==
    [scenario.requests[t].info EXCEPT !.mParsedArgs =
        @ \o parseArgs(server.codec, scenario.requests[t].info.mArgs)]

ToDuplicate(t, dest) ==
    LET found == {f \in Filters(Commands(t)[dest]) : Finds(f, server.codec, Original(t))}
    IN found # {} /\ \A f \in found : f.type = "REGULAR"

SentTo(t, dest) == {i \in DOMAIN sent[t] : sent[t][i].dest = dest}

\* When runOne ends it has sent the request to each destination as often as its
\* percentage says if one of the destination's filters and none of its prevent
\* filters finds it, and never otherwise; only the end of the pool makes it fewer.
DuplicatesExact ==
    \A t \in Workers : w[t].pc = "done" =>
        \A dest \in DOMAIN Commands(t) :
            LET n == Cardinality(SentTo(t, dest))
                p == Commands(t)[dest].mDuplicationPercentage
            IN IF ToDuplicate(t, dest)
               THEN /\ n <= (p + 99) \div 100
                    /\ Synchronous(t) \/ isRunning => n >= p \div 100
               ELSE n = 0

\* The pattern reported with a request was found in that request, unless another
\* thread assigned the shared string of the same filter in between.
PatternFromRequest ==
    \A t \in Workers : w[t].pc \in {"filter", "curl", "count", "done"} /\ ~w[t].raced =>
        \A h \in Range(w[t].req.mHeadersOut) \ Range(Original(t).mHeadersOut) :
            h.key = <<"X-MATCHED-PATTERN">> =>
                \/ h.val = <<"regex">>
                \/ \E part \in Range(RawParts) : Range(h.val) \subseteq Range(PartText(Original(t), part))

\* Every duplicate is the original request with the substitutions of its own
\* destination: neither an earlier duplicate nor another destination shows in it.
DuplicatesIndependent ==
    \A t \in Workers : \A call \in Range(sent[t]) :
        LET r == substituteRequest(server.codec, Commands(t)[call.dest], Original(t))
        IN /\ call.path = r.mPath /\ call.args = r.mArgs
           /\ call.body \in {<<>>, r.mBody}
           /\ \A h \in Range(call.headers) :
                 h.key \in {r.mHeadersIn[i].key : i \in DOMAIN r.mHeadersIn} =>
                    \/ h \in Range(r.mHeadersIn)
                    \/ h \in Range(CommonHeaders)
                    \/ h.key \in NeverCopied \cup {<<"Content-Type">>, <<"X_COMP_LOG">>, <<"X-MATCHED-PATTERN">>}

\* An argument that the query string can carry: encode leaves a separator in a
\* value as it is, and an argument without key and value is dropped when the text
\* is read again. Real text has no escape that cannot itself be escaped.
Expressible(kv) ==
    /\ kv.key # <<>> \/ kv.val # <<>>
    /\ \A word \in Range(kv.val) : word # "&" /\ (word \in DOMAIN Unescaped => word \in DOMAIN Escaped)

\* Rebuilding the query string after a substitution does not change what it says:
\* it has the same keys with the substituted values, unless some argument is not
\* expressible or a raw substitution rewrites the text.
ArgumentsKept ==
    \A t \in Workers : \A call \in Range(sent[t]) :
        LET commands == Commands(t)[call.dest]
            args == [i \in DOMAIN Original(t).mParsedArgs |->
                        Substituted(commands.mSubstitutions, Original(t).mParsedArgs[i], "QUERY_STRING")]
        IN (/\ \A s \in Range(commands.mRawSubstitutions) : "QUERY_STRING" \notin s.scope
            /\ \A kv \in Range(args) : Expressible(kv))
           => parseArgs(server.codec, call.args) = args

\* No header is sent twice, also not when a header of the request has the name of
\* one that mod_dup adds, as long as it is written in the same case. X-MATCHED-PATTERN
\* is the exception: the headers of the answer have one for each filter that matched
\* (addValidationHeadersDup), and sendDupFormat copies them all.
HeadersOnce ==
    \A t \in Workers : \A call \in Range(sent[t]) :
        \A i, j \in DOMAIN call.headers :
            i < j /\ call.headers[i].key = call.headers[j].key
                => call.headers[i].key = <<"X-MATCHED-PATTERN">>

\* The duplicates sent so far by all threads.
Calls == UNION {{t} \X DOMAIN sent[t] : t \in Workers}

\* The stat lines account for every duplicate once, however the reset of the
\* count falls between the threads that increment it.
DuplicatesCounted ==
    reported.duplicated + counts.duplicated + Cardinality({t \in Workers : w[t].pc = "count"})
        = Cardinality(Calls)

\* "Initialize our the processor and thread pool on first config call" (mod_dup.hh):
\* a request that is to be duplicated finds the processor and the pool.
ProcessorExists == phase # "crashed"
============================================================================
