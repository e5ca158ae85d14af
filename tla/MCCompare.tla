----------------------------- MODULE MCCompare -----------------------------
(***************************************************************************)
(* mod_compare and mod_migrate on small configurations and requests.       *)
(***************************************************************************)
EXTENDS Compare

MCDigit == <<"0", "1">>
MCLines == ("k:v\n" :> <<"k", <<"v">>>>) @@ ("k:w\n" :> <<"k", <<"w">>>>)
           @@ ("l:v\n" :> <<"l", <<"v">>>>) @@ ("log:m\n" :> <<"X_DUP_LOG", <<"m">>>>)
MCNumber == ("200" :> 200) @@ ("500" :> 500) @@ ("12" :> 12)
MCProcess == <<1, 1, 2>>

-----------------------------------------------------------------------------
(* Requests.                                                               *)

DupHeaders == ("Duplication-Type" :> "Response") @@ ("X_DUP_METHOD" :> "PUT")
              @@ ("X_DUP_HTTP_STATUS" :> "200")
Serialized == ("Content-Type" :> "application/x-dup-serialized")
              @@ ("X_DUP_CONTENT_TYPE" :> "text") @@ DupHeaders

K(v) == <<"k", <<v>>>>
L == <<"l", <<"v">>>>

\* A request with body b that was answered with headers o and body ob, and is
\* answered with headers h and body a when it is replayed.
Replayed(headers, b, o, ob, h, a) ==
    [id |-> 1, method |-> "POST", args |-> <<"x">>, headers |-> headers, comp_truncate |-> FALSE,
     text |-> DupContent(b, o, ob), body |-> b, original |-> o, originalBody |-> ob,
     answer |-> a, answerHeaders |-> h, answerStatus |-> 200, cassandra |-> {}]

Plain == Replayed(DupHeaders, <<>>, <<>>, <<"a">>, <<>>, <<>>)

Scenario(directives, requests) ==
    [directives |-> <<[name |-> "Compare"]>> \o directives, requests |-> requests,
     hooks |-> <<"compare">>, modules |-> TRUE, file |-> "open", shm |-> "ready",
     reads |-> TRUE, faults |-> FALSE, crash |-> FALSE]

Body(list, re) == [name |-> "CompareBody", list |-> list, re |-> re]
Headers(list, key, re) == [name |-> "CompareHeader", list |-> list, key |-> key, re |-> re]
Env(var, re, value) == [name |-> "MigrateEnv", var |-> var, re |-> re, value |-> value]
MigrateScope(scope) == [name |-> "MigrateApplicationScope", scope |-> scope]
LogType(type) == [name |-> "CompareLogType", type |-> type]
Log(type) == [name |-> "CompareLog", type |-> type]

-----------------------------------------------------------------------------
(* Bodies of any length up to the limit and beyond, malformed ones and     *)
(* other requests, with and without mod_migrate; some while reads fail.    *)

Words == {<<>>, <<"a">>, <<"a", "b">>, <<"a", "b", "0">>, <<"a", "b", "1", "a">>}
Malformed == {<<>>, <<"0">>, <<"0", "1", "a", "0", "1", "x", "0", "0">>,
              <<"0", "a", "b", "0", "1", "0">>, <<"0", "0", "0", "x", "0", "0">>}

Texts ==
    {Replayed(Serialized, b, <<K("v")>>, ob, "k" :> <<"v">>, ob) : b \in Words, ob \in {<<>>, <<"a", "b">>}}
    \cup {[Replayed(Serialized, <<"a">>, <<>>, <<>>, <<>>, <<>>) EXCEPT !.text = text] : text \in Malformed}
    \cup {[Replayed(<<>>, <<"a">>, <<>>, <<>>, <<>>, <<"a">>) EXCEPT !.headers = ("Host" :> "b")]}

UnpackedBy(requests, faults) ==
    {[Scenario(env, <<q>>) EXCEPT !.hooks = hooks, !.faults = faults] :
        env \in {<<>>, <<MigrateScope("BODY"), Env("V", {"a", "1"}, "y")>>},
        hooks \in {<<>>, <<"compare", "migrate">>, <<"migrate", "compare">>}, q \in requests}

Failing ==
    {Replayed(Serialized, <<"a">>, <<>>, <<>>, <<>>, <<>>), Replayed("Host" :> "b", <<"a", "b">>, <<>>, <<>>, <<>>, <<>>)}
    \cup {[Replayed(Serialized, <<"a">>, <<>>, <<>>, <<>>, <<>>) EXCEPT !.text = <<"0", "1", "a", "0">>]}

Unpacking == UnpackedBy(Texts, FALSE) \cup UnpackedBy(Failing, TRUE)

Variables ==
    {[Scenario(<<MigrateScope(s1), Env("V", r1, "y"), MigrateScope(s2), Env(v2, r2, "z")>>,
               <<Replayed(Serialized, <<"a">>, <<>>, <<>>, <<>>, <<>>)>>)
        EXCEPT !.hooks = <<hook, IF hook = "compare" THEN "migrate" ELSE "compare">>, !.reads = FALSE] :
        s1 \in {"ALL", "URL", "HEADERS"}, s2 \in {"BODY", "URL_AND_HEADERS", "PATH"}, v2 \in {"V", "W"},
        r1 \in {{"x"}, {"a", "PUT"}}, r2 \in {{"a"}, {"x", "text"}}, hook \in {"compare", "migrate"}}

-----------------------------------------------------------------------------
(* Rules and answers.                                                      *)

RuleSets ==
    {<<>>, <<Headers("IGNORE", "k", {"v"}), Headers("IGNORE", "k", {"w"})>>,
     <<Headers("IGNORE", "k", {"v", "w"})>>, <<Headers("STOP", "k", {"w"}), Body("STOP", {"b"})>>,
     <<Body("IGNORE", {"a"}), Body("IGNORE", {"b"})>>, <<Headers("STOP", "l", {"v"})>>,
     <<Headers("STOP", "k", {"x"}), Headers("STOP", "k", {"v"}), Headers("IGNORE", "X_DUP_LOG", {"m"})>>}

Answers ==
    {Replayed(DupHeaders @@ extra, <<"a">>, o, ob, h, a) :
        o \in {<<K("v")>>, <<K("v"), L, K("w")>>, <<K("v"), <<"X_DUP_LOG", <<"m">>>>>>}, ob \in {<<"a">>, <<"b", "\n">>},
        h \in {"k" :> <<"v">>, ("k" :> <<"w">>) @@ ("l" :> <<"v">>)}, a \in {<<"a">>, <<"b", "\n", "\n">>, <<">", "<">>},
        extra \in {<<>>, "X_COMP_LOG" :> "1"}}

Comparing == {Scenario(rules, <<q>>) : rules \in RuleSets, q \in Answers}

Statuses ==
    {Scenario(<<Body("STOP", {"s"}), Headers("STOP", "k", {"w"})>>,
              <<[Replayed(("X_DUP_HTTP_STATUS" :> s) @@ DupHeaders @@ ("ELAPSED_TIME_BY_DUP" :> ms),
                          <<>>, <<K(v)>>, a, "k" :> <<v>>, a)
                   EXCEPT !.answerStatus = 500, !.cassandra = fields]>>) :
        s \in {"200", "500", "none"}, ms \in {"12", "none"}, v \in {"v", "w"}, a \in {<<"a">>, <<"s">>},
        fields \in {{}, {"f"}, {"f", "g"}}}

\* Two requests with one id in a process, as mod_dup sends with a percentage of 200.
SameRequests ==
    {Scenario(<<>>, <<q1, q2>>) :
        q1 \in {[Replayed(DupHeaders, <<>>, <<>>, <<>>, <<>>, <<>>) EXCEPT !.cassandra = {"f"}]},
        q2 \in {[Replayed(DupHeaders, <<>>, <<>>, <<>>, <<>>, <<>>) EXCEPT !.cassandra = {"g"}, !.id = i] : i \in 1 .. 2}}

-----------------------------------------------------------------------------
(* The log: every form, created mutex or not, kills and comp_truncate.     *)

Forms == {<<LogType(type), Log(where)>> :
            type \in {"archive", "multiline"}, where \in {"FILE", "SYSLOG"}}
         \cup {<<LogType("simplejson"), Log("SYSLOG")>>}

Writing(directives, requests, shared, crash) ==
    [Scenario(directives, requests) EXCEPT !.shm = shared, !.reads = FALSE, !.crash = crash]

Different == [Plain EXCEPT !.answer = <<>>, !.answerHeaders = "k" :> <<"v">>]
Empties == [Plain EXCEPT !.comp_truncate = TRUE]

\* Two threads of a process use the stream at once at the end of an archive, or
\* with a mutex that one of them is creating.
Logs ==
    {Writing(form, <<Different, Different>>, "none", FALSE) : form \in Forms \ {<<LogType("archive"), Log("FILE")>>}}
    \cup {Writing(form, <<Different, Different>>, shared, FALSE) : form \in Forms, shared \in {"ready", "denied"}}
    \cup {Writing(form, [t \in {1, 3} |-> Different], shared, crash) :
        form \in Forms, shared \in {"none", "ready", "denied"}, crash \in BOOLEAN}
    \cup {Writing(form, requests, "ready", FALSE) :
        form \in Forms, requests \in {<<Different, Empties>>, (1 :> Different) @@ (3 :> Empties)}}

\* With a mutex to create, one creates it while another locks it and a third waits.
ThreeWriters ==
    {Writing(<<LogType("multiline"), Log(IF shared = "none" THEN "SYSLOG" ELSE "FILE")>>,
             <<Different, Different, Different>>, shared, shared = "ready") : shared \in {"none", "ready"}}

-----------------------------------------------------------------------------
(* Directives that are refused, and files that cannot be opened.           *)

Refused ==
    {Scenario(<<directive>>, <<Plain>>) : directive \in
        {Body("STOP", BadRegex), Body("SOMETIMES", {"a"}), Headers("IGNORE", "k", BadRegex),
         Headers("", "k", {"a"}), LogType("xml"), Log("PRINTER"), MigrateScope("NOWHERE"),
         Env("V", BadRegex, "y"), [name |-> "DisableLibwsdiff", value |-> TRUE]}}
    \cup {[Scenario(<<>>, <<Plain>>) EXCEPT !.file = file] : file \in {"denied", "closed"}}
    \cup {[Scenario(<<MigrateScope("ALL"), Env("V", {"a"}, "y")>>, <<Plain>>) EXCEPT !.modules = FALSE]}

MCScenarios ==
    Unpacking \cup Variables \cup Comparing \cup Statuses \cup SameRequests
    \cup Logs \cup ThreeWriters \cup Refused
============================================================================
