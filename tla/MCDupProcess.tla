---------------------------- MODULE MCDupProcess ----------------------------
(***************************************************************************)
(* mod_dup's configuration and its workers on small configurations.        *)
(***************************************************************************)
EXTENDS DupProcess

MCUpper == ("id" :> "ID") @@ ("x" :> "X") @@ ("agent" :> "AGENT")
MCUnescaped == ("%20" :> " ") @@ ("%2b" :> "+") @@ ("%26" :> "&") @@ ("%2520" :> "%20")
MCEscaped == (" " :> "%20") @@ ("%20" :> "%2520")
MCDestOrder == <<"d1", "d2">>
MCLocations == {"/a", "/b"}
MCWorkers == 1 .. 2

-----------------------------------------------------------------------------
(* Directives.                                                             *)

Loc(name) == [name |-> name, loc |-> "/a"]
Active == Loc("Dup")
Type(type) == ("type" :> type) @@ Loc("DupDuplicationType")
Scope(scope) == ("scope" :> scope) @@ Loc("DupApplicationScope")
Dest(dest, percentage) == [dest |-> dest, percentage |-> percentage] @@ Loc("DupDestination")
Filter(field, re, type) == [field |-> <<field>>, re |-> re, type |-> type] @@ Loc("DupFilter")
Raw(re, type) == [re |-> re, type |-> type] @@ Loc("DupRawFilter")
Subst(field, re, by) == [field |-> <<field>>, re |-> re, replacement |-> by] @@ Loc("DupSubstitute")
RawSubst(re, by) == [re |-> re, replacement |-> by] @@ Loc("DupRawSubstitute")

-----------------------------------------------------------------------------
(* Requests, as the filter chain hands them over.                          *)

Request(loc, method, path, args, headers, body, log) ==
    [loc |-> loc,
     info |-> [mMethod |-> <<method>>, mPath |-> <<path>>, mArgs |-> args, mParsedArgs |-> <<>>,
               mHeadersIn |-> <<Header("X-DUP-COUNT", <<"1">>), Header("Host", <<"h">>)>> \o headers,
               mBody |-> body, mHeadersOut |-> <<>>, mValidationHeaderDup |-> log]]

Elsewhere == Request("/b", "GET", "p", <<>>, <<>>, <<>>, FALSE)
Get == Request("/a", "GET", "a", <<"id", "=", "a", "&", "x", "=", "%2b", "%2520", "%20">>,
               <<Header("AGENT", <<"b">>)>>, <<>>, FALSE)
Post == Request("/a", "POST", "p", <<"x", "=", "b", "+", "&", "&", "id", "&", "ID", "=", "b", "&", "=", "c", "=">>,
                <<Header("agent", <<"a">>), Header("Expect", <<"100">>)>>,
                <<"id", "=", "a", "%2b", "=">>, FALSE)
Logged == Request("/a", "a", "b", <<"id", "=", "b", "%26", "a">>,
                  <<Header("X-DUP-COUNT", <<"2">>), Header("Content-Type", <<"form">>)>>, <<"b">>, TRUE)
Only(word) == Request("/a", "GET", "p", <<"id", "=", word>>, <<>>, <<>>, FALSE)

Alone(r) == <<r, Elsewhere>>
Scenario(directives, requests) ==
    [rewrite |-> TRUE, events |-> FALSE, directives |-> directives, requests |-> requests]
Eventful(scenarios) == {[s EXCEPT !.events = TRUE] : s \in scenarios}

-----------------------------------------------------------------------------
(* Any two rules in any scopes, each way round.                            *)

Scopes == {"QUERY_STRING", "HEADERS", "BODY", "ALL"}
Rules == {Filter("id", {"a"}, "REGULAR"), Filter("agent", {"a", "b"}, "PREVENT_DUPLICATION"),
          Filter("ID", {"b"}, "PREVENT_DUPLICATION"), Raw({"a", "b"}, "REGULAR"),
          Raw({"b"}, "PREVENT_DUPLICATION"), Filter("agent", {"a"}, "REGULAR")}

Matching ==
    {Scenario(<<Type("HEADER_ONLY"), Dest("d1", 100), Scope(s1), r1, Scope(s2), r2>>, Alone(r)) :
        s1 \in Scopes, r1 \in Rules, s2 \in Scopes, r2 \in Rules, r \in {Get, Post, Logged}}

RawScopes ==
    {Scenario(<<Dest("d1", 100), Type("HEADER_ONLY"), Scope(s1), Raw({"a"}, type), Scope(s2),
                Raw({"b", "GET"}, "REGULAR")>>, Alone(r)) :
        s1 \in DOMAIN stringToEnum, s2 \in DOMAIN stringToEnum,
        type \in {"REGULAR", "PREVENT_DUPLICATION"}, r \in {Get, Post}}

-----------------------------------------------------------------------------
(* Substitutions, types and percentages, to two destinations.              *)

Substitutions ==
    {<<Subst("id", {"a"}, <<"c", "+">>)>>, <<Subst("x", {"+", "b"}, <<>>), Subst("x", {"c"}, <<"d">>)>>,
     <<RawSubst({"a"}, <<"b", "a">>)>>, <<Subst("agent", {"a", "b"}, <<"z">>), RawSubst({"="}, <<>>)>>,
     <<Subst("id", {"b"}, <<"a">>), RawSubst({"a"}, <<"e">>)>>}

Rewriting ==
    {Scenario(<<[name |-> "DupUrlCodec", codec |-> codec], Dest("d1", 200), Type(type),
                Raw({"id", "ID"}, "REGULAR"), Scope(scope)>> \o subs
              \o <<Dest("d2", 100), Type("HEADER_ONLY"), Raw({"a"}, "REGULAR"),
                   RawSubst({"p"}, <<"q">>)>>, Alone(r)) :
        codec \in {"apache", "default"}, type \in DOMAIN DuplicationType,
        scope \in {"QUERY_STRING", "HEADERS", "BODY", "ALL"}, subs \in Substitutions,
        r \in {Get, Post, Logged}}

Percentages == Eventful(
    {Scenario(<<Dest("d1", p), Type("COMPLETE_REQUEST"), Dest("d2", q), Scope("ALL"),
                Raw({"a"}, "REGULAR"), Dest("d1", p), Filter("id", {"a"}, "REGULAR")>>, Alone(r)) :
        p \in {0, 1, 99, 100, 101, 250}, q \in {0, 100, 150}, r \in {Get, Logged}})

-----------------------------------------------------------------------------
(* Two threads that match the same filters.                                *)

Races ==
    {Scenario(<<Type("REQUEST_WITH_ANSWER"), Scope("ALL"), Dest("d1", 100), first,
                Dest("d2", 100), Raw({"b"}, "REGULAR")>> \o sync, <<r1, r2>>) :
        first \in {Raw({"a", "b"}, "REGULAR"), Filter("id", {"a", "b"}, "REGULAR")},
        sync \in {<<>>, <<Loc("DupSync")>>},
        r1 \in {Only("a"), Post}, r2 \in {Only("b"), Logged}}

\* The pool stops, calls time out and the stats are read while both duplicate.
Stopping == Eventful(
    {Scenario(<<Type("HEADER_ONLY"), Dest("d1", 150), Filter("id", {"a", "b"}, "REGULAR")>>, <<Get, r>>) :
        r \in {Get, Logged}})

-----------------------------------------------------------------------------
(* Directives that are refused, and the ones for the whole server.         *)

Started == <<Dest("d1", 100), Scope("PATH")>>
Pair(name, min, max) == [name |-> name, min |-> min, max |-> max]

Refused ==
    {Scenario(directives, Alone(Get)) : directives \in
        {<<Dest("d1", -1)>>, <<Dest("d1", 10001)>>, <<Dest("", 100)>>, <<Dest("d1", BadNumber)>>,
         <<Dest("d1", 10000)>>, <<Scope("NOWHERE")>>, <<Type("SOMETIMES")>>,
         <<Filter("id", {"a"}, "REGULAR")>>, Started \o <<Filter("id", {"a"}, "REGULAR")>>,
         Started \o <<Raw(BadRegex, "REGULAR")>>, <<RawSubst({"a"}, <<>>)>>,
         <<("re" :> BadRegex) @@ Loc("DupErrorLogBodyMatch")>>,
         <<("re" :> {"a"}) @@ Loc("DupErrorLogBodyMatch"), Active, [name |-> "DupName"]>>,
         <<[name |-> "DupTimeout", ms |-> BadNumber]>>, <<[name |-> "DupTimeout", ms |-> 5]>>,
         <<Pair("DupThreads", 2, 1)>>, <<Pair("DupThreads", 1, 2), Pair("DupQueue", 0, -1)>>,
         <<Pair("DupQueue", -1, 3)>>}}
    \cup {[Scenario(<<first>>, Alone(Get)) EXCEPT !.rewrite = FALSE] :
            first \in {Active, Dest("d1", 1), Type("NONE"), Scope("ALL"), Raw({"a"}, "REGULAR")}}

MCScenarios == Matching \cup RawScopes \cup Rewriting \cup Percentages \cup Races \cup Stopping \cup Refused

\* Only directives that do not call init(), and one that does.
UninitialisedScenarios ==
    {Scenario(directives \o <<Type("HEADER_ONLY")>>, requests) :
        directives \in {<<>>, <<Active>>, <<Loc("DupSync")>>, <<Scope("ALL")>>},
        requests \in {<<Get, Post>>, Alone(Get)}}
============================================================================
