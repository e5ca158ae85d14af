------------------------------ MODULE Migrate ------------------------------
(***************************************************************************)
(* mod_migrate (src/src/filters_migrate.cc, src/src/mod_migrate.cc): the   *)
(* variables it sets from a request before mod_rewrite runs, and the input *)
(* filter that gives the body it has read for that back to the filters     *)
(* above it.                                                               *)
(*                                                                         *)
(* Text is words at places, a sequence or the words of a table of headers; *)
(* a regular expression is the set of words it finds. The value that a     *)
(* match is replaced with is one word.                                     *)
(***************************************************************************)
EXTENDS Integers, Sequences, SequencesExt, FiniteSets, FiniteSetsExt, TLC

MigrateConf == [mDirName |-> FALSE, scope |-> {"QUERY_STRING", "HEADERS", "BODY"}, mEnvLists |-> <<>>]

\* stringToEnum, for the scopes that matter here.
MigrateScopes == [ALL |-> {"QUERY_STRING", "HEADERS", "BODY"}, QUERY_STRING |-> {"QUERY_STRING"},
                  HEADERS |-> {"HEADERS"}, BODY |-> {"BODY"}, PATH |-> {}, METHOD |-> {},
                  URL |-> {"QUERY_STRING"}, URL_AND_HEADERS |-> {"QUERY_STRING", "HEADERS"}]

-----------------------------------------------------------------------------
(* The variables. format_no_copy leaves the replaced matches only.         *)

Replaced(text, rule) ==
    [i \in 1 .. Cardinality({k \in DOMAIN text : text[k] \in rule.re}) |-> rule.value]

setEnvVar(env, rule, toSet) ==
    IF toSet = <<>> THEN env
    ELSE [v \in DOMAIN env \cup {rule.var} |-> IF v = rule.var THEN toSet ELSE env[v]]

\* The texts a rule is applied to, one after the other. An empty text has no
\* match, so the test whether it is empty makes no difference.
FaultyTextsOf(info, rule) ==
    <<IF "QUERY_STRING" \in rule.scope THEN info.args ELSE <<>>,
      IF "BODY" \in rule.scope THEN info.body ELSE <<>>,
      IF "HEADERS" \in rule.scope THEN info.args ELSE <<>> >>

TextsOf(info, rule) ==
    <<IF "QUERY_STRING" \in rule.scope THEN info.args ELSE <<>>,
      IF "BODY" \in rule.scope THEN info.body ELSE <<>>,
      IF "HEADERS" \in rule.scope THEN info.header ELSE <<>> >>

\* The n-th text, of the three that each rule looks at.
setNthVar(env, rules, info, n) ==
    LET rule == rules[((n - 1) \div 3) + 1]
    IN setEnvVar(env, rule, Replaced(TextsOf(info, rule)[((n - 1) % 3) + 1], rule))

enrichContext(rules, info) ==
    LET env[n \in 0 .. 3 * Len(rules)] == IF n = 0 THEN <<>> ELSE setNthVar(env[n - 1], rules, info, n)
    IN env[3 * Len(rules)]

-----------------------------------------------------------------------------
(* The filter. ctx counts what was given back and is -1 behind the end. A  *)
(* call that reaches the end also calls the next filter.                   *)

FaultyinputFilterBody2Brigade(body, ctx, readbytes) ==
    LET toRead == Min({Len(body) - ctx, readbytes})
        read == ctx + toRead
        ends == ctx = -1 \/ read + readbytes >= Len(body)
    IN [data |-> IF ctx = -1 THEN <<>> ELSE SubSeq(body, ctx + 1, read),
        ctx |-> IF ends THEN -1 ELSE read,
        next |-> ends]

inputFilterBody2Brigade(body, ctx, readbytes) ==
    LET toRead == Min({Len(body) - ctx, readbytes})
        read == ctx + toRead
        ends == ctx = -1 \/ read >= Len(body)
    IN [data |-> IF ctx = -1 THEN <<>> ELSE SubSeq(body, ctx + 1, read),
        ctx |-> IF ends THEN -1 ELSE read,
        next |-> ends]
============================================================================
