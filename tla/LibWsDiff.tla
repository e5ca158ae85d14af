----------------------------- MODULE LibWsDiff -----------------------------
(***************************************************************************)
(* libws_diff: how mod_compare compares two answers (MapCompare for the    *)
(* headers, StringCompareBody for the bodies) and whether the printer that *)
(* collects the differences has any.                                       *)
(*                                                                         *)
(* Text is a sequence of words, a regular expression the set of words it   *)
(* finds. Header maps and the rules by header are functions on the keys    *)
(* they hold. dtl::Diff is external: it produces hunks exactly when the    *)
(* two sequences of lines differ.                                          *)
(***************************************************************************)
EXTENDS Naturals, Sequences, SequencesExt, Functions, TLC

\* Nothing on one side of a difference, boost::none.
NoValue == <<"none">>

regex_search(text, re) == \E i \in DOMAIN text : text[i] \in re
regex_erase(text, re) ==
    LET left[n \in 0 .. Len(text)] ==
            IF n = 0 THEN <<>>
            ELSE IF text[n] \in re THEN left[n - 1] ELSE Append(left[n - 1], text[n])
    IN left[Len(text)]

NoRules == [stop |-> <<>>, ignore |-> <<>>]

-----------------------------------------------------------------------------
(* MapCompare. The rules are kept in a std::map, so the first rule for a   *)
(* header stays and insert() drops the ones after it.                      *)

FaultyAddRule(rules, key, re) ==
    [k \in DOMAIN rules \cup {key} |-> IF k = key THEN re ELSE rules[k]]

AddRule(rules, key, re) ==
    [k \in DOMAIN rules \cup {key} |-> IF k \in DOMAIN rules THEN rules[k] ELSE re]

checkStop(stop, map) ==
    \E k \in DOMAIN map \cap DOMAIN stop : regex_search(map[k], stop[k])

\* A header whose value is ignored entirely is dropped.
applyIgnoreRegex(ignore, map) ==
    LET erased == [k \in DOMAIN map |->
                      IF k \in DOMAIN ignore THEN regex_erase(map[k], ignore[k]) ELSE map[k]]
    IN Restrict(erased, {k \in DOMAIN map : k \in DOMAIN ignore => erased[k] # <<>>})

\* std::set_difference of two maps as sets of pairs: the keys it returns.
MapDifference(a, b) == {k \in DOMAIN a : k \in DOMAIN b => a[k] # b[k]}

\* What retrieveDiff tells the printer: keys only in the source, only in the
\* destination, and in both with two values.
HeaderDifferences(rules, src, dst) ==
    LET s == applyIgnoreRegex(rules.ignore, src)
        d == applyIgnoreRegex(rules.ignore, dst)
        diffSrc == MapDifference(s, d)
        diffDst == MapDifference(d, s)
    IN {[key |-> k, src |-> s[k], dst |-> NoValue] : k \in diffSrc \ diffDst}
       \cup {[key |-> k, src |-> NoValue, dst |-> d[k]] : k \in diffDst \ diffSrc}
       \cup {[key |-> k, src |-> s[k], dst |-> d[k]] : k \in diffSrc \cap diffDst}

HeaderStopped(rules, src, dst) == checkStop(rules.stop, src) \/ checkStop(rules.stop, dst)

-----------------------------------------------------------------------------
(* StringCompareBody. Rules are lists, all of which apply.                 *)

checkStopRegex(stop, text) == \E i \in DOMAIN stop : regex_search(text, stop[i])

ignoreCases(ignore, text) ==
    LET left[n \in 0 .. Len(ignore)] == IF n = 0 THEN text ELSE regex_erase(left[n - 1], ignore[n])
    IN left[Len(ignore)]

\* The text as its lines: "><" is broken in two and empty lines inside are
\* merged, so that two texts have the same lines iff these are equal.
BodyLines(text) ==
    FoldLeft(LAMBDA acc, c :
                CASE c = "\n" /\ acc # <<>> /\ Last(acc) = "\n" -> acc
                  [] c = "<" /\ acc # <<>> /\ Last(acc) = ">"   -> acc \o <<"\n", c>>
                  [] OTHER                                      -> Append(acc, c),
             <<>>, text)

BodyStopped(rules, src, dst) ==
    checkStopRegex(rules.stop, src) \/ checkStopRegex(rules.stop, dst)

\* StringCompareBody::retrieveDiff: false when stopped and false when there is
\* no difference, unlike its namesake for headers.
BodyDiffers(rules, src, dst) ==
    /\ ~BodyStopped(rules, src, dst)
    /\ BodyLines(ignoreCases(rules.ignore, src)) # BodyLines(ignoreCases(rules.ignore, dst))

-----------------------------------------------------------------------------
(* The printer. addHeaderDiff, addFullDiff and addCassandraDiff set        *)
(* isADiff; statuses, runtimes and the request do not.                     *)

isDiff(printer) == printer.header # {} \/ printer.body \/ printer.cassandra # {}
============================================================================
