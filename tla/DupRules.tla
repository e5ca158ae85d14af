------------------------------ MODULE DupRules ------------------------------
(***************************************************************************)
(* How mod_dup decides where a request is duplicated to and how it is      *)
(* rewritten on the way: filters, prevent filters and substitutions of     *)
(* src/src/RequestProcessor.cc, and the url codecs they use.               *)
(*                                                                         *)
(* Text is a sequence of words; "&", "=", "+" and the escapes are words of *)
(* their own. A regular expression is the set of words it finds. A scope   *)
(* is the set of the parts of a request it names. The rules of a           *)
(* destination are kept in the order in which they were declared, which is *)
(* the order of a multimap or list among the entries that matter.          *)
(***************************************************************************)
EXTENDS Integers, Sequences, FiniteSets, SequencesExt, Functions, TLC

CONSTANTS
    Upper,          \* the upper case of the words that are not upper case
    Unescaped,      \* ap_unescape_url, on the words it changes
    Escaped         \* ap_escape_path_segment, on the words it changes

\* An upper-case word stays as it is and no word turns into a separator; the
\* unescape functions undo the escape functions, which leave no + or & behind.
ASSUME CodecAssumption ==
    /\ Range(Upper) \cap (DOMAIN Upper \cup {"&", "="}) = {}
    /\ \A word \in DOMAIN Escaped :
          /\ Escaped[word] \in DOMAIN Unescaped /\ Unescaped[Escaped[word]] = word
          /\ Escaped[word] \notin {"+", "&"}
    /\ "%2b" \in DOMAIN Unescaped /\ Unescaped["%2b"] = "+"

-----------------------------------------------------------------------------
(* ApplicationScope: the values of the enumeration as sets of their bits.  *)

RawParts == <<"METHOD", "PATH", "QUERY_STRING", "HEADERS", "BODY">>
KeyParts == <<"QUERY_STRING", "HEADERS", "BODY">>
URL == {"PATH", "QUERY_STRING"}

stringToEnum == [METHOD |-> {"METHOD"}, PATH |-> {"PATH"}, QUERY_STRING |-> {"QUERY_STRING"},
                 URL |-> URL, HEADERS |-> {"HEADERS"}, BODY |-> {"BODY"},
                 URL_AND_HEADERS |-> URL \cup {"HEADERS"}, ALL |-> Range(RawParts)]

-----------------------------------------------------------------------------
(* The entries of a sequence at some of its positions, in their order.     *)

NthOf(S, n) == CHOOSE i \in S : Cardinality({j \in S : j <= i}) = n
Pick(s, S) == [n \in 1 .. Cardinality(S) |-> s[NthOf(S, n)]]

-----------------------------------------------------------------------------
(* Text.                                                                   *)

MapWords(f, text) == [i \in DOMAIN text |-> IF text[i] \in DOMAIN f THEN f[text[i]] ELSE text[i]]

to_upper(text) == MapWords(Upper, text)

regex_search(text, re) == \E i \in DOMAIN text : text[i] \in re
\* what[0], the first match.
FirstMatch(text, re) == <<text[SelectInSeq(text, LAMBDA w : w \in re)]>>
regex_replace(text, sub) ==
    FlattenSeq([i \in DOMAIN text |-> IF text[i] \in sub.re THEN sub.replacement ELSE <<text[i]>>])

\* The two codecs; "default" also treats + as a space.
decode(codec, text) ==
    MapWords(Unescaped, IF codec = "apache" THEN text ELSE MapWords([plus \in {"+"} |-> " "], text))

encode(codec, text) ==
    LET escaped == MapWords(Escaped, text)
    IN IF codec = "apache" THEN escaped ELSE MapWords([plus \in {"+"} |-> "%2b"], escaped)

\* The tokens between separators; empty ones are dropped.
Tokens(text) ==
    LET starts == {i \in DOMAIN text : text[i] # "&" /\ (i = 1 \/ text[i - 1] = "&")}
        End(i) == Max({j \in i .. Len(text) : \A k \in i .. j : text[k] # "&"})
    IN Pick([i \in DOMAIN text |-> SubSeq(text, i, End(i))], starts)

KeyVal(codec, token) ==
    LET eq == SelectInSeq(token, LAMBDA w : w = "=")
    IN IF eq = 0 THEN [key |-> to_upper(token), val |-> <<>>]
       ELSE [key |-> to_upper(SubSeq(token, 1, eq - 1)),
             val |-> decode(codec, SubSeq(token, eq + 1, Len(token)))]

parseArgs(codec, text) ==
    LET tokens == Tokens(text) IN [i \in DOMAIN tokens |-> KeyVal(codec, tokens[i])]

flatten(keyVals) ==
    FlattenSeq([i \in DOMAIN keyVals |-> keyVals[i].key \o <<": ">> \o keyVals[i].val])

-----------------------------------------------------------------------------
(* Commands, the rules of one destination.                                 *)

NewCommands == [mFilters |-> <<>>, mRawFilters |-> <<>>, mSubstitutions |-> <<>>,
                mRawSubstitutions |-> <<>>, mDuplicationPercentage |-> 100]

toDuplicate(percentage, rand) == rand % 100 < percentage % 100

toDuplicateInt(percentage, rand) ==
    (percentage \div 100)
    + (IF percentage % 100 # 0 /\ toDuplicate(percentage, rand) THEN 1 ELSE 0)

-----------------------------------------------------------------------------
(* matchesFilter. Its result is a reference to the filter, <<"key", i>> or *)
(* <<"raw", i>>, and the text to store in mMatch; NoMatch is NULL. The     *)
(* counts of applicationOnMap only save the search of a part no key filter *)
(* is about.                                                               *)

NoMatch == [ref |-> <<>>, match |-> <<>>]

KeyVals(codec, r, part) ==
    CASE part = "QUERY_STRING" -> r.mParsedArgs
      [] part = "HEADERS"      -> r.mHeadersIn
      [] part = "BODY"         -> parseArgs(codec, r.mBody)

PartText(r, part) ==
    CASE part = "METHOD"       -> r.mMethod
      [] part = "PATH"         -> r.mPath
      [] part = "QUERY_STRING" -> r.mArgs
      [] part = "HEADERS"      -> flatten(r.mHeadersIn)
      [] part = "BODY"         -> r.mBody

KeyHit(filter, keyVal, part, type) ==
    /\ filter.field = to_upper(keyVal.key)
    /\ part \in filter.scope /\ filter.type = type
    /\ regex_search(keyVal.val, filter.re)

FirstHit(filters, keyVal, part, type) ==
    SelectInSeq(filters, LAMBDA f : KeyHit(f, keyVal, part, type))

\* The index of the filter, 0 for none: the first key of the request for which
\* a filter matches, and the first such filter.
keyFilterMatch(filters, keyVals, part, type) ==
    LET key == SelectInSeq(keyVals, LAMBDA kv : FirstHit(filters, kv, part, type) # 0)
    IN IF key = 0 THEN 0 ELSE FirstHit(filters, keyVals[key], part, type)

\* The first part of the request, in the code's order, that a raw filter finds.
rawFilterPart(filter, r) ==
    SelectInSeq(RawParts, LAMBDA part : /\ part \in filter.scope
                                        /\ regex_search(PartText(r, part), filter.re))

Prevented(codec, commands, r) ==
    \/ \E i \in DOMAIN KeyParts :
          keyFilterMatch(commands.mFilters, KeyVals(codec, r, KeyParts[i]), KeyParts[i],
                         "PREVENT_DUPLICATION") # 0
    \/ \E i \in DOMAIN commands.mRawFilters :
          /\ commands.mRawFilters[i].type = "PREVENT_DUPLICATION"
          /\ rawFilterPart(commands.mRawFilters[i], r) # 0

\* Regular filters first, so that a prevent filter only counts where none matches.
FaultymatchesFilter(codec, commands, r) ==
    LET Keyed(part) == keyFilterMatch(commands.mFilters, KeyVals(codec, r, part), part, "REGULAR")
        keyPart == SelectInSeq(KeyParts, LAMBDA part : Keyed(part) # 0)
    IN IF keyPart = 0 THEN NoMatch
       ELSE [ref |-> <<"key", Keyed(KeyParts[keyPart])>>, match |-> <<"regex">>]

matchesFilter(codec, commands, r) ==
    LET Keyed(part) == keyFilterMatch(commands.mFilters, KeyVals(codec, r, part), part, "REGULAR")
        keyPart == SelectInSeq(KeyParts, LAMBDA part : Keyed(part) # 0)
        raw == SelectInSeq(commands.mRawFilters, LAMBDA f : /\ f.type = "REGULAR"
                                                             /\ rawFilterPart(f, r) # 0)
    IN IF Prevented(codec, commands, r) THEN NoMatch
       ELSE IF keyPart # 0 THEN [ref |-> <<"key", Keyed(KeyParts[keyPart])>>, match |-> <<"regex">>]
       ELSE IF raw = 0 THEN NoMatch
       ELSE LET f == commands.mRawFilters[raw]
                part == RawParts[rawFilterPart(f, r)]
            IN [ref |-> <<"raw", raw>>, match |-> FirstMatch(PartText(r, part), f.re)]

FilterOf(commands, ref) ==
    IF ref[1] = "key" THEN commands.mFilters[ref[2]] ELSE commands.mRawFilters[ref[2]]

-----------------------------------------------------------------------------
(* substituteRequest.                                                      *)

\* The substitutions for a key and a part. A header is looked up as it was
\* written, although the fields of the rules are in upper case.
SubsFor(subs, key, part) ==
    Pick(subs, {i \in DOMAIN subs : subs[i].field = key /\ part \in subs[i].scope})

\* The substitutions one after the other.
SubstituteAll(text, subs) ==
    LET after[n \in 0 .. Len(subs)] == IF n = 0 THEN text ELSE regex_replace(after[n - 1], subs[n])
    IN after[Len(subs)]

Substituted(subs, keyVal, part) ==
    [keyVal EXCEPT !.val = SubstituteAll(@, SubsFor(subs, keyVal.key, part))]

FaultyArgText(codec, keyVal) == keyVal.key \o <<"=">> \o keyVal.val

ArgText(codec, keyVal) ==
    IF keyVal.val = <<>> THEN keyVal.key
    ELSE keyVal.key \o <<"=">> \o encode(codec, keyVal.val)

join(texts) ==
    FlattenSeq([i \in DOMAIN texts |-> (IF i = 1 THEN <<>> ELSE <<"&">>) \o texts[i]])

\* The text is rebuilt from all its keys as soon as one rule applies to one of them.
keySubstitute(codec, subs, keyVals, part, text) ==
    IF \A i \in DOMAIN keyVals : SubsFor(subs, keyVals[i].key, part) = <<>> THEN text
    ELSE join([i \in DOMAIN keyVals |-> ArgText(codec, Substituted(subs, keyVals[i], part))])

headerSubstitute(subs, headers) ==
    [i \in DOMAIN headers |-> Substituted(subs, headers[i], "HEADERS")]

\* The path is rewritten for any bit of URL, so also for the scope QUERY_STRING.
rawSubstitute(subs, r) ==
    LET About(parts) == Pick(subs, {i \in DOMAIN subs : subs[i].scope \cap parts # {}})
    IN [r EXCEPT !.mPath = SubstituteAll(@, About(URL)),
                 !.mBody = SubstituteAll(@, About({"BODY"})),
                 !.mArgs = SubstituteAll(@, About({"QUERY_STRING"}))]

substituteRequest(codec, commands, r) ==
    LET subs == commands.mSubstitutions
        keyed == [r EXCEPT
                    !.mArgs = keySubstitute(codec, subs, r.mParsedArgs, "QUERY_STRING", @),
                    !.mHeadersIn = headerSubstitute(subs, @),
                    !.mBody = keySubstitute(codec, subs, parseArgs(codec, @), "BODY", @)]
    IN rawSubstitute(commands.mRawSubstitutions, keyed)
============================================================================
