----------------------------- MODULE DupFormat -----------------------------
(***************************************************************************)
(* The "dup format" in which mod_dup sends a request together with its     *)
(* answer and in which mod_compare reads it back: three sections, each     *)
(* preceded by its length in decimal on a fixed number of characters.      *)
(* RequestInfo::Serialize and sendDupFormat write it, getLength,           *)
(* deserializeBody and deserializeHeader (src/src/deserialize.cc) read it. *)
(*                                                                         *)
(* Text is a sequence of cells. A cell is a character, except that a       *)
(* header line "key: value\n" is one cell; Lines gives the key and the     *)
(* value of the cells that are such lines. The code has 10 digits and      *)
(* SectionWidth 8; an instance has fewer so that lengths reach the limit.  *)
(***************************************************************************)
EXTENDS Integers, Sequences, SequencesExt, TLC

CONSTANTS
    Digit,          \* the digits, a sequence of cells; its length is the base
    SectionWidth,   \* SECTION_SIZE_CHARS
    Lines           \* header line cells to <<key, value>>

ASSUME DupFormatAssumption ==
    /\ Digit \in Seq(Range(Digit)) /\ IsInjective(Digit) /\ Len(Digit) > 1
    /\ SectionWidth \in Nat \ {0}
    /\ IsInjective(Lines)
    /\ Range(Digit) \cap DOMAIN Lines = {}

Base == Len(Digit)

\* The largest number of n digits.
Largest[n \in 0 .. SectionWidth] == IF n = 0 THEN 0 ELSE Largest[n - 1] * Base + Base - 1
MaxSection == Largest[SectionWidth]

-----------------------------------------------------------------------------
(* Writing. setw pads a short number and leaves a long one as it is.       *)

\* n without its last k digits, for k up to width.
Quotients(n, width) ==
    LET q[k \in 0 .. width] == IF k = 0 THEN n ELSE q[k - 1] \div Base IN q

NumberCells(n) ==
    LET width == IF n <= MaxSection THEN SectionWidth
                 ELSE CHOOSE k \in SectionWidth + 1 .. SectionWidth + n :
                        Quotients(n, k)[k] = 0 /\ Quotients(n, k)[k - 1] # 0
    IN [i \in 1 .. width |-> Digit[(Quotients(n, width)[width - i] % Base) + 1]]

Serialize(text) == NumberCells(Len(text)) \o text

\* The answer's headers are a list of <<key, value>>, one line each.
HeaderText(headers) ==
    [i \in DOMAIN headers |-> CHOOSE l \in DOMAIN Lines : Lines[l] = headers[i]]

DupContent(body, headersOut, answer) ==
    Serialize(body) \o Serialize(HeaderText(headersOut)) \o Serialize(answer)

-----------------------------------------------------------------------------
(* Reading. Positions are counted from 0 as in the code. substr stops at   *)
(* the end of the text and throws when it starts behind it. getLength is   *)
(* -1 where the code throws: there is no number, or the text ends inside   *)
(* it, in which case the substr of the section that follows throws.        *)

Substr(text, pos, n) == SubSeq(text, pos + 1, Min({pos + n, Len(text)}))

DigitValue(c) == (CHOOSE i \in DOMAIN Digit : Digit[i] = c) - 1

NumberOf(cells) ==
    LET v[i \in 0 .. Len(cells)] == IF i = 0 THEN 0 ELSE v[i - 1] * Base + DigitValue(cells[i])
    IN v[Len(cells)]

getLength(text, pos) ==
    LET Value(cells) ==
            IF Len(cells) < SectionWidth \/ ~(Range(cells) \subseteq Range(Digit)) THEN -1
            ELSE NumberOf(cells)
    IN CHOOSE n \in {Value(cells) : cells \in {Substr(text, pos, SectionWidth)}} : TRUE

Stored(map, line) == [k \in DOMAIN map \cup {line[1]} |-> IF k = line[1] THEN line[2] ELSE map[k]]

HeaderMap(text) ==
    LET map[n \in 0 .. Len(text)] == IF n = 0 THEN <<>> ELSE Stored(map[n - 1], Lines[text[n]])
    IN map[Len(text)]

\* Stores the lines up to the first one without ": ", which throws.
deserializeHeader(text) ==
    LET bad  == SelectInSeq(text, LAMBDA l : l \notin DOMAIN Lines)
        read == IF bad = 0 THEN text ELSE SubSeq(text, 1, bad - 1)
    IN [ok |-> bad = 0, map |-> HeaderMap(read)]

NothingRead == [ok |-> FALSE, reqBody |-> <<>>, respHeader |-> <<>>, respBody |-> <<>>]

\* What the RequestInfo holds after deserializeBody: a section that cannot be
\* read ends it and leaves the sections before it in place.
deserializeBody(text) ==
    LET reqLen  == getLength(text, 0)
        hdrPos  == SectionWidth + reqLen
        hdrLen  == getLength(text, hdrPos)
        bodyPos == hdrPos + SectionWidth + hdrLen
        bodyLen == getLength(text, bodyPos)
        request == [NothingRead EXCEPT !.reqBody = Substr(text, SectionWidth, reqLen)]
        header  == deserializeHeader(Substr(text, hdrPos + SectionWidth, hdrLen))
    IN IF Len(text) < 3 * SectionWidth \/ reqLen = -1 THEN NothingRead
       ELSE IF hdrLen = -1 \/ bodyLen = -1 THEN request
       ELSE [request EXCEPT
                !.ok         = header.ok,
                !.respHeader = header.map,
                !.respBody   = Substr(text, bodyPos + SectionWidth, bodyLen)]
============================================================================
