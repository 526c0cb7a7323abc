---- MODULE LineProto ----
(***************************************************************************)
(* The line-protocol parser.  A text is a sequence of symbols: the ones    *)
(* the parser looks for, and "m", "1", "9", "i", "u", "t" and "f" for the  *)
(* rest: "1" stands for digits, "9" for digits of an instant that no       *)
(* datetime holds, "t" and "f" also for the words true and false.  What    *)
(* raises LineProtocolError is "rejected"; what raises another ValueError, *)
(* which nobody catches, is "raises".                                      *)
(***************************************************************************)
EXTENDS Naturals, Sequences, SequencesExt, Functions

BS == "\\"
QT == "\""

Digits == {"1", "9"}
IsNumber(s) == s # <<>> /\ \A j \in DOMAIN s : s[j] \in Digits

-----------------------------------------------------------------------------
(* Scanning                                                                *)

(* Mutant of ScanStep: escapes are not seen inside quotes.                 *)
ScanStepPlainQuotes(s, sep, quotes, st, j) ==
    LET c == s[j]
        add == [st EXCEPT !.last = Append(@, c), !.pair = FALSE]
    IN  IF quotes /\ c = QT THEN [add EXCEPT !.quoted = ~ @]
        ELSE IF st.pair THEN add
        ELSE IF c = BS /\ j < Len(s) THEN [add EXCEPT !.pair = TRUE]
        ELSE IF c = sep /\ ~ st.quoted
             THEN [st EXCEPT !.parts = Append(@, st.last), !.last = <<>>]
        ELSE add

(* One symbol of _split_top: the second of a backslash pair is taken as it *)
(* is; a quote toggles unless a backslash precedes it.                     *)
ScanStep(s, sep, quotes, st, j) ==
    LET c == s[j]
        add == [st EXCEPT !.last = Append(@, c), !.pair = FALSE]
    IN  IF st.pair THEN add
        ELSE IF quotes /\ c = QT /\ (j = 1 \/ s[j - 1] # BS) THEN [add EXCEPT !.quoted = ~ @]
        ELSE IF c = BS /\ j < Len(s) THEN [add EXCEPT !.pair = TRUE]
        ELSE IF c = sep /\ ~ st.quoted
             THEN [st EXCEPT !.parts = Append(@, st.last), !.last = <<>>]
        ELSE add

Fresh == [parts |-> <<>>, last |-> <<>>, pair |-> FALSE, quoted |-> FALSE]

(* What the scanner holds after each symbol.                               *)
ScanLoop(s, sep, quotes) ==
    LET st[n \in 0..Len(s)] ==
            IF n = 0 THEN Fresh ELSE ScanStep(s, sep, quotes, st[n - 1], n)
    IN  st

_split_top(s, sep, quotes) ==
    LET end == ScanLoop(s, sep, quotes)[Len(s)]
    IN  Append(end.parts, end.last)

_split_top_space(s) == _split_top(s, " ", TRUE)

(* Mutant of Escapes: the backslash itself cannot be escaped.              *)
EscapesDelims(s, delims, j) == s[j] = BS /\ j < Len(s) /\ s[j + 1] \in delims

(* The backslash at j belongs to the symbol after it.                      *)
Escapes(s, delims, j) == s[j] = BS /\ j < Len(s) /\ s[j + 1] \in delims \cup {BS}

UnescapeStep(s, delims, st, j) ==
    IF ~ st.pair /\ Escapes(s, delims, j) THEN [st EXCEPT !.pair = TRUE]
    ELSE [out |-> Append(st.out, s[j]), pair |-> FALSE]

UnescapeLoop(s, delims) ==
    LET st[n \in 0..Len(s)] ==
            IF n = 0 THEN [out |-> <<>>, pair |-> FALSE]
            ELSE UnescapeStep(s, delims, st[n - 1], n)
    IN  st

(* Also the loop that unescapes a quoted string.                           *)
_unescape(s, delims) == UnescapeLoop(s, delims)[Len(s)].out

-----------------------------------------------------------------------------
(* Lines                                                                   *)

NameDelims == {",", "=", " "}
Value(t, v) == [type |-> t, text |-> v]
Rejected == Value("rejected", <<>>)
Raises == Value("raises", <<>>)

_parse_field_value(raw) ==
    CASE raw = <<>> -> Rejected
      [] Len(raw) >= 2 /\ Head(raw) = QT /\ Last(raw) = QT ->
            Value("str", _unescape(Front(Tail(raw)), {QT}))
      [] raw \in {<<"t">>, <<"f">>} -> Value("bool", raw)
      [] Last(raw) \in {"i", "u"} ->
            IF IsNumber(Front(raw)) THEN Value("int", Front(raw)) ELSE Raises
      [] OTHER -> IF IsNumber(raw) THEN Value("float", raw) ELSE Rejected

TagValue(raw) == Value("tag", _unescape(raw, NameDelims))

(* The two sides of key=value; quotes count in fields only.                *)
Pair(kv, isField) ==
    IF Len(kv) # 2 THEN [key |-> <<>>, value |-> Rejected]
    ELSE [key |-> _unescape(kv[1], NameDelims),
          value |-> IF isField THEN _parse_field_value(kv[2]) ELSE TagValue(kv[2])]

(* The first error ends the line, a repeated key takes the last value.     *)
WithPair(st, pair) ==
    IF pair.key = <<>> THEN [st EXCEPT !.status = "rejected"]
    ELSE IF pair.value.type \in {"rejected", "raises"} THEN [st EXCEPT !.status = pair.value.type]
    ELSE [st EXCEPT !.pairs =
             [k \in DOMAIN @ \cup {pair.key} |-> IF k = pair.key THEN pair.value ELSE @[k]]]

(* One part of a section of tags or fields: an empty one is skipped.       *)
AddPair(st, part, isField) ==
    IF st.status # "ok" \/ part = <<>> THEN st
    ELSE WithPair(st, Pair(_split_top(part, "=", isField), isField))

PairsLoop(parts, isField) ==
    LET st[n \in 0..Len(parts)] ==
            IF n = 0 THEN [status |-> "ok", pairs |-> <<>>]
            ELSE AddPair(st[n - 1], parts[n], isField)
    IN  st

Pairs(parts, isField) == PairsLoop(parts, isField)[Len(parts)]

(* strip(): no blanks at either end.                                       *)
Stripped(s) ==
    LET ink == {j \in DOMAIN s : s[j] # " "}
    IN  IF ink = {} THEN <<>>
        ELSE SubSeq(s, CHOOSE j \in ink : \A k \in ink : j <= k,
                       CHOOSE j \in ink : \A k \in ink : j >= k)

Stamp(sections) == IF Len(sections) >= 3 THEN sections[3] ELSE <<>>

Failure(status) == [status |-> status]

(* What is left to be checked once tags and fields are read.               *)
PointOrError(measurement, tags, fields, ts) ==
    IF measurement = <<>> THEN Failure("rejected")
    ELSE IF tags.status # "ok" THEN Failure(tags.status)
    ELSE IF fields.status # "ok" THEN Failure(fields.status)
    ELSE IF fields.pairs = <<>> \/ (ts # <<>> /\ ~ IsNumber(ts)) THEN Failure("rejected")
    ELSE IF "9" \in Range(ts) THEN Failure("raises")
    ELSE [status |-> "ok", measurement |-> measurement,
          tags |-> tags.pairs, fields |-> fields.pairs, time |-> ts]

ParsedHead(head, fields, ts) ==
    PointOrError(_unescape(head[1], {",", " "}),
                 Pairs(Tail(head), FALSE), Pairs(fields, TRUE), ts)

ParsedSections(sections) ==
    IF Len(sections) < 2 THEN Failure("rejected")
    ELSE ParsedHead(_split_top(sections[1], ",", FALSE),
                    _split_top(sections[2], ",", TRUE), Stamp(sections))

Passed(s) == s = <<>> \/ Head(s) = "#"

parse_line(line) ==
    IF Passed(Stripped(line)) THEN Failure("rejected")
    ELSE ParsedSections(_split_top_space(Stripped(line)))

(* Mutant of Counted: blank lines and comments have no number.             *)
CountedInk(st) == Len(st.points) + Len(st.errors) + 1

(* enumerate numbers every line of the body.                               *)
Counted(st) == st.line + 1

(* An error that is not caught ends the request.                           *)
AddLine(st, point) ==
    CASE point.status = "ok" -> [st EXCEPT !.points = Append(@, point)]
      [] point.status = "rejected" -> [st EXCEPT !.errors = Append(@, st.line)]
      [] point.status = "raises" -> [st EXCEPT !.aborted = TRUE]

(* Blank lines and comments are passed over.                               *)
NextLine(st, line) ==
    IF st.aborted THEN st
    ELSE IF Passed(Stripped(line)) THEN [st EXCEPT !.line = Counted(st)]
    ELSE AddLine([st EXCEPT !.line = Counted(st)], parse_line(line))

BatchLoop(lines) ==
    LET st[n \in 0..Len(lines)] ==
            IF n = 0 THEN [line |-> 0, points |-> <<>>, errors |-> <<>>, aborted |-> FALSE]
            ELSE NextLine(st[n - 1], lines[n])
    IN  st

parse_batch(lines) == BatchLoop(lines)[Len(lines)]
====
