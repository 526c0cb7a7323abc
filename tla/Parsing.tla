---- MODULE Parsing ----
(***************************************************************************)
(* What the line-protocol parser makes of every short text, of points that *)
(* a client has written out by the rules in the parser's description, and  *)
(* of bodies of several lines.                                             *)
(***************************************************************************)
EXTENDS LineProto, FiniteSets

CONSTANTS
    Chars,      \* symbols of the texts typed one by one
    MaxText,    \* bound: length of such a text
    Points,     \* points that clients write out
    Lines,      \* lines that bodies are made of
    MaxLines,   \* bound: lines of a body
    Symbols     \* what the texts of points and lines consist of

ASSUME ParsingBounds == MaxText \in Nat /\ MaxLines \in Nat

ASSUME SymbolsHaveMarks ==
    {BS, QT, "i", "t", "f"} \cup NameDelims \cup Digits \subseteq Symbols

ASSUME LinesAreTexts == Lines \subseteq Seq(Symbols)

ASSUME PointsAreRecords ==
    \A p \in Points : DOMAIN p = {"status", "measurement", "tags", "fields", "time"}

VARIABLES
    text,       \* the text typed so far, or the line of a point
    sent,       \* what the client meant: a point, a body, or <<>>
    parsed      \* what the parser returned for it

parsingVars == <<text, sent, parsed>>

ParsingInit == text = <<>> /\ sent = <<>> /\ parsed = <<>>

-----------------------------------------------------------------------------
(* A client's encoder: names escape their delimiters and the backslash,    *)
(* strings are quoted and escape quotes and backslashes.                   *)

EscapedSymbol(c, delims) == IF c \in delims \cup {BS} THEN <<BS, c>> ELSE <<c>>

Escaped(s, delims) ==
    LET out[n \in 0..Len(s)] ==
            IF n = 0 THEN <<>> ELSE out[n - 1] \o EscapedSymbol(s[n], delims)
    IN  out[Len(s)]

EncodedValue(v) ==
    CASE v.type = "str" -> <<QT>> \o Escaped(v.text, {QT}) \o <<QT>>
      [] v.type = "int" -> v.text \o <<"i">>
      [] v.type = "tag" -> Escaped(v.text, NameDelims)
      [] OTHER -> v.text

EncodedPairs(pairs, keys) ==
    [j \in DOMAIN keys |->
        Escaped(keys[j], NameDelims) \o <<"=">> \o EncodedValue(pairs[keys[j]])]

Joined(parts, sep) ==
    LET out[n \in 0..Len(parts)] ==
            IF n = 0 THEN <<>>
            ELSE IF n = 1 THEN parts[1]
            ELSE out[n - 1] \o <<sep>> \o parts[n]
    IN  out[Len(parts)]

Encoded(p) ==
    LET head == <<Escaped(p.measurement, {",", " "})>>
                    \o EncodedPairs(p.tags, SetToSeq(DOMAIN p.tags))
        fields == EncodedPairs(p.fields, SetToSeq(DOMAIN p.fields))
        stamp == IF p.time = <<>> THEN <<>> ELSE <<p.time>>
    IN  Joined(<<Joined(head, ","), Joined(fields, ",")>> \o stamp, " ")

-----------------------------------------------------------------------------
(* Points that a line can carry: a quote has no escape in a name, a string *)
(* that ends in a backslash has none for it, "#" starts a comment.         *)
NameText(x) == x \in Seq(Symbols) /\ QT \notin Range(x)

FieldValue(v) ==
    \/ /\ v = Value("str", v.text) /\ v.text \in Seq(Symbols)
       /\ v.text = <<>> \/ Last(v.text) # BS
    \/ /\ v = Value(v.type, v.text) /\ v.type \in {"int", "float"}
       /\ v.text \in Seq(Digits) \ {<<>>}
    \/ v \in {Value("bool", <<"t">>), Value("bool", <<"f">>)}

Section(pairs) ==
    /\ pairs = [k \in DOMAIN pairs |-> pairs[k]] /\ IsFiniteSet(DOMAIN pairs)
    /\ \A k \in DOMAIN pairs : NameText(k) /\ k # <<>>

Written(p) ==
    /\ p = [status |-> "ok", measurement |-> p.measurement,
            tags |-> p.tags, fields |-> p.fields, time |-> p.time]
    /\ NameText(p.measurement) /\ p.measurement # <<>> /\ Head(p.measurement) # "#"
    /\ Section(p.tags) /\ Section(p.fields) /\ DOMAIN p.fields # {}
    /\ \A k \in DOMAIN p.tags :
            p.tags[k] = Value("tag", p.tags[k].text) /\ NameText(p.tags[k].text)
    /\ \A k \in DOMAIN p.fields : FieldValue(p.fields[k])
    /\ p.time \in Seq({"1"})

Type(c) ==
    /\ sent = <<>>
    /\ Len(text) < MaxText
    /\ text' = Append(text, c)
    /\ UNCHANGED <<sent, parsed>>

SendPoint ==
    /\ text = <<>> /\ sent = <<>>
    /\ \E p \in Points : sent' = p /\ text' = Encoded(p) /\ parsed' = parse_line(Encoded(p))

SendBody ==
    /\ text = <<>> /\ sent = <<>>
    /\ \E n \in 1..MaxLines : \E lines \in [1..n -> Lines] :
            sent' = [lines |-> lines] /\ parsed' = parse_batch(lines)
    /\ UNCHANGED text

ParsingNext ==
    \/ \E c \in Chars : Type(c)
    \/ SendPoint
    \/ SendBody

ParsingSpec == ParsingInit /\ [][ParsingNext]_parsingVars

-----------------------------------------------------------------------------
(* Properties                                                              *)

Sent(what) == sent # <<>> /\ what \in DOMAIN sent

(* How many backslashes stand right before position j of s.                *)
BackslashesBefore(s, j) ==
    LET others == {k \in 1..(j - 1) : s[k] # BS}
    IN  j - 1 - (IF others = {} THEN 0 ELSE CHOOSE k \in others : \A l \in others : l <= k)

Bare(s, j) == BackslashesBefore(s, j) % 2 = 0
QuotesBefore(s, j) == {k \in 1..(j - 1) : s[k] = QT /\ Bare(s, k)}

(* A quote after an escaped backslash, which the scanner does not take for *)
(* one.                                                                    *)
Misread(s) == \E k \in DOMAIN s : s[k] = QT /\ Bare(s, k) /\ BackslashesBefore(s, k) > 0

IsCut(s, j, sep, quotes) ==
    s[j] = sep /\ Bare(s, j) /\ (quotes => Cardinality(QuotesBefore(s, j)) % 2 = 0)

InOrder(S) ==
    [i \in 1..Cardinality(S) |-> CHOOSE j \in S : Cardinality({k \in S : k <= j}) = i]

Segments(s, cuts) ==
    LET ends == InOrder(cuts \cup {Len(s) + 1})
    IN  [j \in DOMAIN ends |-> SubSeq(s, IF j = 1 THEN 1 ELSE ends[j - 1] + 1, ends[j] - 1)]

(* The scanner cuts a text exactly at the separators that have an even     *)
(* number of backslashes before them and, where quotes count, an even      *)
(* number of quotes that are not escaped themselves; nothing is dropped.   *)
CutsWhereUnescaped ==
    sent = <<>> => \A sep \in NameDelims, quotes \in BOOLEAN :
        ~ (quotes /\ Misread(text)) =>
            _split_top(text, sep, quotes)
                = Segments(text, {j \in DOMAIN text : IsCut(text, j, sep, quotes)})

(* A point written out by the rules comes back as it was meant: commas,    *)
(* equals signs, blanks and backslashes in every name, quotes too in       *)
(* strings, with and without a second field and a timestamp.               *)
PointsSurvive == Sent("status") => parsed = sent

(* What parse_batch should make of lines, given what each of them gives.   *)
LineByLine(lines, points) ==
    LET is(status) == {j \in DOMAIN lines :
                          points[j].status = status /\ ~ Passed(Stripped(lines[j]))}
        ok == InOrder(is("ok"))
    IN  /\ parsed.aborted => is("raises") # {}
        /\ parsed.aborted
            \/ /\ parsed.errors = InOrder(is("rejected"))
               /\ parsed.points = [j \in DOMAIN ok |-> points[ok[j]]]

(* A body is parsed line by line: the good lines in order, the numbers of  *)
(* the bad ones, nothing for blank lines and comments.  Nothing but a      *)
(* number or an instant that cannot be converted keeps it from that.       *)
BodyIsLineByLine ==
    Sent("lines") =>
        LineByLine(sent.lines, [j \in DOMAIN sent.lines |-> parse_line(sent.lines[j])])

(* "Parse errors on a single line are reported but do not abort the whole  *)
(* batch", whatever the error is.  A conversion that raises breaks this.   *)
LineErrorsStayLocal == Sent("lines") => ~ parsed.aborted
====
