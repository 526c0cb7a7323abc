---- MODULE MCPureFunctions ----
(***************************************************************************)
(* Inputs for PureFunctions: names of one or two symbols, strings of up to *)
(* two, one part of the point varied at a time.                            *)
(***************************************************************************)
EXTENDS PureFunctions

ScanChars == {"m", ",", "=", " ", BS, QT}

Words(chars, lo, hi) == UNION {[1..n -> chars] : n \in lo..hi}
Names == Words({"m", ",", "=", " ", BS}, 1, 2)

PointOf(m, tags, fields, ts) ==
    [status |-> "ok", measurement |-> m, tags |-> tags, fields |-> fields, time |-> ts]
One(k, v) == [x \in {k} |-> v]
Count == One(<<"m">>, Value("int", <<"1">>))
WithCount(k, v) == [x \in {k, <<"m">>} |-> IF x = k THEN v ELSE Count[x]]

Plain == <<"m">>
Stamps == {<<>>, <<"1">>}
Values == {Value("str", s) : s \in Words(ScanChars, 0, 2)}
            \cup {Value("float", <<"1">>), Value("bool", <<"t">>), Value("bool", <<"f">>)}

EndsInBackslash(v) == v.type = "str" /\ v.text # <<>> /\ Last(v.text) = BS

PointsWith(values) ==
    {PointOf(m, <<>>, Count, ts) : m \in Names, ts \in Stamps}
        \cup {PointOf(Plain, One(k, Value("tag", v)), Count, <<>>) :
                k \in Names, v \in Names \cup {<<>>}}
        \cup {PointOf(Plain, <<>>, One(k, v), ts) : k \in Names, v \in values, ts \in Stamps}
        \cup {PointOf(Plain, <<>>, WithCount(k, v), ts) :
                k \in {<<",">>, <<"=", "m">>}, v \in values, ts \in Stamps}

PlainPoints == PointsWith({v \in Values : ~ EndsInBackslash(v)})
AllPoints == PointsWith(Values)

Alphabet == ScanChars \cup {"#", "1", "9", "i", "t", "f"}

ASSUME PlainPointsAreWritten == \A p \in PlainPoints : Written(p)

Good == <<"m", " ", "m", "=", "1">>
NoFields == <<"m">>
Comment == <<" ", "#", "m">>
BadInteger == <<"m", " ", "m", "=", "m", "i">>
FarInstant == Good \o <<" ", "9">>
BodyLines == {Good, NoFields, <<>>, Comment, BadInteger, FarInstant}
====
