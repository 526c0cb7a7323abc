---- MODULE MCSchema ----
(***************************************************************************)
(* Finite instances of Schema.                                             *)
(***************************************************************************)
EXTENDS SchemaInv, TLC

CONSTANTS w1, w2, d1

OneWriter == {w1}
TwoWriters == {w1, w2}
OneDeleter == {d1}
NoDeleter == {}
WriterSymmetry == Permutations(Writers)

(* One tag and one field, spelled as the catalog spells them.              *)
HostTemp == {"host", "temp"}
HostTag == {"host"}
PlainColumns == {"t_host", "f_temp"}
PlainColOf == [host |-> "t_host", temp |-> "f_temp"]
PlainBare == [c \in PlainColumns |-> IF c = "t_host" THEN "host" ELSE "temp"]

(* The same columns, written by clients that capitalize their names.       *)
HostTempCapital == {"host", "temp", "Host", "Temp"}
CapitalTag == {"Host"}
CapitalColOf == [n \in HostTempCapital |->
    IF n \in {"host", "Host"} THEN "t_host" ELSE "f_temp"]

Reading(kind) == [temp |-> kind]
Tagged(kind) == [host |-> "str", temp |-> kind]
Capital(kind) == [Host |-> "str", Temp |-> kind]

EveryType == {{Reading("bool")}, {Tagged("int")}, {Reading("float"), Tagged("bool")},
              {Tagged("str")}}
CapitalBatches == {{Capital("int")}, {Capital("float")}, {Capital("str")}}
====
