---- MODULE MCFederation ----
(***************************************************************************)
(* Finite instances of Federation.                                         *)
(***************************************************************************)
EXTENDS Federation

CONSTANTS t1, w1, p1, q1, q2

OneTag == {t1}
OneWriter == {w1}
OnePass == {p1}
OneQuery == {q1}
TwoQueries == {q1, q2}

At(t) == [time |-> t, tag |-> t1]
EachAlone == {{At(0)}, {At(1)}}
OnlyFirst == {{At(0)}}

AllTiers == {"all", "cold"}
All == {"all"}

Between(a, b) == [from |-> a, to |-> b]
EveryWindow == {Between(0, 0), Between(1, 1), Between(0, 1)}
FirstOrAll == {Between(0, 0), Between(0, MaxTime)}
Everything == {Between(0, MaxTime)}

Nowhere == {}
OutsideDeleteLoop == PassSteps \ {"delete", "forget"}
====
