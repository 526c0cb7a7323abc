---- MODULE MCService ----
(***************************************************************************)
(* Finite instances of Service.                                            *)
(***************************************************************************)
EXTENDS Service

CONSTANTS c1, c2, b1, b2

OneClient == {c1}
TwoClients == {c1, c2}
TwoWorkers == {b1, b2}
====
