---- MODULE MCBatcher ----
(***************************************************************************)
(* Finite instances of Batcher.                                            *)
(***************************************************************************)
EXTENDS Batcher

CONSTANTS c1, c2, b1, b2

OneClient == {c1}
TwoClients == {c1, c2}
OneWorker == {b1}
TwoWorkers == {b1, b2}
====
