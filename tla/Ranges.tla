---- MODULE Ranges ----
(***************************************************************************)
(* Time ranges of manifest rows, as module TieredStore uses them and as    *)
(* module Coverage checks them against the code's algorithms.              *)
(***************************************************************************)
EXTENDS Naturals

(* The recorded ranges leave no instant of [cs, ce) out.                   *)
CoveredBy(cs, ce, metas) ==
    \A t \in cs..(ce - 1) : \E m \in metas : m.lo <= t /\ t < m.hi
====
