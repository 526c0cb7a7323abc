---- MODULE VersionStore ----
(***************************************************************************)
(* What the tiered store promises its clients, without tiers, files or     *)
(* background passes: one durable map from a row key, (time, tag_hash), to *)
(* the newest sequence number stored under it.  A batch becomes durable as *)
(* a whole, and what is durable is never lost or replaced by an older      *)
(* version.  TieredStore with write-through implements this module.        *)
(***************************************************************************)
EXTENDS Naturals

CONSTANTS
    Key,        \* row keys: a point's time and the hash of its tags
    MaxSeq      \* bound on the sequence numbers handed out

VARIABLE newest     \* newest[k]: highest durable seq of key k, 0 for none

Init == newest = [k \in Key |-> 0]

(* A batch of rows with sequence number s becomes durable, all keys at     *)
(* once.  A newer version of a key that is already durable stays.          *)
Commit(keys, s) ==
    newest' = [k \in Key |-> IF k \in keys /\ newest[k] < s THEN s ELSE newest[k]]

Next == \E keys \in SUBSET Key, s \in 1..MaxSeq : Commit(keys, s)

Spec == Init /\ [][Next]_newest
====
