---- MODULE MCTieredStore ----
(***************************************************************************)
(* Finite instances of TieredStore.                                        *)
(***************************************************************************)
EXTENDS TieredStoreInv, TLC

CONSTANTS t1, w1, w2, p1, p2

OneTag == {t1}
OneWriter == {w1}
TwoWriters == {w1, w2}
OnePass == {p1}
TwoPasses == {p1, p2}

At(t) == [time |-> t, tag |-> t1]
FirstOrBoth == {{At(0)}, {At(0), At(1)}}
AnyBatch == (SUBSET Key) \ {{}}

WriterSymmetry == Permutations(TwoWriters)

Nowhere == {}
AtDelete == {"delete"}
AtForget == {"forget"}
OutsideDeleteLoop == PassSteps \ {"delete", "forget"}
====
