---- MODULE SchemaInv ----
(***************************************************************************)
(* The inductive invariant behind the schema manager: who may change which *)
(* schema object, and how the objects in use, the table and the draft of   *)
(* an open ALTER transaction compare.  SchemaProofs proves it, the run     *)
(* SchemaAgrees checks it.                                                 *)
(***************************************************************************)
EXTENDS Schema

(* The conditions under which the code keeps its promise: clients spell    *)
(* names as the catalog does, and no delete loads the schema while a batch *)
(* is in flight.                                                           *)
PlainRegime ==
    /\ \A n \in Name : Bare[ColOf[n]] = n
    /\ ~ RacingDeletes

Altering(w) == writer[w].pc = "altering"

(* The objects that decide what happens to the table next.                 *)
InUse == {o \in Writers \cup Deleters :
            o = cache \/ \E w \in Writers : Altering(w) /\ writer[w].obj = o}

(* The lock is held exactly while a batch loads or alters.                 *)
LockHeld == \A w \in Writers : writer[w].pc \in {"loading", "altering"} => lock = w

(* Batches and deletes are not in flight together.                         *)
Apart == \A w \in Writers, d \in Deleters :
            writer[w].pc \in Ended \/ deleter[d].pc \in Answered

(* Which object each batch works with: the cached one, or one of its own   *)
(* while nothing is cached.                                                *)
RightObject ==
    \A w \in Writers :
        /\ writer[w].pc = "loading" => cache = None
        /\ Altering(w) =>
            /\ writer[w].obj # None
            /\ writer[w].obj = cache \/ (cache = None /\ writer[w].obj = w)
        /\ writer[w].pc \in {"encoded", "staged"} =>
            /\ cache # None /\ writer[w].obj = cache
            /\ Fits(objects[cache], writer[w].want)

(* An ALTER transaction has something left to do before its first          *)
(* statement.                                                              *)
Unaltered ==
    \A w \in Writers : Altering(w) /\ draft = <<>> =>
        ~ Fits(objects[writer[w].obj], writer[w].want)

(* Without a rollback an object in use is what the table is, or will be    *)
(* once the open transaction commits.                                      *)
Truthful ==
    ~ poisoned => \A o \in InUse : \A n \in Name : objects[o][n] = Columns[ColOf[n]]

(* With or without, it never knows less than the table.                    *)
NotNarrower == \A o \in InUse : \A n \in Name : ~ Wider(Columns[ColOf[n]], objects[o][n])

DraftWider == \A c \in Column : ~ Wider(table[c], Columns[c])

PoisonCached == poisoned => cache # None

ReadTruthful ==
    \A d \in Deleters : deleter[d].pc = "read" =>
        \A n \in Name : deleter[d].read[n] = table[ColOf[n]]

SInv ==
    /\ TypeOK /\ LockHeld /\ Apart /\ RightObject /\ Unaltered
    /\ Truthful /\ NotNarrower /\ DraftWider /\ PoisonCached /\ ReadTruthful
    /\ TrueCacheRoundsNothing
-----------------------------------------------------------------------------
(* What batches and deletes are told: the part of the invariant that       *)
(* remembers what a request saw when it came in.                           *)

(* A delete that loads the schema still looks at the table it met.         *)
DeleterTold(d) ==
    /\ deleter[d].pc \in {"loading", "read"} =>
        /\ deleter[d].tag \in Tags
        /\ deleter[d].knew => table[ColOf[deleter[d].tag]] # "none"
    /\ deleter[d].pc = "skipped" => ~ deleter[d].knew

(* Rows were coerced to types the cached object has since only widened.    *)
RowsWithin(w) ==
    writer[w].pc \in {"encoded", "staged"} =>
        \A n \in Wanted(writer[w].want) :
            writer[w].rows[n] # "none" /\ ~ Wider(writer[w].rows[n], objects[cache][n])

(* A refused batch points to the object that is still cached, and no       *)
(* delete is about to replace it.                                          *)
RefusedByCache(w) ==
    writer[w].pc = "refused" =>
        /\ cache # None /\ writer[w].obj = cache
        /\ \A d \in Deleters : deleter[d].pc \notin {"loading", "read"}

(* What it was refused for: a column that became TEXT in the object, or    *)
(* BOOLEAN rows for a column that is wider in the table.                   *)
Overtaken(w, n) ==
    \/ objects[cache][n] = "TEXT" /\ writer[w].rows[n] # "TEXT"
    \/ writer[w].rows[n] = "BOOLEAN" /\ Wider(table[ColOf[n]], "BOOLEAN")

RefusedForCause(w) ==
    writer[w].pc = "refused" /\ ~ poisoned =>
        \E n \in Wanted(writer[w].want) : Overtaken(w, n)

AnswersInv ==
    /\ \A d \in Deleters : DeleterTold(d)
    /\ \A w \in Writers : RowsWithin(w) /\ RefusedByCache(w) /\ RefusedForCause(w)
====
