---- MODULE Schema ----
(***************************************************************************)
(* The schema manager of one measurement: the cached TableSchema, the lock *)
(* that guards its changes, the ALTER TABLE transaction, type widening,    *)
(* and the batches and deletes that read the cache meanwhile.              *)
(*                                                                         *)
(* A value is represented by its Python type, a row by the types of its    *)
(* fields.  A tag is a name whose values are all strings: its column is    *)
(* TEXT and never widens.  Names that sanitize to one identifier share a   *)
(* column, and only the sanitized spelling is found again in the catalog.  *)
(***************************************************************************)
EXTENDS Naturals

CONSTANTS
    Name,           \* tag keys and field keys as clients spell them
    Tags,           \* those of them that are tag keys
    Column,         \* columns of the hypertable
    ColOf,          \* _tag_col, _field_col: the column of a name
    Bare,           \* col[2:]: the name under which a load finds a column
    Batches,        \* the batches clients send, each a set of points
    Writers,        \* batches in flight: flush workers and sync requests
    Deleters,       \* delete requests in flight
    Faults,         \* may a statement fail?
    Restarts,       \* may the process restart?
    RacingDeletes   \* may a delete load the schema while batches are in flight?

ASSUME SchemaNames ==
    /\ ColOf \in [Name -> Column] /\ Bare \in [Column -> Name] /\ Tags \subseteq Name
    /\ \A c \in Column : ColOf[Bare[c]] = c
ASSUME SchemaActors == Writers \cap Deleters = {} /\ "none" \notin Writers \cup Deleters
ASSUME SchemaBatches ==
    \A batch \in Batches : \A p \in batch : \A n \in DOMAIN p :
        p[n] \in {"bool", "int", "float", "str"}
ASSUME SchemaSwitches == {Faults, Restarts, RacingDeletes} \subseteq BOOLEAN

VARIABLES
    table,      \* committed type of each column, "none" if there is none
    draft,      \* the columns inside the open ALTER transaction, <<>> if none
    objects,    \* TableSchema objects by who loaded them: type by name
    cache,      \* _schema_cache[measurement]: whose object, None if empty
    lock,       \* holder of the measurement's asyncio lock, None if free
    writer,     \* writer[w]: a _write_measurement in flight
    deleter,    \* deleter[d]: a delete_lp in flight
    poisoned    \* has a rollback left the cached object changed? (ghost)

vars == <<table, draft, objects, cache, lock, writer, deleter, poisoned>>

-----------------------------------------------------------------------------
(* Types                                                                   *)

Type == {"BOOLEAN", "BIGINT", "DOUBLE", "TEXT"}
MaybeType == Type \cup {"none"}

_infer_field_type == [bool |-> "BOOLEAN", int |-> "BIGINT", float |-> "DOUBLE", str |-> "TEXT"]

TYPE_RANK == [none |-> 0, BOOLEAN |-> 1, BIGINT |-> 2, DOUBLE |-> 3, TEXT |-> 4]

Wider(t, u) == TYPE_RANK[t] > TYPE_RANK[u]

(* Mutant of Widened: the newest sample decides.                           *)
WidenedToLast(current, observed) == observed

Widened(current, observed) == IF Wider(observed, current) THEN observed ELSE current

(* A point is a record of the Python types of its values; the sample kept  *)
(* of a name is the one whose type is widest in the batch.                 *)
SampleOf(batch, n) ==
    LET seen == {_infer_field_type[p[n]] : p \in {q \in batch : n \in DOMAIN q}}
    IN  IF seen = {} THEN "none" ELSE CHOOSE t \in seen : \A u \in seen : ~ Wider(u, t)

Samples(batch) == [n \in Name |-> SampleOf(batch, n)]

(* asyncpg's binary COPY: numbers convert upward, text wants a str.        *)
CanEncode(value, column) == value = column \/ (column # "TEXT" /\ ~ Wider(value, column))

(* Assignment casts of INSERT ... SELECT: numbers convert both ways,       *)
(* anything becomes text, a boolean becomes no number.                     *)
CanAssign(value, column) ==
    \/ value = column \/ column = "TEXT"
    \/ {value, column} = {"BIGINT", "DOUBLE"}

-----------------------------------------------------------------------------
(* Schema objects                                                          *)

(* What a batch wants, an object knows or a load reads: a type by name.    *)
TableSchema == [Name -> MaybeType]

Wanted(want) == {n \in Name : want[n] # "none"}
Missing(schema, want) == {n \in Wanted(want) : schema[n] = "none"}
Narrow(schema, want) == {n \in Wanted(want) : schema[n] # Widened(schema[n], want[n])}

(* Mutant of Fits: known columns are taken as wide enough.                 *)
FitsByName(schema, want) == Missing(schema, want) = {}

Fits(schema, want) == Missing(schema, want) = {} /\ Narrow(schema, want) = {}

(* Mutants of Introspected: tag columns are not found; types are not read. *)
IntrospectedFields ==
    [n \in Name |-> IF Bare[ColOf[n]] = n /\ n \notin Tags THEN table[ColOf[n]] ELSE "none"]
IntrospectedNames ==
    [n \in Name |-> IF Bare[ColOf[n]] = n /\ table[ColOf[n]] # "none" THEN "TEXT" ELSE "none"]

(* What a load reads from the catalog.                                     *)
Introspected ==
    [n \in Name |-> IF Bare[ColOf[n]] = n THEN table[ColOf[n]] ELSE "none"]

(* _coerce turns every value of a name into the type of its column, and    *)
(* _col_type_for gives that type to the staging table's column.            *)
Coerced(schema, want) == [n \in Name |-> IF want[n] = "none" THEN "none" ELSE schema[n]]

-----------------------------------------------------------------------------
None == "none"
NoTypes == [n \in Name |-> "none"]
Idle == [pc |-> "idle", want |-> NoTypes, obj |-> None, rows |-> NoTypes]
Ended == {"idle", "stored", "refused"}
WriterPc == Ended \cup {"locking", "loading", "altering", "encoded", "staged"}
WriterState == [pc : WriterPc, want : TableSchema, obj : Writers \cup Deleters \cup {None},
                rows : TableSchema]
NoDelete == [pc |-> "idle", tag |-> "none", knew |-> FALSE, read |-> NoTypes]
Answered == {"idle", "skipped"}
DeleterPc == Answered \cup {"loading", "read", "run"}
DeleterState == [pc : DeleterPc, tag : Tags \cup {"none"}, knew : BOOLEAN, read : TableSchema]

Init ==
    /\ table = [c \in Column |-> "none"] /\ draft = <<>>
    /\ objects = [a \in Writers \cup Deleters |-> NoTypes]
    /\ cache = None /\ lock = None
    /\ writer = [w \in Writers |-> Idle]
    /\ deleter = [d \in Deleters |-> NoDelete]
    /\ poisoned = FALSE

(* _ensure_schema returns object o and the rows are coerced at once.       *)
Encoded(w, schema, o) ==
    [writer[w] EXCEPT !.pc = "encoded", !.obj = o, !.rows = Coerced(schema, writer[w].want)]

(* A batch that the cached object fits takes it without the lock, also     *)
(* while another batch is changing it.                                     *)
Begin(w, batch) ==
    LET want == Samples(batch)
        fresh == [Idle EXCEPT !.pc = "locking", !.want = want]
    IN  /\ writer[w].pc \in Ended
        /\ RacingDeletes \/ \A d \in Deleters : deleter[d].pc \in Answered
        /\ writer' = [writer EXCEPT ![w] =
               IF cache # None /\ Fits(objects[cache], want)
               THEN [fresh EXCEPT !.pc = "encoded", !.obj = cache,
                                  !.rows = Coerced(objects[cache], want)]
               ELSE fresh]
        /\ UNCHANGED <<table, draft, objects, cache, lock, deleter, poisoned>>

(* Under the lock: object o of objs is complete, or it has to be altered.  *)
Resolve(w, objs, o) ==
    /\ objects' = objs
    /\ IF Fits(objs[o], writer[w].want)
       THEN /\ cache' = o /\ lock' = None
            /\ writer' = [writer EXCEPT ![w] = Encoded(w, objs[o], o)]
       ELSE /\ lock' = w /\ UNCHANGED cache
            /\ writer' = [writer EXCEPT ![w].pc = "altering", ![w].obj = o]
    /\ UNCHANGED <<table, draft, deleter, poisoned>>

(* The lock is granted; a cached schema is looked at again.                *)
Lock(w) ==
    /\ writer[w].pc = "locking"
    /\ lock = None
    /\ cache # None
    /\ Resolve(w, objects, cache)

LockAndLoad(w) ==
    /\ writer[w].pc = "locking"
    /\ lock = None
    /\ cache = None
    /\ lock' = w
    /\ writer' = [writer EXCEPT ![w].pc = "loading"]
    /\ UNCHANGED <<table, draft, objects, cache, deleter, poisoned>>

(* _create_or_load for a batch.                                            *)
Load(w) ==
    /\ writer[w].pc = "loading"
    /\ Resolve(w, [objects EXCEPT ![w] = Introspected], w)

-----------------------------------------------------------------------------
(* The ALTER TABLE transaction.  Its first statement locks the table, so   *)
(* that inserts and deletes wait until it ends; the schema object is       *)
(* changed after each statement.                                           *)

Columns == IF draft = <<>> THEN table ELSE draft

(* ADD COLUMN IF NOT EXISTS: a column that exists keeps its type.          *)
AddColumn(w, n) ==
    LET c == ColOf[n]
        t == writer[w].want[n]
    IN  /\ writer[w].pc = "altering"
        /\ n \in Missing(objects[writer[w].obj], writer[w].want)
        /\ draft' = [Columns EXCEPT ![c] = IF @ = "none" THEN t ELSE @]
        /\ objects' = [objects EXCEPT ![writer[w].obj][n] = t]
        /\ UNCHANGED <<table, cache, lock, writer, deleter, poisoned>>

(* ALTER COLUMN ... TYPE, after all columns have been added.               *)
WidenColumn(w, n) ==
    LET schema == objects[writer[w].obj]
        t == Widened(schema[n], writer[w].want[n])
    IN  /\ writer[w].pc = "altering"
        /\ Missing(schema, writer[w].want) = {}
        /\ n \in Narrow(schema, writer[w].want)
        /\ Columns[ColOf[n]] # "none"
        /\ draft' = [Columns EXCEPT ![ColOf[n]] = t]
        /\ objects' = [objects EXCEPT ![writer[w].obj][n] = t]
        /\ UNCHANGED <<table, cache, lock, writer, deleter, poisoned>>

(* Mutant of Committed: the statements are never committed.                *)
NotCommitted == table

Committed == draft

CommitAlter(w) ==
    LET o == writer[w].obj
    IN  /\ writer[w].pc = "altering"
        /\ Fits(objects[o], writer[w].want)
        /\ table' = Committed /\ draft' = <<>>
        /\ cache' = o /\ lock' = None
        /\ writer' = [writer EXCEPT ![w] = Encoded(w, objects[o], o)]
        /\ UNCHANGED <<objects, deleter, poisoned>>

(* ALTER COLUMN fails on a column that is not there, and may fail on text  *)
(* that is no number.                                                      *)
AlterRejected(w) ==
    /\ writer[w].pc = "altering"
    /\ Missing(objects[writer[w].obj], writer[w].want) = {}
    /\ \E n \in Narrow(objects[writer[w].obj], writer[w].want) :
        Columns[ColOf[n]] \in {"none", "TEXT"}

-----------------------------------------------------------------------------
(* The staging table and the upsert                                        *)

(* Two names of a batch that share a column name it twice.                 *)
OneNamePerColumn(want) ==
    \A m, n \in Wanted(want) : ColOf[m] = ColOf[n] => m = n

(* After the awaits of write-through: the column types are read from the   *)
(* object as it is now, and the rows coerced before are copied.            *)
Stage(w) ==
    LET want == writer[w].want
        now == Coerced(objects[writer[w].obj], want)
        accepted == /\ OneNamePerColumn(want)
                    /\ \A n \in Wanted(want) : CanEncode(writer[w].rows[n], now[n])
    IN  /\ writer[w].pc = "encoded"
        /\ writer' = [writer EXCEPT ![w] =
               IF accepted THEN [@ EXCEPT !.pc = "staged", !.rows = now]
               ELSE [@ EXCEPT !.pc = "refused"]]
        /\ UNCHANGED <<table, draft, objects, cache, lock, deleter, poisoned>>

Insert(w) ==
    LET accepted == \A n \in Wanted(writer[w].want) :
                        CanAssign(writer[w].rows[n], table[ColOf[n]])
    IN  /\ writer[w].pc = "staged"
        /\ draft = <<>>
        /\ writer' = [writer EXCEPT ![w] =
               IF accepted THEN [Idle EXCEPT !.pc = "stored", !.want = writer[w].want]
               ELSE [@ EXCEPT !.pc = "refused"]]
        /\ UNCHANGED <<table, draft, objects, cache, lock, deleter, poisoned>>

(* Mutant of Released: an exception leaves the lock held.                  *)
KeptLocked(w) == lock

Released(w) == IF lock = w THEN None ELSE lock

(* The object w has loaded outlives w if it is cached or another uses it.  *)
Referenced(w) == cache = w \/ \E v \in Writers \ {w} : writer[v].obj = w

(* A statement of the batch raises.  The transaction rolls back, the       *)
(* changes to the schema object stay.                                      *)
Fail(w) ==
    /\ Faults \/ AlterRejected(w)
    /\ writer[w].pc \in {"loading", "altering", "encoded", "staged"}
    /\ writer' = [writer EXCEPT ![w] = Idle]
    /\ draft' = IF writer[w].pc = "altering" THEN <<>> ELSE draft
    /\ poisoned' = (poisoned \/ (/\ writer[w].pc = "altering" /\ draft # <<>>
                                 /\ writer[w].obj = cache))
    /\ lock' = Released(w)
    /\ objects' = [objects EXCEPT ![w] = IF Referenced(w) THEN @ ELSE NoTypes]
    /\ UNCHANGED <<table, cache, deleter>>

-----------------------------------------------------------------------------
(* delete_lp                                                               *)

(* A filter on a tag the schema does not know answers 0 at once.           *)
Looked(d, schema) ==
    [deleter[d] EXCEPT !.pc = IF schema[deleter[d].tag] = "none" THEN "skipped" ELSE "run",
                       !.read = NoTypes]

BeginDelete(d, n) ==
    LET fresh == [NoDelete EXCEPT !.pc = "loading", !.tag = n,
                                  !.knew = (table[ColOf[n]] # "none")]
    IN  /\ deleter[d].pc \in Answered
        /\ RacingDeletes \/ \A w \in Writers : writer[w].pc \in Ended
        /\ deleter' = [deleter EXCEPT ![d] =
               IF cache = None THEN fresh
               ELSE [fresh EXCEPT !.pc = IF objects[cache][n] = "none" THEN "skipped" ELSE "run"]]
        /\ UNCHANGED <<table, draft, objects, cache, lock, writer, poisoned>>

(* _create_or_load for a delete, without the lock: its own ALTER TABLE     *)
(* waits for the table, then the catalog is read.                          *)
ReadCatalog(d) ==
    /\ deleter[d].pc = "loading"
    /\ draft = <<>>
    /\ deleter' = [deleter EXCEPT ![d].pc = "read", ![d].read = Introspected]
    /\ UNCHANGED <<table, draft, objects, cache, lock, writer, poisoned>>

(* The load returns and replaces whatever is cached by now.                *)
StoreLoaded(d) ==
    /\ deleter[d].pc = "read"
    /\ objects' = [objects EXCEPT ![d] = deleter[d].read]
    /\ cache' = d
    /\ deleter' = [deleter EXCEPT ![d] = Looked(d, deleter[d].read)]
    /\ UNCHANGED <<table, draft, lock, writer, poisoned>>

(* The DELETE statement; it raises if the tag's column is not there.       *)
RunDelete(d) ==
    /\ deleter[d].pc = "run"
    /\ draft = <<>>
    /\ deleter' = [deleter EXCEPT ![d] = NoDelete]
    /\ UNCHANGED <<table, draft, objects, cache, lock, writer, poisoned>>

DeleteFails(d) ==
    /\ Faults
    /\ deleter[d].pc \in {"loading", "read", "run"}
    /\ deleter' = [deleter EXCEPT ![d] = NoDelete]
    /\ UNCHANGED <<table, draft, objects, cache, lock, writer, poisoned>>

(* The process restarts: what was in flight is gone, an open transaction   *)
(* rolls back, the cache is empty.                                         *)
Restart ==
    /\ Restarts
    /\ draft' = <<>> /\ cache' = None /\ lock' = None
    /\ objects' = [a \in Writers \cup Deleters |-> NoTypes]
    /\ writer' = [w \in Writers |-> Idle]
    /\ deleter' = [d \in Deleters |-> NoDelete]
    /\ poisoned' = FALSE
    /\ UNCHANGED table

-----------------------------------------------------------------------------
Alter(w) ==
    \/ \E n \in Name : AddColumn(w, n) \/ WidenColumn(w, n)
    \/ CommitAlter(w)

BatchStep(w) == Lock(w) \/ LockAndLoad(w) \/ Load(w) \/ Alter(w) \/ Stage(w) \/ Insert(w)

DeleteStep(d) == ReadCatalog(d) \/ StoreLoaded(d) \/ RunDelete(d)

Next ==
    \/ \E w \in Writers, batch \in Batches : Begin(w, batch)
    \/ \E w \in Writers : BatchStep(w) \/ Fail(w)
    \/ \E d \in Deleters, n \in Tags : BeginDelete(d, n)
    \/ \E d \in Deleters : DeleteStep(d) \/ DeleteFails(d)
    \/ Restart

Spec == Init /\ [][Next]_vars

(* The event loop resumes every coroutine whose await has an answer, and   *)
(* asyncio locks are granted in the order they were asked for.             *)
FairSpec ==
    /\ Spec
    /\ \A w \in Writers : SF_vars(BatchStep(w) \/ Fail(w))
    /\ \A d \in Deleters : WF_vars(DeleteStep(d) \/ DeleteFails(d))

-----------------------------------------------------------------------------
(* Properties                                                              *)

TypeOK ==
    /\ table \in [Column -> MaybeType]
    /\ draft = <<>> \/ draft \in [Column -> MaybeType]
    /\ objects \in [Writers \cup Deleters -> TableSchema]
    /\ cache \in Writers \cup Deleters \cup {None}
    /\ writer \in [Writers -> WriterState]
    /\ deleter \in [Deleters -> DeleterState]
    /\ poisoned \in BOOLEAN
    /\ lock # None => lock \in Writers /\ writer[lock].pc \in {"loading", "altering"}
    /\ draft # <<>> => lock \in Writers /\ writer[lock].pc = "altering"

(* Unless a rollback has poisoned it, the cached schema tells the truth:   *)
(* each column it names is there with that type whenever no ALTER is open, *)
(* whatever batches, deletes, failures and restarts came before.           *)
CacheMatchesTable ==
    cache # None /\ draft = <<>> /\ ~ poisoned =>
        \A n \in Name : objects[cache][n] \in {"none", table[ColOf[n]]}

(* Promotions are monotonic: no statement of any batch narrows or drops a  *)
(* column, also not one of a batch that read a schema older than the table.*)
NeverDemoted == [][\A c \in Column : ~ Wider(table[c], table'[c])]_table

(* A batch the database accepted is in columns at least as wide as its     *)
(* widest values: no float has been rounded into a BIGINT column.          *)
StoredUnrounded ==
    \A w \in Writers : writer[w].pc = "stored" =>
        \A n \in Wanted(writer[w].want) : ~ Wider(writer[w].want[n], table[ColOf[n]])

(* The same while the cached schema tells the truth.                       *)
TrueCacheRoundsNothing == ~ poisoned => StoredUnrounded

(* A batch is refused for its types only if another batch widened one of   *)
(* its columns after its rows were coerced: to TEXT, or from BOOLEAN.      *)
RefusedOnlyIfOvertaken ==
    \A w \in Writers : writer[w].pc = "refused" /\ ~ poisoned =>
        \E n \in Wanted(writer[w].want) :
            \E now \in {objects[writer[w].obj][n], table[ColOf[n]]} :
                now # writer[w].rows[n] /\ (now = "TEXT" \/ writer[w].rows[n] = "BOOLEAN")

(* A delete answers 0 without running only if the table had no column for  *)
(* its tag when the request came in.                                       *)
SkippedOnlyIfUnknown ==
    \A d \in Deleters : deleter[d].pc = "skipped" => ~ deleter[d].knew

(* The lock, the load and the ALTER never leave a batch waiting for ever.  *)
EveryBatchEnds == \A w \in Writers : writer[w].pc \notin Ended ~> writer[w].pc \in Ended
====
