---- MODULE RowColumns ----
(***************************************************************************)
(* Which fields of a row survive.  A point sets some of the fields of its  *)
(* row; _write_measurement turns a batch into whole records over the union *)
(* of the batch's fields, the hypertable updates the columns of that union *)
(* and cold keeps every record as a version of the row.  Readers take the  *)
(* version with the highest seq, whole.                                    *)
(*                                                                         *)
(* Batches are written one after another here; module TieredStore has the  *)
(* interleavings.  The value of a field is the number of the point that    *)
(* set it.                                                                 *)
(***************************************************************************)
EXTENDS Naturals, Sequences, FiniteSets

CONSTANTS
    Keys,           \* rows: (time, tag_hash)
    Fields,         \* fields of the measurement
    MaxBatch,       \* bound: points of a batch
    MaxPoints       \* bound: points ever written

ASSUME RowBounds == MaxBatch \in Nat \ {0} /\ MaxPoints \in Nat

Null == 0

VARIABLES
    hot,        \* hot[k]: the hypertable row of k; seq 0 for no row
    staged,     \* versions in staging objects
    merged,     \* versions in compacted objects
    count,      \* points written so far; a point's number is its seq
    latest,     \* latest[k][f]: last point that set field f of row k (ghost)
    whole       \* has every point so far carried every field? (ghost)

vars == <<hot, staged, merged, count, latest, whole>>

Values == [Fields -> 0..MaxPoints]
NoValues == [f \in Fields |-> Null]
Version == [key : Keys, seq : 1..MaxPoints, val : Values]

TypeOK ==
    /\ hot \in [Keys -> [seq : 0..MaxPoints, val : Values]]
    /\ staged \subseteq Version /\ merged \subseteq Version
    /\ count \in 0..MaxPoints
    /\ latest \in [Keys -> Values]
    /\ whole \in BOOLEAN

Init ==
    /\ hot = [k \in Keys |-> [seq |-> 0, val |-> NoValues]]
    /\ staged = {} /\ merged = {}
    /\ count = 0
    /\ latest = [k \in Keys |-> NoValues]
    /\ whole = TRUE

-----------------------------------------------------------------------------
(* Store._write_measurement                                                *)

Point == [key : Keys, fields : (SUBSET Fields) \ {{}}]

Places(batch) == 1..Len(batch)

(* Columns of the statement: the union over the batch.                     *)
Columns(batch) == UNION {batch[j].fields : j \in Places(batch)}

(* deduped[key] = row: the last point of a row is kept, whole.             *)
Survives(batch, j) == \A i \in Places(batch) : batch[i].key = batch[j].key => i <= j

(* Mutant of Record: the counter is read after it was advanced.            *)
RecordLate(batch, j) ==
    [key |-> batch[j].key, seq |-> count + j + 1,
     val |-> [f \in Fields |-> IF f \in batch[j].fields THEN count + j ELSE Null]]

(* p.fields.get(f): a column the point does not carry is NULL.             *)
Record(batch, j) ==
    [key |-> batch[j].key, seq |-> count + j,
     val |-> [f \in Fields |-> IF f \in batch[j].fields THEN count + j ELSE Null]]

Records(batch) == {Record(batch, j) : j \in {i \in Places(batch) : Survives(batch, i)}}

(* Mutant of SetColumns: the row keeps what it has (COALESCE the old value *)
(* first).                                                                 *)
SetColumnsOnce(old, r, cols) ==
    [f \in Fields |-> IF f \in cols /\ old[f] = Null THEN r.val[f] ELSE old[f]]

(* SET column = EXCLUDED.column, for the columns of the statement.         *)
SetColumns(old, r, cols) == [f \in Fields |-> IF f \in cols THEN r.val[f] ELSE old[f]]

Upserted(k, rows, cols) ==
    IF \E r \in rows : r.key = k
    THEN LET r == CHOOSE x \in rows : x.key = k
         IN  [seq |-> r.seq, val |-> SetColumns(hot[k].val, r, cols)]
    ELSE hot[k]

(* What the points ask for: each sets its own fields, in the order sent.   *)
SetBy(batch, k, f) == {j \in Places(batch) : batch[j].key = k /\ f \in batch[j].fields}

Asked(batch) ==
    [k \in Keys |-> [f \in Fields |->
        IF SetBy(batch, k, f) = {} THEN latest[k][f]
        ELSE count + CHOOSE j \in SetBy(batch, k, f) : \A i \in SetBy(batch, k, f) : i <= j]]

Write(batch) ==
    /\ count + Len(batch) <= MaxPoints
    /\ staged' = staged \cup Records(batch)
    /\ hot' = [k \in Keys |-> Upserted(k, Records(batch), Columns(batch))]
    /\ count' = count + Len(batch)
    /\ latest' = Asked(batch)
    /\ whole' = (whole /\ \A j \in Places(batch) : batch[j].fields = Fields)
    /\ UNCHANGED merged

-----------------------------------------------------------------------------
(* Compaction and eviction                                                 *)

(* Mutant of NewestOf: ORDER BY seq without DESC.                          *)
OldestOf(versions) == {v \in versions : \A u \in versions : u.key = v.key => v.seq <= u.seq}

(* ROW_NUMBER() OVER (PARTITION BY time, tag_hash ORDER BY seq DESC) = 1:  *)
(* of several versions with one seq any may be the first.                  *)
NewestOf(versions) == {v \in versions : \A u \in versions : u.key = v.key => u.seq <= v.seq}

(* The rows are of one day: a pass merges all of their staging objects.     *)
Compact ==
    /\ staged # {}
    /\ merged' = merged \cup NewestOf(staged)
    /\ staged' = {}
    /\ UNCHANGED <<hot, count, latest, whole>>

(* The chunk is covered by cold: its rows are dropped.                     *)
Evict ==
    /\ \E k \in Keys : hot[k].seq # 0
    /\ hot' = [k \in Keys |-> [seq |-> 0, val |-> NoValues]]
    /\ UNCHANGED <<staged, merged, count, latest, whole>>

Batches == UNION {[1..n -> Point] : n \in 1..MaxBatch}

Next == (\E batch \in Batches : Write(batch)) \/ Compact \/ Evict

Spec == Init /\ [][Next]_vars

-----------------------------------------------------------------------------
(* What readers see                                                        *)

HotVersions ==
    {[key |-> k, seq |-> hot[k].seq, val |-> hot[k].val] : k \in {j \in Keys : hot[j].seq # 0}}

(* The rows a federated query may answer with.                             *)
Federated == NewestOf(HotVersions \cup staged \cup merged)

(* No reader of either tier ever gets a field's old value back: whatever   *)
(* mix of partial points, batches, merges and evictions, a field is the    *)
(* last value set or it is NULL.                                           *)
NeverStale ==
    \A v \in HotVersions \cup Federated : \A f \in Fields :
        v.val[f] \in {Null, latest[v.key][f]}

(* "Evicted at any time with zero data-loss risk", per field: a federated  *)
(* read has, for every row of the hypertable, the values the hypertable    *)
(* has, so that dropping the chunk changes no answer.                      *)
ColdHasHotFields ==
    \A k \in Keys : hot[k].seq # 0 =>
        \A v \in NewestOf(staged \cup merged) : v.key = k => v.val = hot[k].val

(* The upsert "expresses updates ... matching InfluxDB semantics": a point *)
(* sets its fields and leaves the other fields of the row alone.           *)
UpdatesMerge == \A v \in HotVersions : v.val = latest[v.key]

(* As long as every point carries every field, the upsert, the versions in *)
(* cold and the deduplicated read agree with the updates asked for, before *)
(* and after compaction and eviction.                                      *)
WholePointsAgree ==
    whole =>
        /\ UpdatesMerge
        /\ ColdHasHotFields
        /\ \A k \in Keys : latest[k] # NoValues =>
                \E v \in Federated : v.key = k /\ v.val = latest[k]

-----------------------------------------------------------------------------
(* The inductive invariant behind both: numbers already given are behind   *)
(* the counter, so a batch's records are newer than all there is; and what *)
(* the hypertable and the newest cold version of a row hold is current.    *)

Cold == staged \cup merged

Current(val, k) == \A f \in Fields : val[f] \in {Null, latest[k][f]}

SeqsBehind == \A v \in Cold : v.seq <= count

HotCurrent == \A k \in Keys : Current(hot[k].val, k)

ColdCurrent == \A v \in NewestOf(Cold) : Current(v.val, v.key)

WholeRows ==
    whole =>
        /\ \A k \in Keys : hot[k].seq # 0 => hot[k].val = latest[k]
        /\ \A v \in NewestOf(Cold) : v.val = latest[v.key]
        /\ \A k \in Keys : latest[k] # NoValues => \E v \in Cold : v.key = k

RowInv ==
    /\ TypeOK
    /\ SeqsBehind
    /\ HotCurrent
    /\ ColdCurrent
    /\ WholeRows
====
