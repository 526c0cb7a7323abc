---- MODULE TieredStore ----
(***************************************************************************)
(* One measurement of the ingest service: batches written through staging  *)
(* Parquet objects into a TimescaleDB hypertable (Store._write_measurement)*)
(* while tiering passes compact the staging objects and evict old chunks   *)
(* (Tierer.run_once).  Every await that can interleave is a step of its    *)
(* own: each file operation, each manifest statement, each hypertable      *)
(* transaction.                                                            *)
(*                                                                         *)
(* A batch takes its sequence numbers without an await in between, so they *)
(* are a block no other batch mixes with; the model gives the whole batch  *)
(* one number.  Rows of one batch have distinct keys (the in-batch dedup). *)
(***************************************************************************)
EXTENDS Naturals, FiniteSets, Ranges

CONSTANTS
    Tags,           \* tag hashes
    MaxTime,        \* bound: row times are 0..MaxTime
    DayLen,         \* time units in a UTC day
    ChunkLen,       \* time units in a hypertable chunk (ingest_chunk_interval)
    Batches,        \* the key sets of the batches that may be written
    MaxSeq,         \* bound: number of batches ever written
    Writers,        \* concurrent _write_measurement calls
    Passes,         \* concurrent run_once calls: the loop, POST /tier/run
    WriteThrough,   \* settings.write_through
    Deletes,        \* do clients delete rows?
    LateRows,       \* may rows arrive for times a pass already aged out?
    Faults,         \* may a write fail between two of its steps?
    InterruptAt     \* the steps of a pass at which an error or a crash may end it

PassSteps == {"compact", "record", "delete", "forget", "intervals", "evict",
              "recordExport", "drop"}

ASSUME SizesAssumption ==
    /\ MaxTime \in Nat /\ MaxSeq \in Nat
    /\ DayLen \in Nat \ {0} /\ ChunkLen \in Nat \ {0}
ASSUME SwitchesAssumption ==
    /\ WriteThrough \in BOOLEAN /\ Deletes \in BOOLEAN
    /\ LateRows \in BOOLEAN /\ Faults \in BOOLEAN
    /\ InterruptAt \subseteq PassSteps

VARIABLES
    hot,        \* hot[k]: seq of the hypertable row with key k, 0 for no row
    chunks,     \* start times of the chunks the hypertable has
    files,      \* object store: object name -> set of rows
    manifest,   \* rows of _cold_objects, primary key object_key
    nextSeq,    \* the last batch number handed out
    writer,     \* writer[w]: a _write_measurement call in progress
    pass,       \* pass[p]: a run_once call in progress
    acked,      \* acked[k]: newest acknowledged and undeleted seq of k (ghost)
    horizon     \* highest eviction cutoff so far, kept when ~LateRows (ghost)

vars == <<hot, chunks, files, manifest, nextSeq, writer, pass, acked, horizon>>

-----------------------------------------------------------------------------
(* Rows, objects and manifest entries                                      *)

Key == [time : 0..MaxTime, tag : Tags]
Row == [key : Key, seq : 1..MaxSeq]
Object == [kind : {"staging", "cold"}, day : Nat, seq : 0..MaxSeq]
Meta == [obj : Object, lo : Nat, hi : Nat]

ASSUME BatchesAssumption == Batches \subseteq (SUBSET Key) \ {{}}

DayOf(t) == t \div DayLen
ChunkOf(t) == t - (t % ChunkLen)

StagingKey(s) == [kind |-> "staging", day |-> 0, seq |-> s]
ColdKey(d, s) == [kind |-> "cold", day |-> d, seq |-> s]

BatchRows(keys, s) == {[key |-> k, seq |-> s] : k \in keys}

(* Mutant of Dedup: ORDER BY seq keeps the oldest version.                 *)
DedupOldest(rows) == {r \in rows : \A q \in rows : q.key = r.key => r.seq <= q.seq}

(* ROW_NUMBER() OVER (PARTITION BY time, tag_hash ORDER BY seq DESC) = 1   *)
Dedup(rows) == {r \in rows : \A q \in rows : q.key = r.key => q.seq <= r.seq}

(* Mutant of HotRows: keys that have no row are exported too.              *)
AllHotRows(keys) == {[key |-> k, seq |-> hot[k]] : k \in keys}

HotRows(keys) == {[key |-> k, seq |-> hot[k]] : k \in {j \in keys : hot[j] # 0}}

KeysOfChunk(c) == {k \in Key : c <= k.time /\ k.time < c + ChunkLen}

RowsOf(objs) == UNION {files[o] : o \in objs \cap DOMAIN files}

WithFile(o, rows) == [x \in DOMAIN files \cup {o} |-> IF x = o THEN rows ELSE files[x]]
WithoutFile(o) == [x \in DOMAIN files \ {o} |-> files[x]]

(* INSERT ... ON CONFLICT (object_key) DO UPDATE                           *)
Recorded(m) == {n \in manifest : n.obj # m.obj} \cup {m}
(* Mutant of Forgotten: the manifest row stays.                            *)
NotForgotten(o) == manifest

Forgotten(o) == {n \in manifest : n.obj # o}

Listed == {m.obj : m \in manifest}
ObjectsOf(metas) == {m.obj : m \in metas}

IsEarliest(m, metas) ==
    /\ m \in metas
    /\ \A n \in metas : m.lo < n.lo \/ (m.lo = n.lo /\ m.obj.seq <= n.obj.seq)

IsLowest(n, S) == n \in S /\ \A x \in S : n <= x
IsHighest(n, S) == n \in S /\ \A x \in S : x <= n

IdleWriter == [pc |-> "idle", seq |-> 0, keys |-> {}]
IdlePass == [pc |-> "idle", todo |-> {}, objs |-> {}, out |-> StagingKey(0),
             left |-> {}, covered |-> {}]

TypeOK ==
    /\ hot \in [Key -> 0..MaxSeq]
    /\ chunks \subseteq Nat
    /\ DOMAIN files \subseteq Object
    /\ \A o \in DOMAIN files : files[o] \subseteq Row
    /\ manifest \subseteq Meta
    /\ nextSeq \in 0..MaxSeq
    /\ writer \in [Writers -> {IdleWriter} \cup
                [pc : {"put", "record", "upsert"}, seq : 1..MaxSeq, keys : Batches]]
    /\ pass \in [Passes -> [pc : PassSteps \cup {"idle"}, todo : SUBSET Meta,
                            objs : SUBSET Meta, out : Object,
                            left : SUBSET Nat, covered : SUBSET Nat]]
    /\ acked \in [Key -> 0..MaxSeq]
    /\ horizon \in Nat

Init ==
    /\ hot = [k \in Key |-> 0]
    /\ chunks = {}
    /\ files = [o \in {} |-> {}]
    /\ manifest = {}
    /\ nextSeq = 0
    /\ writer = [w \in Writers |-> IdleWriter]
    /\ pass = [p \in Passes |-> IdlePass]
    /\ acked = [k \in Key |-> 0]
    /\ horizon = 0

-----------------------------------------------------------------------------
(* Store.write_batch and delete_lp                                         *)

(* Mutants of FirstWrite: the cold write is skipped; the object is recorded *)
(* and never written.                                                      *)
HotOnlyWrite == "upsert"
RecordOnlyWrite == IF WriteThrough THEN "record" ELSE "upsert"

(* The step after the sequence numbers are taken: cold first, then hot.    *)
FirstWrite == IF WriteThrough THEN "put" ELSE "upsert"

BeginWrite(w, keys) ==
    /\ writer[w].pc = "idle"
    /\ nextSeq < MaxSeq
    /\ LateRows \/ \A k \in keys : k.time >= horizon
    /\ nextSeq' = nextSeq + 1
    /\ writer' = [writer EXCEPT ![w] =
                    [pc |-> FirstWrite, seq |-> nextSeq + 1, keys |-> keys]]
    /\ UNCHANGED <<hot, chunks, files, manifest, pass, acked, horizon>>

PutStaging(w) ==
    /\ writer[w].pc = "put"
    /\ files' = WithFile(StagingKey(writer[w].seq),
                         BatchRows(writer[w].keys, writer[w].seq))
    /\ writer' = [writer EXCEPT ![w].pc = "record"]
    /\ UNCHANGED <<hot, chunks, manifest, nextSeq, pass, acked, horizon>>

RecordStaging(w) ==
    /\ writer[w].pc = "record"
    /\ \E lo, hi \in {k.time : k \in writer[w].keys} :
        /\ \A k \in writer[w].keys : lo <= k.time /\ k.time <= hi
        /\ manifest' = Recorded([obj |-> StagingKey(writer[w].seq), lo |-> lo, hi |-> hi])
    /\ writer' = [writer EXCEPT ![w].pc = "upsert"]
    /\ UNCHANGED <<hot, chunks, files, nextSeq, pass, acked, horizon>>

(* ON CONFLICT (time, tag_hash) DO UPDATE: the row that commits last wins, *)
(* whatever its seq.                                                       *)
Upserted(keys, s) == [k \in Key |-> IF k \in keys THEN s ELSE hot[k]]

(* The transaction commits and the write is acknowledged.                  *)
UpsertHot(w) ==
    /\ writer[w].pc = "upsert"
    /\ hot' = Upserted(writer[w].keys, writer[w].seq)
    /\ chunks' = chunks \cup {ChunkOf(k.time) : k \in writer[w].keys}
    /\ acked' = [k \in Key |-> IF k \in writer[w].keys /\ acked[k] < writer[w].seq
                               THEN writer[w].seq ELSE acked[k]]
    /\ writer' = [writer EXCEPT ![w] = IdleWriter]
    /\ UNCHANGED <<files, manifest, nextSeq, pass, horizon>>

(* An exception, a cancelled flush or a crash at any await of the write: it *)
(* is never acknowledged and the batch is not retried.  A crash of the     *)
(* process is every writer and every pass failing; the counter restarts    *)
(* from the clock, above every number used, so nextSeq never falls.        *)
FailWrite(w) ==
    /\ Faults
    /\ writer[w].pc # "idle"
    /\ writer' = [writer EXCEPT ![w] = IdleWriter]
    /\ UNCHANGED <<hot, chunks, files, manifest, nextSeq, pass, acked, horizon>>

(* DELETE FROM the hypertable, by tag and by a time window.                *)
DeleteRows(tags, lo, hi) ==
    LET gone == {k \in Key : k.tag \in tags /\ lo <= k.time /\ k.time < hi}
    IN  /\ Deletes
        /\ hot' = [k \in Key |-> IF k \in gone THEN 0 ELSE hot[k]]
        /\ acked' = [k \in Key |-> IF k \in gone THEN 0 ELSE acked[k]]
        /\ UNCHANGED <<chunks, files, manifest, nextSeq, writer, pass, horizon>>

-----------------------------------------------------------------------------
(* Tierer.compact_once                                                     *)

ListStaging(p) ==
    /\ pass[p].pc = "idle"
    /\ pass' = [pass EXCEPT ![p] = [IdlePass EXCEPT
                    !.pc = "compact", !.todo = {m \in manifest : m.obj.kind = "staging"}]]
    /\ UNCHANGED <<hot, chunks, files, manifest, nextSeq, writer, acked, horizon>>

(* The day group that holds m, in plan_compaction.                         *)
GroupOf(m, metas) == {n \in metas : DayOf(n.lo) = DayOf(m.lo)}

(* Mutant of IsGroupSeq: one merged object per day.                        *)
IsDayObject(s, group) == s = 0

(* The seq in the name of the merged object.                               *)
IsGroupSeq(s, group) == IsLowest(s, {m.obj.seq : m \in group})

(* One COPY under the engine's lock: it reads every object of the group or *)
(* fails, and it replaces whatever is stored under the output key.         *)
Compact(p) ==
    /\ pass[p].pc = "compact"
    /\ \E first \in pass[p].todo, s \in 0..MaxSeq :
        LET group == GroupOf(first, pass[p].todo)
            out == ColdKey(DayOf(first.lo), s)
        IN  /\ IsEarliest(first, pass[p].todo)
            /\ IsGroupSeq(s, group)
            /\ ObjectsOf(group) \subseteq DOMAIN files
            /\ files' = WithFile(out, Dedup(RowsOf(ObjectsOf(group))))
            /\ pass' = [pass EXCEPT ![p].pc = "record", ![p].todo = @ \ group,
                                    ![p].objs = group, ![p].out = out]
    /\ UNCHANGED <<hot, chunks, manifest, nextSeq, writer, acked, horizon>>

(* read_parquet of an object that is gone raises; the whole pass ends.     *)
CompactFails(p) ==
    /\ pass[p].pc = "compact"
    /\ \E first \in pass[p].todo :
        /\ IsEarliest(first, pass[p].todo)
        /\ ~ ObjectsOf(GroupOf(first, pass[p].todo)) \subseteq DOMAIN files
    /\ pass' = [pass EXCEPT ![p] = IdlePass]
    /\ UNCHANGED <<hot, chunks, files, manifest, nextSeq, writer, acked, horizon>>

RecordCold(p) ==
    /\ pass[p].pc = "record"
    /\ \E lo \in {m.lo : m \in pass[p].objs}, hi \in {m.hi : m \in pass[p].objs} :
        /\ \A m \in pass[p].objs : lo <= m.lo /\ m.hi <= hi
        /\ manifest' = Recorded([obj |-> pass[p].out, lo |-> lo, hi |-> hi])
    /\ pass' = [pass EXCEPT ![p].pc = "delete"]
    /\ UNCHANGED <<hot, chunks, files, nextSeq, writer, acked, horizon>>

(* Deleting an object that is gone is not an error.                        *)
DeleteStaging(p) ==
    /\ pass[p].pc = "delete"
    /\ \E m \in pass[p].objs :
        /\ IsEarliest(m, pass[p].objs)
        /\ files' = WithoutFile(m.obj)
    /\ pass' = [pass EXCEPT ![p].pc = "forget"]
    /\ UNCHANGED <<hot, chunks, manifest, nextSeq, writer, acked, horizon>>

AfterForget(objs) == IF objs = {} THEN "compact" ELSE "delete"

ForgetStaging(p) ==
    /\ pass[p].pc = "forget"
    /\ \E m \in pass[p].objs :
        /\ IsEarliest(m, pass[p].objs)
        /\ manifest' = Forgotten(m.obj)
        /\ pass' = [pass EXCEPT ![p].pc = AfterForget(pass[p].objs \ {m}),
                                ![p].objs = @ \ {m}]
    /\ UNCHANGED <<hot, chunks, files, nextSeq, writer, acked, horizon>>

-----------------------------------------------------------------------------
(* Tierer.evict_once                                                       *)

(* Mutant of Eligible: the chunk's start is compared, not its end.         *)
EligibleByStart(cutoff) == {c \in chunks : c <= cutoff}

Eligible(cutoff) == {c \in chunks : c + ChunkLen <= cutoff}

NextEvict(rest) == IF rest = {} THEN "idle" ELSE "evict"

(* older_than is a parameter of the request, and time passes: any cutoff.  *)
ListChunks(p, cutoff) ==
    /\ pass[p].pc = "compact"
    /\ pass[p].todo = {}
    /\ LateRows \/ \A w \in Writers : \A k \in writer[w].keys : k.time >= cutoff
    /\ horizon' = IF LateRows \/ cutoff < horizon THEN horizon ELSE cutoff
    /\ pass' = [pass EXCEPT ![p] = [IdlePass EXCEPT
                    !.pc = IF Eligible(cutoff) = {} THEN "idle" ELSE "intervals",
                    !.left = Eligible(cutoff)]]
    /\ UNCHANGED <<hot, chunks, files, manifest, nextSeq, writer, acked>>

(* The ranges are read once, before the first chunk is dropped.  CoveredBy *)
(* is what is_covered decides: module Coverage checks the algorithm.       *)
ListIntervals(p) ==
    /\ pass[p].pc = "intervals"
    /\ pass' = [pass EXCEPT ![p].pc = "evict",
                            ![p].covered = {c \in pass[p].left :
                                                CoveredBy(c, c + ChunkLen, manifest)}]
    /\ UNCHANGED <<hot, chunks, files, manifest, nextSeq, writer, acked, horizon>>

Dropped(c) == [k \in Key |-> IF k \in KeysOfChunk(c) THEN 0 ELSE hot[k]]

DropChunk(p, c) ==
    /\ hot' = Dropped(c)
    /\ chunks' = chunks \ {c}
    /\ pass' = [pass EXCEPT ![p].pc = NextEvict(pass[p].left \ {c}), ![p].left = @ \ {c}]
    /\ UNCHANGED <<files, manifest, nextSeq, writer, acked, horizon>>

EvictCovered(p) ==
    /\ pass[p].pc = "evict"
    /\ \E c \in pass[p].covered : IsLowest(c, pass[p].left) /\ DropChunk(p, c)

(* COPY of the chunk's hot rows to the day's object number 0.              *)
ExportChunk(p) ==
    /\ pass[p].pc = "evict"
    /\ \E c \in pass[p].left \ pass[p].covered :
        /\ IsLowest(c, pass[p].left)
        /\ files' = WithFile(ColdKey(DayOf(c), 0), HotRows(KeysOfChunk(c)))
    /\ pass' = [pass EXCEPT ![p].pc = "recordExport"]
    /\ UNCHANGED <<hot, chunks, manifest, nextSeq, writer, acked, horizon>>

RecordExport(p) ==
    /\ pass[p].pc = "recordExport"
    /\ \E c \in pass[p].left :
        /\ IsLowest(c, pass[p].left)
        /\ manifest' = Recorded([obj |-> ColdKey(DayOf(c), 0), lo |-> c, hi |-> c + ChunkLen])
    /\ pass' = [pass EXCEPT ![p].pc = "drop"]
    /\ UNCHANGED <<hot, chunks, files, nextSeq, writer, acked, horizon>>

DropExported(p) ==
    /\ pass[p].pc = "drop"
    /\ \E c \in pass[p].left : IsLowest(c, pass[p].left) /\ DropChunk(p, c)

(* An exception or a crash: what the pass knew is gone, the next starts    *)
(* from the manifest.                                                      *)
InterruptPass(p) ==
    /\ pass[p].pc \in InterruptAt
    /\ pass' = [pass EXCEPT ![p] = IdlePass]
    /\ UNCHANGED <<hot, chunks, files, manifest, nextSeq, writer, acked, horizon>>

-----------------------------------------------------------------------------
(* The specification                                                       *)

WriterNext(w) ==
    \/ \E keys \in Batches : BeginWrite(w, keys)
    \/ PutStaging(w)
    \/ RecordStaging(w)
    \/ UpsertHot(w)
    \/ FailWrite(w)

(* The steps of a pass that meets no error.                                *)
PassStep(p) ==
    \/ ListStaging(p)
    \/ Compact(p)
    \/ RecordCold(p)
    \/ DeleteStaging(p)
    \/ ForgetStaging(p)
    \/ \E cutoff \in 0..(MaxTime + ChunkLen) : ListChunks(p, cutoff)
    \/ ListIntervals(p)
    \/ EvictCovered(p)
    \/ ExportChunk(p)
    \/ RecordExport(p)
    \/ DropExported(p)

Next ==
    \/ \E w \in Writers : WriterNext(w)
    \/ \E tags \in (SUBSET Tags) \ {{}}, lo \in 0..MaxTime : \E hi \in (lo + 1)..(MaxTime + 1) :
            DeleteRows(tags, lo, hi)
    \/ \E p \in Passes : PassStep(p) \/ CompactFails(p) \/ InterruptPass(p)

Spec == Init /\ [][Next]_vars

(* The background loop runs one pass after another for as long as the      *)
(* service is up, and the await of each step returns.  Clients write and   *)
(* delete when they please.                                                *)
FairSpec == Spec /\ \A p \in Passes : WF_vars(PassStep(p) \/ CompactFails(p))

-----------------------------------------------------------------------------
(* What a reader sees.  A federated query unions the hypertable with every *)
(* listed object and keeps the newest seq of each key.                     *)

ColdSeqs(k) == {r.seq : r \in {q \in RowsOf(Listed) : q.key = k}}

Newest(k) == CHOOSE n \in {0} \cup ColdSeqs(k) : IsHighest(n, {0} \cup ColdSeqs(k))

Federated(k) == IF hot[k] > Newest(k) THEN hot[k] ELSE Newest(k)

(* A listed object holds key k at seq s or newer.                          *)
InCold(k, s) == \E n \in ColdSeqs(k) : s <= n

-----------------------------------------------------------------------------
(* Safety                                                                  *)

(* "TimescaleDB ... can be evicted at any time with zero data-loss risk":  *)
(* every row of the hypertable is in a listed object, in that version or a *)
(* newer one.  Each of staging, compaction, overwriting, deleting and      *)
(* forgetting can break it.                                                *)
HotCoveredByCold == \A k \in Key : hot[k] # 0 => InCold(k, hot[k])

(* Cold is the source of truth: whatever was acknowledged and not deleted  *)
(* is in a listed object, whatever happened to the hypertable, to the      *)
(* staging object and to the compacted objects it went through since.      *)
AckedDurable == \A k \in Key : acked[k] # 0 => InCold(k, acked[k])

(* Every manifest row names an object that exists, except the one a pass   *)
(* has deleted and is about to forget: a query or a compaction that reads  *)
(* any other listed object never meets a missing file.                     *)
ManifestSound ==
    \A o \in Listed \ DOMAIN files :
        \E p \in Passes : pass[p].pc = "forget" /\ \E m \in pass[p].objs :
                            m.obj = o /\ IsEarliest(m, pass[p].objs)

(* Without write-through a row lives in the hypertable until a pass has    *)
(* exported its chunk: an acknowledged row is in one of the two.           *)
AckedReadable == \A k \in Key : acked[k] # 0 => acked[k] <= Federated(k)

(* "The hot table keeps the latest seq per (time, tag_hash)": a row of the *)
(* hypertable is never older than the newest acknowledged write of its     *)
(* key.  Two batches at a time break it.                                   *)
HotKeepsLatestSeq == \A k \in Key : hot[k] # 0 => acked[k] <= hot[k]

(* A row a client deletes is gone: no tier serves it any more.  (The       *)
(* chunk's disappearance tells an eviction from a delete.)                 *)
DeleteErases ==
    [][\A k \in Key : hot[k] # 0 /\ hot'[k] = 0 /\ chunks' = chunks
            => Federated(k)' = 0]_vars

(* The store as one map that only ever gains newer versions.               *)
Versions == INSTANCE VersionStore WITH newest <- [k \in Key |-> Newest(k)]
VersionsOnlyRise == Versions!Spec

-----------------------------------------------------------------------------
(* Liveness                                                                *)

(* Staging never piles up: a listed staging object is compacted away by    *)
(* some later pass, however many batches arrive meanwhile.                 *)
StagingEventuallyCompacted ==
    \A s \in 1..MaxSeq : StagingKey(s) \in Listed ~> StagingKey(s) \notin Listed
====
