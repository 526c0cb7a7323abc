---- MODULE TieredStoreInv ----
(***************************************************************************)
(* The inductive invariant behind the durability of write-through: which   *)
(* objects hold the rows that must not be lost while staging objects are   *)
(* merged, deleted and forgotten.  TieredStoreProofs proves it, the run    *)
(* WriteThrough checks it.                                                 *)
(***************************************************************************)
EXTENDS TieredStore

(* The conditions under which the code keeps its promise: write-through    *)
(* on, no two passes at a time, and no pass ended between the first delete *)
(* and the last forget of a merged group.                                  *)
SafeRegime ==
    /\ WriteThrough
    /\ \A p, q \in Passes : p = q
    /\ InterruptAt \cap {"delete", "forget"} = {}

Merging == {p \in Passes : pass[p].pc \in {"delete", "forget"}}

(* Listed objects whose rows no later pass overwrites before they are      *)
(* merged elsewhere: staging objects; merged objects whose own staging     *)
(* object is gone, so that no pass computes their name again; the object a *)
(* pass is deleting the inputs of.                                         *)
Solid == {o \in Listed \cap DOMAIN files :
            \/ o.kind = "staging"
            \/ o.kind = "cold" /\ o.seq # 0 /\ StagingKey(o.seq) \notin Listed
            \/ \E p \in Merging : o = pass[p].out}

Held(k, s) == \E o \in Solid : \E r \in files[o] : r.key = k /\ s <= r.seq

HotHeld == \A k \in Key : hot[k] # 0 => Held(k, hot[k])
AckedHeld == \A k \in Key : acked[k] # 0 => Held(k, acked[k])
WrittenHeld ==
    \A w \in Writers : writer[w].pc = "upsert" =>
        \A k \in writer[w].keys : Held(k, writer[w].seq)

(* object_key is the primary key, and a staging row names its own batch.   *)
ManifestKeyed ==
    /\ \A m, n \in manifest : m.obj = n.obj => m = n
    /\ \A m \in manifest : m.obj.kind = "staging" =>
            m.obj = StagingKey(m.obj.seq) /\ m.obj.seq # 0

(* No object carries a number that is not handed out yet, and no two       *)
(* writers share one.                                                      *)
SeqsUsed ==
    /\ \A o \in Listed \cup DOMAIN files : o.seq <= nextSeq
    /\ \A w \in Writers : writer[w].pc # "idle" =>
            writer[w].seq \in 1..nextSeq
    /\ \A v, w \in Writers :
            v # w /\ writer[v].pc # "idle" /\ writer[w].pc # "idle"
                => writer[v].seq # writer[w].seq

(* Until a batch is recorded, nothing is named after it but its own file.  *)
Unrecorded ==
    \A w \in Writers :
        /\ writer[w].pc \in {"put", "record"} =>
            /\ StagingKey(writer[w].seq) \notin Listed
            /\ \A o \in Listed \cup DOMAIN files :
                    o.kind = "cold" => o.seq # writer[w].seq
        /\ writer[w].pc = "record" =>
            /\ StagingKey(writer[w].seq) \in DOMAIN files
            /\ files[StagingKey(writer[w].seq)]
                    = BatchRows(writer[w].keys, writer[w].seq)

ListedStaging == {m \in manifest : m.obj.kind = "staging"}

(* Every row of o is in out, in that version or a newer one.               *)
Merged(o, out) ==
    o \in DOMAIN files =>
        \A r \in files[o] : \E q \in files[out] : q.key = r.key /\ r.seq <= q.seq

PassSound ==
    \A p \in Passes :
        /\ pass[p].pc \in {"compact", "record", "delete", "forget"} =>
            /\ pass[p].todo \subseteq ListedStaging
            /\ pass[p].objs \subseteq ListedStaging
            /\ pass[p].todo \cap pass[p].objs = {}
        /\ pass[p].pc \in {"record", "delete", "forget"} =>
            /\ pass[p].out.kind = "cold" /\ pass[p].out.seq # 0
            /\ pass[p].out \in DOMAIN files
            /\ \A m \in pass[p].objs : Merged(m.obj, pass[p].out)
            /\ StagingKey(pass[p].out.seq) \in Listed
                    => StagingKey(pass[p].out.seq) \in ObjectsOf(pass[p].objs)
        /\ pass[p].pc \in {"delete", "forget"} => pass[p].out \in Listed
        /\ pass[p].pc = "recordExport" =>
            \A c \in pass[p].left : IsLowest(c, pass[p].left)
                => ColdKey(DayOf(c), 0) \in DOMAIN files

IInv ==
    /\ TypeOK
    /\ ManifestKeyed
    /\ SeqsUsed
    /\ Unrecorded
    /\ PassSound
    /\ HotHeld
    /\ AckedHeld
    /\ WrittenHeld

(* What the store must hold for its readers never to see more than what is *)
(* durable: every row of a listed object is held by a solid one, although  *)
(* the object that lists it may be overwritten; and so is every row of the *)
(* object a pass has written and is about to list.                         *)
RowsHeld(o) == \A r \in files[o] : Held(r.key, r.seq)

ListedHeld == \A o \in Listed \cap DOMAIN files : RowsHeld(o)

PassHeld ==
    \A p \in Passes :
        /\ pass[p].pc = "record" => RowsHeld(pass[p].out)
        /\ pass[p].pc = "recordExport" =>
            \A c \in pass[p].left : IsLowest(c, pass[p].left)
                => RowsHeld(ColdKey(DayOf(c), 0))

StoreInv ==
    /\ IInv
    /\ ListedHeld
    /\ PassHeld

-----------------------------------------------------------------------------
(* The inductive invariant behind ManifestSound, in every mode and with    *)
(* any number of passes over each other, as long as no pass ends between   *)
(* deleting an object and forgetting it.                                   *)

NoneForgetsHalfway == "forget" \notin InterruptAt

InHand(p) == pass[p].todo \cup pass[p].objs

(* Manifest rows of staging objects: the number in the object's name is    *)
(* all that tells two of them apart, and it has been handed out.           *)
StagingMeta(m) == m.obj = StagingKey(m.obj.seq) /\ m.obj.seq <= nextSeq

StagingNamed ==
    /\ \A m \in ListedStaging : StagingMeta(m)
    /\ \A p \in Passes : \A m \in InHand(p) :
            m.obj.kind = "staging" /\ StagingMeta(m)

(* A batch that is not recorded yet has a number of its own, and no pass   *)
(* knows its object.                                                       *)
Unknown(o) == o \notin Listed /\ \A p \in Passes : o \notin ObjectsOf(InHand(p))

WritersFresh ==
    /\ \A w \in Writers : writer[w].pc # "idle" => writer[w].seq <= nextSeq
    /\ \A v, w \in Writers :
            v # w /\ writer[v].pc # "idle" /\ writer[w].pc # "idle"
                => writer[v].seq # writer[w].seq
    /\ \A w \in Writers :
            /\ writer[w].pc \in {"put", "record"} => Unknown(StagingKey(writer[w].seq))
            /\ writer[w].pc = "record" => StagingKey(writer[w].seq) \in DOMAIN files

(* What a pass is about to list exists, and is never a staging object.     *)
PendingStored ==
    \A p \in Passes :
        /\ pass[p].pc = "record" => pass[p].out.kind = "cold" /\ pass[p].out \in DOMAIN files
        /\ pass[p].pc = "recordExport" =>
            \A c \in pass[p].left : IsLowest(c, pass[p].left)
                => ColdKey(DayOf(c), 0) \in DOMAIN files

ManifestInv ==
    /\ TypeOK
    /\ StagingNamed
    /\ WritersFresh
    /\ PendingStored
    /\ ManifestSound

-----------------------------------------------------------------------------
(* The inductive invariant behind AckedReadable without write-through,     *)
(* where a row lives in the hypertable until its chunk is exported.        *)

(* One batch and one pass at a time, no rows for times that have been aged *)
(* out, and no two chunks that begin on one day.                           *)
OneBatchAtATime == \A v, w \in Writers : v = w

HotOnlyRegime ==
    /\ ~ WriteThrough /\ ~ LateRows
    /\ OneBatchAtATime
    /\ \A p, q \in Passes : p = q
    /\ DayLen <= ChunkLen

(* One batch at a time: it has the highest number there is.                *)
LatestInv ==
    /\ TypeOK
    /\ \A w \in Writers : writer[w].pc # "idle" => writer[w].seq = nextSeq
    /\ \A k \in Key : acked[k] <= nextSeq
    /\ HotKeepsLatestSeq

Aligned(c) == c % ChunkLen = 0
ExportOf(c) == ColdKey(DayOf(c), 0)
ExportMeta(c) == [obj |-> ExportOf(c), lo |-> c, hi |-> c + ChunkLen]

(* A chunk no batch writes to any more.                                    *)
Closed(c) == c + ChunkLen <= horizon

OnlyExports ==
    /\ \A m \in manifest : /\ m = ExportMeta(m.lo) /\ m.obj \in DOMAIN files
                            /\ Aligned(m.lo) /\ Closed(m.lo)
    /\ \A c \in chunks : Aligned(c)

BatchesOnTime ==
    \A w \in Writers :
        /\ writer[w].pc \in {"idle", "upsert"}
        /\ \A k \in writer[w].keys : k.time >= horizon

(* The hot rows of a chunk are in its export.                              *)
Exported(c) ==
    \A k \in KeysOfChunk(c) : hot[k] # 0 =>
        \E r \in files[ExportOf(c)] : r.key = k /\ hot[k] <= r.seq

PassEvicts(p) ==
    /\ pass[p].pc \in {"idle", "compact", "intervals", "evict", "recordExport", "drop"}
    /\ pass[p].pc = "compact" => pass[p].todo = {}
    /\ pass[p].pc \notin {"idle", "compact"} =>
        \A c \in pass[p].left : c \in chunks /\ Closed(c)
    /\ pass[p].pc \in {"evict", "recordExport", "drop"} =>
        \A c \in pass[p].covered : ExportMeta(c) \in manifest
    /\ pass[p].pc = "recordExport" =>
        \A c \in pass[p].left : IsLowest(c, pass[p].left)
            => ExportOf(c) \in DOMAIN files /\ Exported(c)
    /\ pass[p].pc = "drop" =>
        \A c \in pass[p].left : IsLowest(c, pass[p].left) => ExportMeta(c) \in manifest

PassesEvict == \A p \in Passes : PassEvicts(p)

ExportsComplete == \A m \in manifest : m.lo \in chunks => Exported(m.lo)

(* A row whose chunk is gone is in the chunk's export.                     *)
Evicted(k) ==
    /\ ChunkOf(k.time) \notin chunks
    /\ ExportMeta(ChunkOf(k.time)) \in manifest
    /\ \E r \in files[ExportOf(ChunkOf(k.time))] : r.key = k /\ acked[k] <= r.seq

AckedSomewhere == \A k \in Key : acked[k] # 0 => acked[k] <= hot[k] \/ Evicted(k)

HotInv ==
    /\ LatestInv
    /\ OnlyExports
    /\ BatchesOnTime
    /\ PassesEvict
    /\ ExportsComplete
    /\ AckedSomewhere
====
