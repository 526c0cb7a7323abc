---- MODULE TieredStoreHotOnly ----
(***************************************************************************)
(* Without write-through, a row is in the hypertable until the export of   *)
(* its chunk is listed: with one batch and one pass at a time, no late     *)
(* rows, and chunks of at least a day, no acknowledged row is unreadable   *)
(* although a pass may end anywhere.  The argument: a chunk is closed to   *)
(* batches before it is exported, so its rows only disappear, and by a     *)
(* delete; its export is under a name no other chunk has; and once it is   *)
(* dropped it never comes back, so nothing overwrites the export.          *)
(***************************************************************************)
EXTENDS TieredStoreProofs

-----------------------------------------------------------------------------
(* Chunks and days                                                         *)

(* Two multiples of a number that are less than it apart are the same.     *)
LEMMA MultiplesApart ==
    ASSUME NEW n \in Nat \ {0}, NEW a \in Nat, NEW b \in Nat,
           a % n = 0, b % n = 0, a <= b, b < a + n
    PROVE  a = b
<1>. DEFINE p == a \div n
            q == b \div n
<1>1. p \in Nat /\ q \in Nat /\ a = n * p /\ b = n * q OBVIOUS
<1>. HIDE DEF p, q
<1>2. CASE p = q BY <1>1, <1>2
<1>3. CASE p + 1 <= q
  <2>1. PICK d \in Nat : q = p + 1 + d
    <3>1. q - (p + 1) \in Nat /\ q = p + 1 + (q - (p + 1)) BY <1>1, <1>3
    <3>. QED BY <3>1
  <2>2. n * q = n * p + n + n * d BY <1>1, <2>1
  <2>3. n * d >= 0 /\ n * d \in Nat BY <2>1
  <2>. QED BY <1>1, <2>2, <2>3
<1>4. CASE q + 1 <= p
  <2>1. PICK d \in Nat : p = q + 1 + d
    <3>1. p - (q + 1) \in Nat /\ p = q + 1 + (p - (q + 1)) BY <1>1, <1>4
    <3>. QED BY <3>1
  <2>2. n * p = n * q + n + n * d BY <1>1, <2>1
  <2>3. n * d >= 0 /\ n * d \in Nat BY <2>1
  <2>. QED BY <1>1, <2>2, <2>3
<1>. QED BY <1>1, <1>2, <1>3, <1>4

LEMMA ChunkStart ==
    ASSUME NEW t \in Nat
    PROVE  /\ ChunkOf(t) \in Nat /\ Aligned(ChunkOf(t))
           /\ ChunkOf(t) <= t /\ t < ChunkOf(t) + ChunkLen
<1>. DEFINE n == ChunkLen
            q == t \div n
            r == t % n
<1>1. n \in Nat \ {0} BY SizesAssumption
<1>. HIDE DEF n
<1>2. q \in Nat /\ r \in Nat /\ r < n /\ t = n * q + r BY <1>1
<1>3. ChunkOf(t) = t - r BY DEF ChunkOf, n
<1>. HIDE DEF q, r
<1>4. ChunkOf(t) = n * q BY <1>1, <1>2, <1>3
<1>5. n * q \in Nat /\ (n * q) % n = 0 BY <1>1, <1>2
<1>. QED BY <1>1, <1>2, <1>4, <1>5 DEF Aligned, n

(* The chunk of a time is the only one that holds it.                      *)
LEMMA ChunkUnique ==
    ASSUME NEW c \in Nat, NEW t \in Nat, Aligned(c), c <= t, t < c + ChunkLen
    PROVE  ChunkOf(t) = c
<1>. DEFINE d == ChunkOf(t)
<1>1. d \in Nat /\ Aligned(d) /\ d <= t /\ t < d + ChunkLen BY ChunkStart
<1>2. ChunkLen \in Nat \ {0} BY SizesAssumption
<1>. HIDE DEF d
<1>3. CASE c <= d
  <2>1. d < c + ChunkLen BY <1>1, <1>2
  <2>. QED BY <1>1, <1>2, <1>3, <2>1, MultiplesApart DEF Aligned, d
<1>4. CASE d <= c
  <2>1. c < d + ChunkLen BY <1>1, <1>2
  <2>. QED BY <1>1, <1>2, <1>4, <2>1, MultiplesApart DEF Aligned, d
<1>. QED BY <1>1, <1>3, <1>4

(* Chunks of at least a day do not begin on the same day.                  *)
LEMMA DaysDiffer ==
    ASSUME DayLen <= ChunkLen, NEW c \in Nat, NEW d \in Nat, Aligned(c), Aligned(d),
           ExportOf(c) = ExportOf(d)
    PROVE  c = d
<1>. DEFINE n == DayLen
            day == c \div n
            s == c % n
            t == d % n
<1>1. n \in Nat \ {0} /\ ChunkLen \in Nat \ {0} BY SizesAssumption
<1>2. DayOf(c) = DayOf(d) BY DEF ExportOf, ColdKey
<1>3. d \div n = day BY <1>2 DEF DayOf
<1>. HIDE DEF n
<1>4. /\ day \in Nat /\ s \in Nat /\ t \in Nat /\ s < n /\ t < n
      /\ c = n * day + s /\ d = n * (d \div n) + t
  BY <1>1
<1>. HIDE DEF s, t
<1>5. d = n * day + t BY <1>3, <1>4
<1>. HIDE DEF day
<1>6. n * day \in Nat BY <1>1, <1>4
<1>7. n <= ChunkLen BY DEF n
<1>8. c < d + ChunkLen /\ d < c + ChunkLen BY <1>1, <1>4, <1>5, <1>6, <1>7
<1>9. CASE c <= d BY <1>1, <1>8, <1>9, MultiplesApart DEF Aligned
<1>10. CASE d <= c BY <1>1, <1>8, <1>10, MultiplesApart DEF Aligned
<1>. QED BY <1>9, <1>10

-----------------------------------------------------------------------------
(* One batch at a time: a row is then not replaced by an older one.        *)

LEMMA LatestNext ==
    ASSUME OneBatchAtATime, LatestInv, [Next]_vars PROVE LatestInv'
<1>. USE DEF LatestInv
<1>1. TypeOK' BY TypeNext
<1>2. nextSeq \in Nat BY SizesAssumption DEF TypeOK
<1>3. \A k \in Key : acked[k] \in Nat /\ hot[k] \in Nat BY SizesAssumption DEF TypeOK
<1>4. ASSUME NEW w \in Writers, NEW keys \in Batches, BeginWrite(w, keys) PROVE LatestInv'
  <2>1. /\ nextSeq' = nextSeq + 1 /\ UNCHANGED <<hot, acked>>
        /\ writer'[w].seq = nextSeq + 1
    BY <1>4 DEF BeginWrite, TypeOK
  <2>2. \A v \in Writers : writer'[v].seq = nextSeq' BY <2>1 DEF OneBatchAtATime
  <2>3. \A k \in Key : acked'[k] <= nextSeq' BY <1>2, <1>3, <2>1
  <2>. QED BY <1>1, <2>1, <2>2, <2>3 DEF HotKeepsLatestSeq
<1>5. ASSUME UNCHANGED <<nextSeq, acked>>, \A k \in Key : hot'[k] = hot[k] \/ hot'[k] = 0,
             \A w \in Writers : writer'[w].pc # "idle" =>
                writer[w].pc # "idle" /\ writer'[w].seq = writer[w].seq
      PROVE  LatestInv'
  BY <1>1, <1>5 DEF HotKeepsLatestSeq
<1>6. ASSUME NEW w \in Writers, PutStaging(w) \/ RecordStaging(w) \/ FailWrite(w)
      PROVE  LatestInv'
  BY <1>5, <1>6 DEF PutStaging, RecordStaging, FailWrite, TypeOK, IdleWriter
<1>7. ASSUME NEW w \in Writers, UpsertHot(w) PROVE LatestInv'
  <2>1. /\ writer[w].seq = nextSeq /\ nextSeq' = nextSeq /\ writer'[w].pc = "idle"
    BY <1>7 DEF UpsertHot, TypeOK, IdleWriter
  <2>2. ASSUME NEW k \in Key
        PROVE  /\ acked'[k] <= nextSeq
               /\ hot'[k] # 0 => acked'[k] <= hot'[k]
    <3>1. CASE k \in writer[w].keys
      <4>1. hot'[k] = nextSeq /\ acked'[k] = nextSeq
        BY <1>2, <1>3, <1>7, <2>1, <3>1 DEF UpsertHot, Upserted
      <4>. QED BY <1>2, <4>1
    <3>2. CASE k \notin writer[w].keys
      BY <1>7, <3>2 DEF UpsertHot, Upserted, HotKeepsLatestSeq
    <3>. QED BY <3>1, <3>2
  <2>3. \A v \in Writers : writer'[v].pc = "idle" BY <2>1 DEF OneBatchAtATime
  <2>. QED BY <1>1, <2>1, <2>2, <2>3 DEF HotKeepsLatestSeq
<1>8. ASSUME NEW tags, NEW lo, NEW hi, DeleteRows(tags, lo, hi) PROVE LatestInv'
  <2>1. /\ UNCHANGED <<nextSeq, writer>>
        /\ \A k \in Key : \/ hot'[k] = hot[k] /\ acked'[k] = acked[k]
                          \/ hot'[k] = 0 /\ acked'[k] = 0
    BY <1>8 DEF DeleteRows
  <2>. QED BY <1>1, <1>2, <2>1 DEF HotKeepsLatestSeq
<1>9. ASSUME NEW p \in Passes, PassStep(p) \/ CompactFails(p) \/ InterruptPass(p)
      PROVE  LatestInv'
  <2>1. UNCHANGED <<nextSeq, acked, writer>>
    BY <1>9 DEF PassStep, ListStaging, Compact, RecordCold, DeleteStaging, ForgetStaging,
                ListChunks, ListIntervals, EvictCovered, DropChunk, ExportChunk, RecordExport,
                DropExported, CompactFails, InterruptPass
  <2>2. \A k \in Key : hot'[k] = hot[k] \/ hot'[k] = 0
    BY <1>9 DEF PassStep, ListStaging, Compact, RecordCold, DeleteStaging, ForgetStaging,
                ListChunks, ListIntervals, EvictCovered, DropChunk, Dropped, ExportChunk,
                RecordExport, DropExported, CompactFails, InterruptPass
  <2>. QED BY <1>5, <2>1, <2>2
<1>10. CASE UNCHANGED vars BY <1>5, <1>10 DEF vars
<1>11. ASSUME NEW w \in Writers, WriterNext(w) PROVE LatestInv'
  BY <1>4, <1>6, <1>7, <1>11 DEF WriterNext
<1>. QED BY <1>8, <1>9, <1>10, <1>11 DEF Next

LEMMA LatestInit == Init => LatestInv
<1>. SUFFICES ASSUME Init PROVE LatestInv OBVIOUS
<1>1. \A w \in Writers : writer[w].pc = "idle" BY DEF Init, IdleWriter
<1>2. \A k \in Key : acked[k] <= nextSeq BY DEF Init
<1>3. HotKeepsLatestSeq BY DEF Init, HotKeepsLatestSeq
<1>. QED BY <1>1, <1>2, <1>3, TypeInit DEF LatestInv

-----------------------------------------------------------------------------
(* Steps of the clients, without write-through                             *)

LEMMA KeyTypes == ASSUME NEW k \in Key PROVE k.time \in Nat /\ ChunkOf(k.time) \in Nat
BY SizesAssumption, ChunkStart DEF Key

LEMMA HotTypes ==
    ASSUME TypeOK
    PROVE  /\ \A k \in Key : acked[k] \in Nat /\ hot[k] \in Nat
           /\ horizon \in Nat /\ nextSeq \in Nat /\ chunks \subseteq Nat
           /\ \A m \in manifest : m.lo \in Nat
           /\ \A p \in Passes : pass[p].left \subseteq Nat
BY SizesAssumption DEF TypeOK, Meta

(* A closed chunk's export stays complete while nothing is added to it.    *)
LEMMA ExportedKept ==
    ASSUME TypeOK, NEW c \in Nat, Closed(c), Exported(c),
           files'[ExportOf(c)] = files[ExportOf(c)],
           \A k \in Key : hot'[k] = hot[k] \/ hot'[k] = 0 \/ k.time >= horizon
    PROVE  Exported(c)'
<1>1. ASSUME NEW k \in KeysOfChunk(c), hot'[k] # 0
      PROVE  \E r \in files'[ExportOf(c)] : r.key = k /\ hot'[k] <= r.seq
  <2>1. k \in Key /\ k.time \in Nat /\ k.time < c + ChunkLen
    BY KeyTypes DEF KeysOfChunk
  <2>2. ChunkLen \in Nat /\ horizon \in Nat BY SizesAssumption DEF TypeOK
  <2>3. hot'[k] = hot[k] BY <1>1, <2>1, <2>2 DEF Closed
  <2>. QED BY <1>1, <2>3 DEF Exported
<1>. QED BY <1>1 DEF Exported, KeysOfChunk, ExportOf

LEMMA ClientHot ==
    ASSUME HotInv, UNCHANGED <<files, manifest, pass, horizon>>, chunks \subseteq chunks',
           \A c \in chunks' : c \in chunks \/ (Aligned(c) /\ ~ Closed(c)),
           \A k \in Key : hot'[k] = hot[k] \/ hot'[k] = 0 \/ k.time >= horizon
    PROVE  OnlyExports' /\ PassesEvict' /\ ExportsComplete'
<1>. USE DEF HotInv, LatestInv
<1>1. OnlyExports' BY DEF OnlyExports, ExportMeta, Aligned, Closed
<1>2. ASSUME NEW c \in Nat, Closed(c), Exported(c) PROVE Exported(c)'
  BY <1>2, ExportedKept
<1>3. ExportsComplete'
  <2>1. ASSUME NEW m \in manifest, m.lo \in chunks' PROVE Exported(m.lo)'
    <3>1. m.lo \in Nat /\ Closed(m.lo) BY HotTypes DEF OnlyExports
    <3>2. m.lo \in chunks BY <2>1, <3>1
    <3>. QED BY <1>2, <3>1, <3>2 DEF ExportsComplete
  <2>. QED BY <2>1 DEF ExportsComplete, Exported, KeysOfChunk, ExportOf
<1>4. PassesEvict'
  <2>1. ASSUME NEW p \in Passes, pass[p].pc = "recordExport", NEW c \in pass[p].left,
               IsLowest(c, pass[p].left)
        PROVE  Exported(c)'
    <3>1. c \in Nat /\ Closed(c) /\ Exported(c) BY <2>1, HotTypes DEF PassesEvict, PassEvicts
    <3>. QED BY <1>2, <3>1
  <2>2. \A p \in Passes : pass[p].pc \notin {"idle", "compact"} =>
            \A c \in pass[p].left : c \in chunks' /\ Closed(c)'
    BY DEF PassesEvict, PassEvicts, Closed
  <2>. QED BY <2>1, <2>2 DEF PassesEvict, PassEvicts, IsLowest, ExportMeta, ExportOf
<1>. QED BY <1>1, <1>3, <1>4

(* A row's chunk and its export do not change, the row only goes.          *)
LEMMA AckedKept ==
    ASSUME AckedSomewhere, UNCHANGED <<files, manifest, chunks>>,
           \A k \in Key : \/ hot'[k] = hot[k] /\ acked'[k] = acked[k]
                         \/ acked'[k] = 0
    PROVE  AckedSomewhere'
BY DEF AckedSomewhere, Evicted, ExportMeta, ExportOf

HotRest == OnlyExports /\ BatchesOnTime /\ PassesEvict /\ ExportsComplete /\ AckedSomewhere

LEMMA BeginWriteHot ==
    ASSUME HotOnlyRegime, HotInv, NEW w \in Writers, NEW keys \in Batches, BeginWrite(w, keys)
    PROVE  HotRest'
<1>1. UNCHANGED <<files, manifest, pass, horizon, chunks, hot, acked>> BY DEF BeginWrite
<1>2. OnlyExports' /\ PassesEvict' /\ ExportsComplete' BY <1>1, ClientHot
<1>3. AckedSomewhere' BY <1>1, AckedKept DEF HotInv
<1>4. BatchesOnTime'
  <2>1. writer'[w].pc = "upsert" /\ writer'[w].keys = keys
    BY DEF BeginWrite, HotInv, LatestInv, TypeOK, FirstWrite, HotOnlyRegime
  <2>2. \A k \in keys : k.time >= horizon BY DEF BeginWrite, HotOnlyRegime
  <2>. QED BY <1>1, <2>1, <2>2 DEF BatchesOnTime, HotOnlyRegime, OneBatchAtATime
<1>. QED BY <1>2, <1>3, <1>4 DEF HotRest

LEMMA IdleBatches ==
    ASSUME HotInv, NEW w \in Writers, writer' = [writer EXCEPT ![w] = IdleWriter],
           horizon' = horizon
    PROVE  BatchesOnTime'
BY DEF HotInv, LatestInv, TypeOK, BatchesOnTime, IdleWriter

LEMMA FailWriteHot ==
    ASSUME HotInv, NEW w \in Writers, FailWrite(w) PROVE HotRest'
<1>1. UNCHANGED <<files, manifest, pass, horizon, chunks, hot, acked>> BY DEF FailWrite
<1>2. OnlyExports' /\ PassesEvict' /\ ExportsComplete' BY <1>1, ClientHot
<1>3. AckedSomewhere' BY <1>1, AckedKept DEF HotInv
<1>4. BatchesOnTime' BY IdleBatches DEF FailWrite
<1>. QED BY <1>2, <1>3, <1>4 DEF HotRest

LEMMA DeleteRowsHot ==
    ASSUME HotInv, NEW tags, NEW lo, NEW hi, DeleteRows(tags, lo, hi) PROVE HotRest'
<1>1. UNCHANGED <<files, manifest, pass, horizon, chunks, writer>> BY DEF DeleteRows
<1>2. ASSUME NEW k \in Key
      PROVE  \/ hot'[k] = hot[k] /\ acked'[k] = acked[k]
             \/ hot'[k] = 0 /\ acked'[k] = 0
  BY DEF DeleteRows
<1>3. OnlyExports' /\ PassesEvict' /\ ExportsComplete' BY <1>1, <1>2, ClientHot
<1>4. AckedSomewhere' BY <1>1, <1>2, AckedKept DEF HotInv
<1>5. BatchesOnTime' BY <1>1 DEF HotInv, BatchesOnTime
<1>. QED BY <1>3, <1>4, <1>5 DEF HotRest

LEMMA UpsertHotHot ==
    ASSUME HotInv, NEW w \in Writers, UpsertHot(w) PROVE HotRest'
<1>. USE DEF HotInv, LatestInv
<1>1. /\ UNCHANGED <<files, manifest, pass, horizon, nextSeq>>
      /\ chunks' = chunks \cup {ChunkOf(k.time) : k \in writer[w].keys}
      /\ writer[w].seq = nextSeq /\ writer[w].keys \in SUBSET Key
      /\ \A k \in writer[w].keys : k.time >= horizon
  BY BatchesAssumption DEF UpsertHot, TypeOK, IdleWriter, BatchesOnTime
<1>2. horizon \in Nat /\ ChunkLen \in Nat BY SizesAssumption DEF TypeOK
<1>3. ASSUME NEW k \in writer[w].keys
      PROVE  Aligned(ChunkOf(k.time)) /\ ~ Closed(ChunkOf(k.time))
  <2>1. k \in Key BY <1>1
  <2>2. k.time \in Nat BY <2>1, KeyTypes
  <2>3. /\ ChunkOf(k.time) \in Nat /\ Aligned(ChunkOf(k.time))
        /\ k.time < ChunkOf(k.time) + ChunkLen
    BY <2>2, ChunkStart
  <2>. QED BY <1>1, <1>2, <2>2, <2>3 DEF Closed
<1>4. \A k \in Key : hot'[k] = hot[k] \/ k.time >= horizon BY <1>1 DEF UpsertHot, Upserted
<1>5. OnlyExports' /\ PassesEvict' /\ ExportsComplete'
  <2>1. \A c \in chunks' : c \in chunks \/ (Aligned(c) /\ ~ Closed(c)) BY <1>1, <1>3
  <2>. QED BY <1>1, <1>4, <2>1, ClientHot
<1>6. ASSUME NEW k \in Key, acked'[k] # 0 PROVE acked'[k] <= hot'[k] \/ Evicted(k)'
  <2>1. CASE k \in writer[w].keys
    <3>1. acked[k] \in Nat /\ nextSeq \in Nat BY HotTypes
    <3>2. hot'[k] = nextSeq /\ acked'[k] = nextSeq
      BY <1>1, <2>1, <3>1 DEF UpsertHot, Upserted
    <3>. QED BY <3>1, <3>2
  <2>2. CASE k \notin writer[w].keys
    <3>1. hot'[k] = hot[k] /\ acked'[k] = acked[k] BY <2>2 DEF UpsertHot, Upserted
    <3>2. CASE Evicted(k)
      <4>1. ExportMeta(ChunkOf(k.time)) \in manifest BY <3>2 DEF Evicted
      <4>2. ExportMeta(ChunkOf(k.time)).lo = ChunkOf(k.time) BY DEF ExportMeta
      <4>3. Closed(ChunkOf(k.time)) BY <4>1, <4>2 DEF OnlyExports
      <4>4. ChunkOf(k.time) \notin chunks' BY <1>1, <1>3, <3>2, <4>3 DEF Evicted
      <4>. QED BY <1>1, <3>1, <3>2, <4>4 DEF Evicted, ExportMeta, ExportOf
    <3>. QED BY <1>6, <3>1, <3>2 DEF AckedSomewhere
  <2>. QED BY <2>1, <2>2
<1>7. AckedSomewhere' BY <1>6 DEF AckedSomewhere
<1>8. BatchesOnTime' BY IdleBatches DEF UpsertHot
<1>. QED BY <1>5, <1>7, <1>8 DEF HotRest

-----------------------------------------------------------------------------
(* Steps of the one pass, without write-through                            *)

(* A step that only reads the tables, and may age more chunks out.         *)
LEMMA QuietHot ==
    ASSUME HotOnlyRegime, HotInv, NEW p \in Passes, PassEvicts(p)',
           UNCHANGED <<hot, chunks, files, manifest, writer, acked>>,
           horizon' \in Nat, horizon <= horizon',
           \A w \in Writers : \A k \in writer[w].keys : k.time >= horizon'
    PROVE  HotRest'
<1>. USE DEF HotInv
<1>1. horizon \in Nat /\ ChunkLen \in Nat /\ \A m \in manifest : m.lo \in Nat
  BY SizesAssumption, HotTypes DEF LatestInv
<1>2. ASSUME NEW m \in manifest PROVE Closed(m.lo)'
  <2>1. m.lo \in Nat /\ m.lo + ChunkLen <= horizon BY <1>1 DEF OnlyExports, Closed
  <2>. QED BY <1>1, <2>1 DEF Closed
<1>3. OnlyExports' BY <1>2 DEF OnlyExports, ExportMeta, Aligned
<1>4. BatchesOnTime' BY DEF BatchesOnTime
<1>5. PassesEvict' BY DEF PassesEvict, HotOnlyRegime
<1>6. ExportsComplete' BY DEF ExportsComplete, Exported, KeysOfChunk, ExportOf
<1>7. AckedSomewhere' BY AckedKept
<1>. QED BY <1>3, <1>4, <1>5, <1>6, <1>7 DEF HotRest

(* A step that changes neither the horizon.                                *)
LEMMA SameHorizon ==
    ASSUME HotInv, horizon' = horizon
    PROVE  /\ horizon' \in Nat /\ horizon <= horizon'
           /\ \A w \in Writers : \A k \in writer[w].keys : k.time >= horizon'
BY DEF HotInv, LatestInv, TypeOK, BatchesOnTime

LEMMA ListStagingHot ==
    ASSUME HotOnlyRegime, HotInv, NEW p \in Passes, ListStaging(p) PROVE HotRest'
<1>1. \A m \in manifest : m.obj.kind = "cold"
  BY DEF HotInv, OnlyExports, ExportMeta, ExportOf, ColdKey
<1>2. pass'[p].pc = "compact" /\ pass'[p].todo = {}
  BY <1>1 DEF ListStaging, HotInv, LatestInv, TypeOK, IdlePass
<1>3. PassEvicts(p)' BY <1>2 DEF PassEvicts
<1>. QED BY <1>3, QuietHot, SameHorizon DEF ListStaging

LEMMA ListChunksHot ==
    ASSUME HotOnlyRegime, HotInv, NEW p \in Passes, NEW cutoff \in 0..(MaxTime + ChunkLen),
           ListChunks(p, cutoff)
    PROVE  HotRest'
<1>1. /\ cutoff \in Nat /\ horizon \in Nat /\ ChunkLen \in Nat /\ chunks \subseteq Nat
  BY SizesAssumption, HotTypes DEF HotInv, LatestInv
<1>2. horizon' \in Nat /\ horizon <= horizon' /\ cutoff <= horizon'
  BY <1>1 DEF ListChunks, HotOnlyRegime
<1>3. \A w \in Writers : \A k \in writer[w].keys : k.time >= horizon'
  BY <1>1 DEF ListChunks, HotOnlyRegime, HotInv, BatchesOnTime
<1>4. /\ pass'[p].pc \in {"idle", "intervals"}
      /\ pass'[p].left = Eligible(cutoff)
  BY DEF ListChunks, HotInv, LatestInv, TypeOK, IdlePass
<1>5. \A c \in Eligible(cutoff) : c \in chunks /\ c + ChunkLen <= horizon'
  BY <1>1, <1>2 DEF Eligible
<1>6. PassEvicts(p)' BY <1>4, <1>5 DEF PassEvicts, Closed, ListChunks
<1>. QED BY <1>2, <1>3, <1>6, QuietHot DEF ListChunks

(* A chunk is covered only by its own export.                              *)
LEMMA CoveredByExport ==
    ASSUME HotInv, NEW c \in chunks, CoveredBy(c, c + ChunkLen, manifest)
    PROVE  ExportMeta(c) \in manifest
<1>1. c \in Nat /\ Aligned(c) /\ ChunkLen \in Nat \ {0}
  BY SizesAssumption, HotTypes DEF HotInv, LatestInv, OnlyExports
<1>. DEFINE end == c + ChunkLen
<1>2. CoveredBy(c, end, manifest) /\ end \in Nat /\ c < end BY <1>1
<1>. HIDE DEF end
<1>3. PICK m \in manifest : m.lo <= c /\ c < m.hi BY <1>1, <1>2 DEF CoveredBy
<1>4. m = ExportMeta(m.lo) /\ Aligned(m.lo) /\ m.lo \in Nat
  BY HotTypes DEF HotInv, LatestInv, OnlyExports
<1>5. m.hi = m.lo + ChunkLen BY <1>4 DEF ExportMeta
<1>6. m.lo = c BY <1>1, <1>3, <1>4, <1>5, MultiplesApart DEF Aligned
<1>. QED BY <1>4, <1>6

LEMMA ListIntervalsHot ==
    ASSUME HotOnlyRegime, HotInv, NEW p \in Passes, ListIntervals(p) PROVE HotRest'
<1>1. /\ pass[p].pc = "intervals"
      /\ \A c \in pass[p].left : c \in chunks /\ Closed(c)
  BY DEF ListIntervals, HotInv, PassesEvict, PassEvicts
<1>2. /\ pass'[p].pc = "evict" /\ pass'[p].left = pass[p].left
      /\ pass'[p].covered
            = {c \in pass[p].left : CoveredBy(c, c + ChunkLen, manifest)}
  BY DEF ListIntervals, HotInv, LatestInv, TypeOK, PassSteps
<1>3. \A c \in pass'[p].covered : ExportMeta(c) \in manifest
  BY <1>1, <1>2, CoveredByExport
<1>4. PassEvicts(p)' BY <1>1, <1>2, <1>3 DEF PassEvicts, Closed, ExportMeta, ExportOf, ListIntervals
<1>. QED BY <1>4, QuietHot, SameHorizon DEF ListIntervals

LEMMA InterruptPassHot ==
    ASSUME HotOnlyRegime, HotInv, NEW p \in Passes, InterruptPass(p) PROVE HotRest'
<1>1. pass'[p].pc = "idle" BY DEF InterruptPass, HotInv, LatestInv, TypeOK, IdlePass
<1>2. PassEvicts(p)' BY <1>1 DEF PassEvicts
<1>. QED BY <1>2, QuietHot, SameHorizon DEF InterruptPass

(* There is nothing to merge.                                              *)
LEMMA NothingToMerge ==
    ASSUME HotInv, NEW p \in Passes
    PROVE  /\ ~ Compact(p) /\ ~ CompactFails(p) /\ ~ RecordCold(p)
           /\ ~ DeleteStaging(p) /\ ~ ForgetStaging(p)
BY DEF HotInv, PassesEvict, PassEvicts, Compact, CompactFails, RecordCold, DeleteStaging,
       ForgetStaging

(* A chunk is dropped once its export is listed.                           *)
LEMMA DropHot ==
    ASSUME HotOnlyRegime, HotInv, NEW p \in Passes, NEW c \in pass[p].left,
           pass[p].pc \in {"evict", "drop"}, IsLowest(c, pass[p].left),
           ExportMeta(c) \in manifest, DropChunk(p, c)
    PROVE  HotRest'
<1>. USE DEF HotInv
<1>1. /\ c \in Nat /\ c \in chunks /\ Aligned(c) /\ Closed(c)
      /\ \A d \in pass[p].left : d \in chunks /\ Closed(d)
  BY HotTypes DEF LatestInv, OnlyExports, PassesEvict, PassEvicts
<1>2. /\ UNCHANGED <<files, manifest, writer, acked, horizon>>
      /\ chunks' = chunks \ {c} /\ hot' = Dropped(c)
  BY DEF DropChunk
<1>3. \A k \in Key : hot'[k] = hot[k] \/ hot'[k] = 0 BY <1>2 DEF Dropped
<1>4. OnlyExports' BY <1>2 DEF OnlyExports, ExportMeta, ExportOf, Aligned, Closed
<1>5. BatchesOnTime' BY <1>2 DEF BatchesOnTime
<1>6. PassEvicts(p)'
  <2>1. /\ pass'[p].pc \in {"idle", "evict"} /\ pass'[p].left = pass[p].left \ {c}
        /\ pass'[p].covered = pass[p].covered
    BY DEF DropChunk, NextEvict, LatestInv, TypeOK
  <2>2. \A d \in pass[p].covered : ExportMeta(d) \in manifest
    BY DEF PassesEvict, PassEvicts
  <2>. QED BY <1>1, <1>2, <2>1, <2>2 DEF PassEvicts, Closed, ExportMeta, ExportOf
<1>7. ExportsComplete'
  <2>1. ASSUME NEW m \in manifest, m.lo \in chunks' PROVE Exported(m.lo)'
    <3>1. m.lo \in Nat /\ Closed(m.lo) /\ m.lo \in chunks
      BY <1>2, <2>1, HotTypes DEF LatestInv, OnlyExports
    <3>2. Exported(m.lo) BY <3>1 DEF ExportsComplete
    <3>. QED BY <1>2, <1>3, <3>1, <3>2, ExportedKept DEF LatestInv
  <2>. QED BY <1>2, <2>1 DEF ExportsComplete, Exported, KeysOfChunk, ExportOf
<1>8. ASSUME NEW k \in Key, acked[k] # 0
      PROVE  acked[k] <= hot'[k] \/ Evicted(k)'
  <2>1. CASE k \in KeysOfChunk(c)
    <3>1. k.time \in Nat /\ c <= k.time /\ k.time < c + ChunkLen
      BY <2>1, KeyTypes DEF KeysOfChunk
    <3>2. ChunkOf(k.time) = c BY <1>1, <3>1, ChunkUnique
    <3>3. acked[k] <= hot[k] BY <1>1, <1>8, <3>2 DEF AckedSomewhere, Evicted
    <3>4. acked[k] \in Nat /\ hot[k] \in Nat BY HotTypes DEF LatestInv
    <3>5. ExportMeta(c).lo = c /\ ExportMeta(c).obj = ExportOf(c) BY DEF ExportMeta
    <3>6. Exported(c) BY <1>1, <3>5 DEF ExportsComplete
    <3>7. PICK r \in files[ExportOf(c)] : r.key = k /\ hot[k] <= r.seq
      BY <1>8, <2>1, <3>3, <3>4, <3>6 DEF Exported
    <3>8. ExportOf(c) \in DOMAIN files BY <3>5 DEF OnlyExports
    <3>9. r.seq \in Nat BY <3>7, <3>8, SizesAssumption DEF LatestInv, TypeOK, Row
    <3>10. acked[k] <= r.seq BY <3>3, <3>4, <3>7, <3>9
    <3>11. Evicted(k)' BY <1>1, <1>2, <3>2, <3>7, <3>10 DEF Evicted, ExportMeta, ExportOf
    <3>. QED BY <3>11
  <2>2. CASE k \notin KeysOfChunk(c)
    <3>1. hot'[k] = hot[k] BY <1>2, <2>2 DEF Dropped
    <3>2. Evicted(k) => Evicted(k)' BY <1>2 DEF Evicted, ExportMeta, ExportOf
    <3>. QED BY <1>8, <3>1, <3>2 DEF AckedSomewhere
  <2>. QED BY <2>1, <2>2
<1>9. AckedSomewhere' BY <1>2, <1>8 DEF AckedSomewhere
<1>10. PassesEvict' BY <1>6 DEF PassesEvict, HotOnlyRegime
<1>. QED BY <1>4, <1>5, <1>7, <1>9, <1>10 DEF HotRest

LEMMA EvictCoveredHot ==
    ASSUME HotOnlyRegime, HotInv, NEW p \in Passes, EvictCovered(p) PROVE HotRest'
<1>1. PICK c \in pass[p].covered : IsLowest(c, pass[p].left) /\ DropChunk(p, c)
  BY DEF EvictCovered
<1>2. c \in pass[p].left /\ ExportMeta(c) \in manifest /\ pass[p].pc = "evict"
  BY <1>1 DEF EvictCovered, IsLowest, HotInv, PassesEvict, PassEvicts
<1>. QED BY <1>1, <1>2, DropHot

LEMMA DropExportedHot ==
    ASSUME HotOnlyRegime, HotInv, NEW p \in Passes, DropExported(p) PROVE HotRest'
<1>1. PICK c \in pass[p].left : IsLowest(c, pass[p].left) /\ DropChunk(p, c)
  BY DEF DropExported
<1>2. ExportMeta(c) \in manifest /\ pass[p].pc = "drop"
  BY <1>1 DEF DropExported, HotInv, PassesEvict, PassEvicts
<1>. QED BY <1>1, <1>2, DropHot

(* A chunk's export replaces no other chunk's.                             *)
LEMMA OtherExports ==
    ASSUME HotOnlyRegime, HotInv, NEW c \in chunks, NEW m \in manifest, m.lo # c
    PROVE  /\ m.lo \in Nat /\ m = ExportMeta(m.lo) /\ ExportOf(m.lo) \in DOMAIN files
           /\ ExportOf(m.lo) # ExportOf(c)
<1>1. /\ m.lo \in Nat /\ c \in Nat /\ Aligned(c) /\ Aligned(m.lo)
      /\ m = ExportMeta(m.lo) /\ m.obj \in DOMAIN files
  BY HotTypes DEF HotInv, LatestInv, OnlyExports
<1>2. m.obj = ExportOf(m.lo) BY <1>1 DEF ExportMeta
<1>. QED BY <1>1, <1>2, DaysDiffer DEF HotOnlyRegime

LEMMA ExportChunkHot ==
    ASSUME HotOnlyRegime, HotInv, NEW p \in Passes, ExportChunk(p) PROVE HotRest'
<1>. USE DEF HotInv
<1>1. PICK c \in pass[p].left :
            /\ IsLowest(c, pass[p].left)
            /\ files' = WithFile(ExportOf(c), HotRows(KeysOfChunk(c)))
  BY DEF ExportChunk, ExportOf
<1>2. /\ UNCHANGED <<hot, chunks, manifest, writer, acked, horizon>>
      /\ pass[p].pc = "evict"
  BY DEF ExportChunk
<1>3. /\ pass[p].left \subseteq Nat
      /\ \A d \in pass[p].left : d \in chunks /\ Closed(d)
      /\ \A d \in pass[p].covered : ExportMeta(d) \in manifest
  BY <1>2, HotTypes DEF LatestInv, PassesEvict, PassEvicts
<1>4. c \in chunks BY <1>3
<1>5. /\ DOMAIN files' = DOMAIN files \cup {ExportOf(c)}
      /\ files'[ExportOf(c)] = HotRows(KeysOfChunk(c))
      /\ \A o \in DOMAIN files : o # ExportOf(c) => files'[o] = files[o]
  BY <1>1 DEF WithFile
<1>6. Exported(c)'
  <2>1. ASSUME NEW k \in KeysOfChunk(c), hot[k] # 0
        PROVE  \E r \in HotRows(KeysOfChunk(c)) : r.key = k /\ hot[k] <= r.seq
    <3>. DEFINE r == [key |-> k, seq |-> hot[k]]
    <3>1. r \in HotRows(KeysOfChunk(c)) BY <2>1 DEF HotRows
    <3>2. k \in Key BY DEF KeysOfChunk
    <3>3. hot[k] <= r.seq BY <3>2, HotTypes DEF LatestInv
    <3>. QED BY <3>1, <3>3
  <2>2. ASSUME NEW k \in KeysOfChunk(c), hot'[k] # 0
        PROVE  \E r \in files'[ExportOf(c)] : r.key = k /\ hot'[k] <= r.seq
    BY <1>2, <1>5, <2>1, <2>2
  <2>. QED BY <2>2 DEF Exported, KeysOfChunk, ExportOf
<1>7. ASSUME NEW m \in manifest, m.lo # c
      PROVE  files'[ExportOf(m.lo)] = files[ExportOf(m.lo)]
  BY <1>4, <1>5, <1>7, OtherExports
<1>8. OnlyExports'
  <2>1. DOMAIN files \subseteq DOMAIN files' BY <1>5
  <2>. QED BY <1>2, <2>1 DEF OnlyExports, ExportMeta, ExportOf, Aligned, Closed
<1>9. BatchesOnTime' BY <1>2 DEF BatchesOnTime
<1>10. PassEvicts(p)'
  <2>1. /\ pass'[p].pc = "recordExport" /\ pass'[p].left = pass[p].left
        /\ pass'[p].covered = pass[p].covered
    BY DEF ExportChunk, LatestInv, TypeOK
  <2>2. ASSUME NEW d \in pass'[p].left, IsLowest(d, pass'[p].left)
        PROVE  ExportOf(d)' \in DOMAIN files' /\ Exported(d)'
    <3>1. d = c BY <1>1, <1>3, <2>1, <2>2 DEF IsLowest
    <3>2. ExportOf(c)' = ExportOf(c) BY DEF ExportOf
    <3>. QED BY <1>5, <1>6, <3>1, <3>2
  <2>3. \A d \in pass'[p].left : d \in chunks' /\ Closed(d)' BY <1>2, <1>3, <2>1 DEF Closed
  <2>4. \A d \in pass'[p].covered : ExportMeta(d)' \in manifest'
    BY <1>2, <1>3, <2>1 DEF ExportMeta, ExportOf
  <2>. QED BY <2>1, <2>2, <2>3, <2>4 DEF PassEvicts, IsLowest
<1>11. ExportsComplete'
  <2>1. ASSUME NEW m \in manifest, m.lo \in chunks PROVE Exported(m.lo)'
    <3>1. CASE m.lo = c BY <1>6, <3>1
    <3>2. CASE m.lo # c
      <4>1. m.lo \in Nat /\ Closed(m.lo) BY HotTypes DEF LatestInv, OnlyExports
      <4>2. Exported(m.lo) BY <2>1 DEF ExportsComplete
      <4>. QED BY <1>2, <1>7, <3>2, <4>1, <4>2, ExportedKept DEF LatestInv
    <3>. QED BY <3>1, <3>2
  <2>. QED BY <1>2, <2>1 DEF ExportsComplete, Exported, KeysOfChunk, ExportOf
<1>12. ASSUME NEW k \in Key, Evicted(k) PROVE Evicted(k)'
  <2>. DEFINE d == ChunkOf(k.time)
  <2>1. d \notin chunks /\ ExportMeta(d) \in manifest BY <1>12 DEF Evicted
  <2>2. ExportMeta(d).lo = d BY DEF ExportMeta
  <2>3. files'[ExportOf(d)] = files[ExportOf(d)] BY <1>4, <1>7, <2>1, <2>2
  <2>. QED BY <1>2, <1>12, <2>3 DEF Evicted, ExportMeta, ExportOf
<1>13. AckedSomewhere' BY <1>2, <1>12 DEF AckedSomewhere
<1>14. PassesEvict' BY <1>10 DEF PassesEvict, HotOnlyRegime
<1>. QED BY <1>8, <1>9, <1>11, <1>13, <1>14 DEF HotRest

LEMMA RecordExportHot ==
    ASSUME HotOnlyRegime, HotInv, NEW p \in Passes, RecordExport(p) PROVE HotRest'
<1>. USE DEF HotInv
<1>1. PICK c \in pass[p].left :
            IsLowest(c, pass[p].left) /\ manifest' = Recorded(ExportMeta(c))
  BY DEF RecordExport, ExportMeta, ExportOf
<1>2. /\ UNCHANGED <<hot, chunks, files, writer, acked, horizon>>
      /\ pass[p].pc = "recordExport"
  BY DEF RecordExport
<1>3. /\ pass[p].left \subseteq Nat
      /\ \A d \in pass[p].left : d \in chunks /\ Closed(d)
      /\ \A d \in pass[p].covered : ExportMeta(d) \in manifest
      /\ ExportOf(c) \in DOMAIN files /\ Exported(c)
  BY <1>1, <1>2, HotTypes DEF LatestInv, PassesEvict, PassEvicts
<1>4. c \in chunks /\ c \in Nat /\ Aligned(c) /\ Closed(c)
  BY <1>3 DEF OnlyExports
<1>5. ExportMeta(c).lo = c /\ ExportMeta(c).obj = ExportOf(c) BY DEF ExportMeta
<1>6. ExportMeta(c) \in manifest' /\ \A m \in manifest' : m \in manifest \/ m = ExportMeta(c)
  BY <1>1 DEF Recorded
<1>7. ASSUME NEW m \in manifest PROVE m \in manifest'
  <2>1. CASE m.lo = c
    <3>1. m = ExportMeta(m.lo) BY DEF OnlyExports
    <3>. QED BY <1>6, <2>1, <3>1
  <2>2. CASE m.lo # c
    <3>1. m = ExportMeta(m.lo) /\ ExportOf(m.lo) # ExportOf(c) BY <1>4, <2>2, OtherExports
    <3>2. m.obj = ExportOf(m.lo) BY <3>1 DEF ExportMeta
    <3>. QED BY <1>1, <1>5, <3>1, <3>2 DEF Recorded
  <2>. QED BY <2>1, <2>2
<1>8. OnlyExports'
  <2>1. ASSUME NEW m \in manifest'
        PROVE  /\ m = ExportMeta(m.lo) /\ m.obj \in DOMAIN files
               /\ Aligned(m.lo) /\ Closed(m.lo)
    <3>1. CASE m \in manifest BY <3>1 DEF OnlyExports
    <3>2. CASE m = ExportMeta(c) BY <1>3, <1>4, <1>5, <3>2
    <3>. QED BY <1>6, <3>1, <3>2
  <2>. QED BY <1>2, <2>1 DEF OnlyExports, ExportMeta, ExportOf, Aligned, Closed
<1>9. BatchesOnTime' BY <1>2 DEF BatchesOnTime
<1>10. PassEvicts(p)'
  <2>1. /\ pass'[p].pc = "drop" /\ pass'[p].left = pass[p].left
        /\ pass'[p].covered = pass[p].covered
    BY DEF RecordExport, LatestInv, TypeOK
  <2>2. ASSUME NEW d \in pass'[p].left, IsLowest(d, pass'[p].left)
        PROVE  ExportMeta(d) \in manifest'
    <3>1. d = c BY <1>1, <1>3, <2>1, <2>2 DEF IsLowest
    <3>. QED BY <1>6, <3>1
  <2>3. \A d \in pass'[p].left : d \in chunks' /\ Closed(d)' BY <1>2, <1>3, <2>1 DEF Closed
  <2>4. \A d \in pass'[p].covered : ExportMeta(d) \in manifest' BY <1>3, <1>7, <2>1
  <2>. QED BY <2>1, <2>2, <2>3, <2>4 DEF PassEvicts, IsLowest, ExportMeta, ExportOf
<1>11. ExportsComplete'
  <2>1. ASSUME NEW m \in manifest', m.lo \in chunks PROVE Exported(m.lo)
    BY <1>3, <1>5, <1>6, <2>1 DEF ExportsComplete
  <2>. QED BY <1>2, <2>1 DEF ExportsComplete, Exported, KeysOfChunk, ExportOf
<1>12. ASSUME NEW k \in Key, Evicted(k) PROVE Evicted(k)'
  BY <1>2, <1>7, <1>12 DEF Evicted, ExportMeta, ExportOf
<1>13. AckedSomewhere' BY <1>2, <1>12 DEF AckedSomewhere
<1>14. PassesEvict' BY <1>10 DEF PassesEvict, HotOnlyRegime
<1>. QED BY <1>8, <1>9, <1>11, <1>13, <1>14 DEF HotRest

-----------------------------------------------------------------------------
(* Without write-through nothing acknowledged becomes unreadable           *)

LEMMA HotInvInit == Init => HotInv
<1>. SUFFICES ASSUME Init PROVE HotInv OBVIOUS
<1>1. LatestInv BY LatestInit
<1>2. OnlyExports BY DEF Init, OnlyExports
<1>3. BatchesOnTime BY DEF Init, BatchesOnTime, IdleWriter
<1>4. PassesEvict BY DEF Init, PassesEvict, PassEvicts, IdlePass
<1>5. ExportsComplete BY DEF Init, ExportsComplete
<1>6. AckedSomewhere BY DEF Init, AckedSomewhere
<1>. QED BY <1>1, <1>2, <1>3, <1>4, <1>5, <1>6 DEF HotInv

LEMMA HotInvNext == ASSUME HotOnlyRegime, HotInv, [Next]_vars PROVE HotInv'
<1>1. LatestInv' BY LatestNext DEF HotInv, HotOnlyRegime
<1>2. ASSUME NEW w \in Writers, WriterNext(w) PROVE HotRest'
  <2>1. writer[w].pc \in {"idle", "upsert"} BY DEF HotInv, BatchesOnTime
  <2>2. ~ PutStaging(w) /\ ~ RecordStaging(w) BY <2>1 DEF PutStaging, RecordStaging
  <2>. QED BY <1>2, <2>2, BeginWriteHot, UpsertHotHot, FailWriteHot DEF WriterNext
<1>3. ASSUME NEW tags, NEW lo, NEW hi, DeleteRows(tags, lo, hi) PROVE HotRest'
  BY <1>3, DeleteRowsHot
<1>4. ASSUME NEW p \in Passes, PassStep(p) PROVE HotRest'
  BY <1>4, NothingToMerge, ListStagingHot, ListChunksHot, ListIntervalsHot, EvictCoveredHot,
     ExportChunkHot, RecordExportHot, DropExportedHot DEF PassStep
<1>5. ASSUME NEW p \in Passes, CompactFails(p) \/ InterruptPass(p) PROVE HotRest'
  BY <1>5, NothingToMerge, InterruptPassHot
<1>6. ASSUME UNCHANGED vars PROVE HotRest'
  <2>1. UNCHANGED <<hot, chunks, files, manifest, writer, pass, acked, horizon>> BY <1>6 DEF vars
  <2>2. OnlyExports' /\ PassesEvict' /\ ExportsComplete' BY <2>1, ClientHot
  <2>3. AckedSomewhere' BY <2>1, AckedKept DEF HotInv
  <2>4. BatchesOnTime' BY <2>1 DEF HotInv, BatchesOnTime
  <2>. QED BY <2>2, <2>3, <2>4 DEF HotRest
<1>7. HotRest' BY <1>2, <1>3, <1>4, <1>5, <1>6 DEF Next
<1>. QED BY <1>1, <1>7 DEF HotInv, HotRest

(* The invariant of the mode without write-through: what is listed, who    *)
(* may still write where, and where the rows of each chunk are.            *)
THEOREM HotOnlyInvariant == ASSUME HotOnlyRegime PROVE Spec => []HotInv
<1>1. HotInv /\ [Next]_vars => HotInv' BY HotInvNext
<1>. QED BY HotInvInit, <1>1, PTL DEF Spec

LEMMA NowhereUnreadable == HotInv => AckedReadable
<1>. SUFFICES ASSUME HotInv, NEW k \in Key, acked[k] # 0 PROVE acked[k] <= Federated(k)
  BY DEF AckedReadable
<1>. USE DEF HotInv
<1>1. TypeOK BY DEF LatestInv
<1>2. acked[k] \in Nat /\ hot[k] \in Nat BY <1>1, HotTypes
<1>3. Newest(k) \in Nat /\ \A s \in ColdSeqs(k) : s <= Newest(k)
  BY <1>1, NewestIsHighest DEF IsHighest
<1>4. CASE acked[k] <= hot[k] BY <1>2, <1>3, <1>4 DEF Federated
<1>5. CASE Evicted(k)
  <2>. DEFINE o == ExportOf(ChunkOf(k.time))
  <2>1. o \in Listed /\ o \in DOMAIN files
    BY <1>5 DEF Evicted, ExportMeta, OnlyExports, Listed
  <2>2. PICK r \in files[o] : r.key = k /\ acked[k] <= r.seq BY <1>5 DEF Evicted
  <2>3. r.seq \in ColdSeqs(k) BY <2>1, <2>2 DEF ColdSeqs, RowsOf
  <2>4. r.seq \in Nat BY <1>1, <2>1, <2>2, SizesAssumption DEF TypeOK, Row
  <2>5. acked[k] <= Newest(k) BY <1>2, <1>3, <2>2, <2>3, <2>4
  <2>. QED BY <1>2, <1>3, <2>5 DEF Federated
<1>. QED BY <1>4, <1>5 DEF AckedSomewhere

(* Without write-through, and whatever ends a batch or the pass: a row     *)
(* that was acknowledged and not deleted is read, in the version           *)
(* acknowledged or a newer one.                                            *)
THEOREM AcknowledgedIsReadable == ASSUME HotOnlyRegime PROVE Spec => []AckedReadable
BY HotOnlyInvariant, NowhereUnreadable, PTL
====
