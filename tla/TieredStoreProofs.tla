---- MODULE TieredStoreProofs ----
(***************************************************************************)
(* Theorems about every instance of TieredStore: type correctness; and     *)
(* that the manifest never names an object that is gone, but for the one a *)
(* pass has deleted and forgets next, in every mode and however many       *)
(* passes run over each other.  The argument for the manifest: only a pass *)
(* removes an object, always the earliest of those it has in hand; objects *)
(* in hand are staging objects that were listed once, so never the one a   *)
(* writer is about to record nor a merged or exported one; and two objects *)
(* in hand that look equally early are the same object.                    *)
(***************************************************************************)
EXTENDS TieredStoreInv, Integers, WellFoundedInduction, TLAPS

-----------------------------------------------------------------------------
(* Bounded sets of numbers                                                 *)

LEMMA LessThanWellFounded ==
    IsWellFoundedOn({p \in Nat \X Nat : p[1] < p[2]}, Nat)
BY NatLessThanWellFounded DEF OpToRel

(* Every nonempty set of naturals has a least element.                     *)
LEMMA MinExists ==
    ASSUME NEW S \in SUBSET Nat, S # {}
    PROVE  \E m \in S : \A x \in S : m <= x
<1>. DEFINE R == {p \in Nat \X Nat : p[1] < p[2]}
<1>1. PICK m \in S : \A x \in S : ~ (<<x, m>> \in R)
  <2>. HIDE DEF R
  <2>1. IsWellFoundedOn(R, Nat) BY LessThanWellFounded DEF R
  <2>. QED BY <2>1, WFMin
<1>2. \A x \in S : ~ (x < m)
  <2>1. SUFFICES ASSUME NEW x \in S, x < m PROVE FALSE OBVIOUS
  <2>2. <<x, m>> \in R BY <2>1
  <2>. QED BY <2>2, <1>1
<1>. QED BY <1>2

(* Every nonempty set of naturals up to N has a greatest element: its      *)
(* least upper bound.                                                      *)
LEMMA MaxExists ==
    ASSUME NEW N \in Nat, NEW S \in SUBSET (0..N), S # {}
    PROVE  \E m \in S : \A x \in S : x <= m
<1>. DEFINE T == {n \in Nat : \A x \in S : x <= n}
<1>1. N \in T OBVIOUS
<1>2. PICK m \in T : \A n \in T : m <= n
  <2>. HIDE DEF T
  <2>1. T \in SUBSET Nat BY DEF T
  <2>. QED BY <1>1, <2>1, MinExists
<1>3. ASSUME m \notin S PROVE FALSE
  <2>1. \A x \in S : x \in Nat /\ x < m BY <1>2, <1>3
  <2>2. m \in Nat /\ m # 0
    <3>1. PICK x \in S : TRUE OBVIOUS
    <3>2. x \in Nat /\ x < m BY <2>1, <3>1
    <3>. QED BY <3>2
  <2>3. m - 1 \in T
    <3>1. m - 1 \in Nat BY <2>2
    <3>2. \A x \in S : x <= m - 1 BY <2>1, <2>2
    <3>. QED BY <3>1, <3>2
  <2>. QED BY <2>3, <1>2
<1>. QED BY <1>2, <1>3

(* Merging objects loses no row: for each input row the result has a row   *)
(* of the same key that is as new or newer.                                *)
LEMMA DedupKeeps ==
    ASSUME NEW rows \in SUBSET Row, NEW r \in rows
    PROVE  \E q \in Dedup(rows) : q.key = r.key /\ r.seq <= q.seq
<1>. USE SizesAssumption
<1>. DEFINE Same == {q \in rows : q.key = r.key}
            S == {q.seq : q \in Same}
<1>1. S \in SUBSET (0..MaxSeq) /\ S # {}
  <2>1. \A q \in Same : q.seq \in 0..MaxSeq BY DEF Row
  <2>2. r.seq \in S OBVIOUS
  <2>. QED BY <2>1, <2>2
<1>2. PICK m \in S : \A x \in S : x <= m
  <2>. HIDE DEF S
  <2>. QED BY <1>1, MaxExists
<1>3. PICK q \in Same : q.seq = m OBVIOUS
<1>4. \A x \in Same : x.seq <= q.seq BY <1>2, <1>3
<1>5. q \in Dedup(rows) BY <1>3, <1>4 DEF Dedup
<1>. QED BY <1>3, <1>4, <1>5

-----------------------------------------------------------------------------
(* Type correctness                                                        *)

LEMMA DayOfNat == ASSUME NEW t \in Nat PROVE DayOf(t) \in Nat
BY SizesAssumption DEF DayOf

LEMMA ChunkOfNat == ASSUME NEW t \in Nat PROVE ChunkOf(t) \in Nat
<1>. t % ChunkLen \in Nat /\ t % ChunkLen <= t BY SizesAssumption
<1>. QED BY DEF ChunkOf

LEMMA WithFileStep ==
    ASSUME NEW o, NEW rows, files' = WithFile(o, rows)
    PROVE  /\ DOMAIN files' = DOMAIN files \cup {o}
           /\ files'[o] = rows
           /\ \A x \in DOMAIN files : x # o => files'[x] = files[x]
BY DEF WithFile

LEMMA WithoutFileStep ==
    ASSUME NEW o, files' = WithoutFile(o)
    PROVE  /\ DOMAIN files' = DOMAIN files \ {o}
           /\ \A x \in DOMAIN files' : files'[x] = files[x]
BY DEF WithoutFile

FilesOK == DOMAIN files \subseteq Object /\ \A o \in DOMAIN files : files[o] \subseteq Row

LEMMA WithFileType ==
    ASSUME FilesOK, NEW o \in Object, NEW rows \in SUBSET Row, files' = WithFile(o, rows)
    PROVE  FilesOK'
<1>1. DOMAIN files' = DOMAIN files \cup {o} BY WithFileStep
<1>2. DOMAIN files' \subseteq Object BY <1>1 DEF FilesOK
<1>3. ASSUME NEW x \in DOMAIN files' PROVE files'[x] \subseteq Row
  <2>1. CASE x = o BY <2>1, WithFileStep
  <2>2. CASE x # o BY <2>2, <1>1, <1>3, WithFileStep DEF FilesOK
  <2>. QED BY <2>1, <2>2
<1>. QED BY <1>2, <1>3 DEF FilesOK

(* One lemma per action.                                                   *)

LEMMA TypeBeginWrite ==
    ASSUME TypeOK, NEW w \in Writers, NEW keys \in Batches, BeginWrite(w, keys)
    PROVE  TypeOK'
BY SizesAssumption, BatchesAssumption DEF TypeOK, BeginWrite, FirstWrite

LEMMA TypePutStaging ==
    ASSUME TypeOK, NEW w \in Writers, PutStaging(w) PROVE TypeOK'
<1>. DEFINE o == StagingKey(writer[w].seq)
            rows == BatchRows(writer[w].keys, writer[w].seq)
<1>1. /\ writer[w].seq \in 1..MaxSeq /\ writer[w].keys \in Batches
      /\ writer[w].keys \in SUBSET Key
  BY BatchesAssumption DEF TypeOK, PutStaging, IdleWriter
<1>2. o \in Object BY <1>1, SizesAssumption DEF StagingKey, Object
<1>3. rows \in SUBSET Row BY <1>1 DEF BatchRows, Row
<1>4. FilesOK'
  <2>1. FilesOK BY DEF TypeOK, FilesOK
  <2>2. files' = WithFile(o, rows) BY DEF PutStaging
  <2>. HIDE DEF o, rows
  <2>. QED BY <1>2, <1>3, <2>1, <2>2, WithFileType
<1>5. writer' \in [Writers -> {IdleWriter} \cup
            [pc : {"put", "record", "upsert"}, seq : 1..MaxSeq, keys : Batches]]
  BY <1>1 DEF TypeOK, PutStaging, IdleWriter
<1>. QED BY <1>4, <1>5 DEF TypeOK, PutStaging, FilesOK

LEMMA TypeRecordStaging ==
    ASSUME TypeOK, NEW w \in Writers, RecordStaging(w) PROVE TypeOK'
<1>1. /\ writer[w].seq \in 1..MaxSeq /\ writer[w].keys \in Batches
      /\ writer[w].keys \in SUBSET Key
  BY BatchesAssumption DEF TypeOK, RecordStaging, IdleWriter
<1>2. manifest' \subseteq Meta
  <2>1. PICK lo, hi \in {k.time : k \in writer[w].keys} :
            manifest' = Recorded([obj |-> StagingKey(writer[w].seq), lo |-> lo, hi |-> hi])
    BY DEF RecordStaging
  <2>2. lo \in Nat /\ hi \in Nat BY <1>1, SizesAssumption DEF Key
  <2>3. StagingKey(writer[w].seq) \in Object BY <1>1, SizesAssumption DEF StagingKey, Object
  <2>. QED BY <2>1, <2>2, <2>3 DEF TypeOK, Recorded, Meta
<1>3. writer' \in [Writers -> {IdleWriter} \cup
            [pc : {"put", "record", "upsert"}, seq : 1..MaxSeq, keys : Batches]]
  BY <1>1 DEF TypeOK, RecordStaging, IdleWriter
<1>. QED BY <1>2, <1>3 DEF TypeOK, RecordStaging

LEMMA TypeUpsertHot ==
    ASSUME TypeOK, NEW w \in Writers, UpsertHot(w) PROVE TypeOK'
<1>1. /\ writer[w].seq \in 1..MaxSeq /\ writer[w].keys \in SUBSET Key
  BY BatchesAssumption DEF TypeOK, UpsertHot, IdleWriter
<1>2. hot' \in [Key -> 0..MaxSeq] BY <1>1 DEF TypeOK, UpsertHot, Upserted
<1>3. acked' \in [Key -> 0..MaxSeq] BY <1>1 DEF TypeOK, UpsertHot
<1>4. chunks' \subseteq Nat
  <2>1. ASSUME NEW k \in writer[w].keys PROVE ChunkOf(k.time) \in Nat
    <3>1. k.time \in Nat BY <1>1, <2>1, SizesAssumption DEF Key
    <3>. QED BY <3>1, ChunkOfNat
  <2>. QED BY <2>1 DEF TypeOK, UpsertHot
<1>. QED BY <1>2, <1>3, <1>4 DEF TypeOK, UpsertHot

LEMMA TypeFailWrite ==
    ASSUME TypeOK, NEW w \in Writers, FailWrite(w) PROVE TypeOK'
BY DEF TypeOK, FailWrite

LEMMA TypeDeleteRows ==
    ASSUME TypeOK, NEW tags, NEW lo, NEW hi, DeleteRows(tags, lo, hi) PROVE TypeOK'
<1>1. hot' \in [Key -> 0..MaxSeq] BY SizesAssumption DEF TypeOK, DeleteRows
<1>2. acked' \in [Key -> 0..MaxSeq] BY SizesAssumption DEF TypeOK, DeleteRows
<1>. QED BY <1>1, <1>2 DEF TypeOK, DeleteRows

PassType == [pc : PassSteps \cup {"idle"}, todo : SUBSET Meta, objs : SUBSET Meta,
             out : Object, left : SUBSET Nat, covered : SUBSET Nat]

LEMMA IdlePassType == IdlePass \in PassType
BY SizesAssumption DEF IdlePass, PassType, StagingKey, Object

LEMMA TypeListStaging ==
    ASSUME TypeOK, NEW p \in Passes, ListStaging(p) PROVE TypeOK'
<1>1. pass' \in [Passes -> PassType]
  <2>1. pass \in [Passes -> PassType] BY DEF TypeOK, PassType
  <2>2. [IdlePass EXCEPT !.pc = "compact",
                         !.todo = {m \in manifest : m.obj.kind = "staging"}] \in PassType
    BY IdlePassType DEF PassType, PassSteps, TypeOK
  <2>. QED BY <2>1, <2>2 DEF ListStaging
<1>. QED BY <1>1 DEF TypeOK, ListStaging, PassType

LEMMA TypeCompact ==
    ASSUME TypeOK, NEW p \in Passes, Compact(p) PROVE TypeOK'
<1>1. pass \in [Passes -> PassType] BY DEF TypeOK, PassType
<1>2. PICK first \in pass[p].todo, s \in 0..MaxSeq :
        LET group == GroupOf(first, pass[p].todo)
            out == ColdKey(DayOf(first.lo), s)
        IN  /\ files' = WithFile(out, Dedup(RowsOf(ObjectsOf(group))))
            /\ pass' = [pass EXCEPT ![p].pc = "record", ![p].todo = @ \ group,
                                    ![p].objs = group, ![p].out = out]
  BY DEF Compact
<1>. DEFINE group == GroupOf(first, pass[p].todo)
            out == ColdKey(DayOf(first.lo), s)
            rows == Dedup(RowsOf(ObjectsOf(group)))
<1>3. first \in Meta /\ group \subseteq Meta BY <1>1, <1>2 DEF PassType, GroupOf
<1>4. out \in Object BY <1>3, DayOfNat DEF Meta, ColdKey, Object
<1>5. rows \in SUBSET Row BY DEF TypeOK, Dedup, RowsOf
<1>6. files' = WithFile(out, rows) BY <1>2
<1>7. pass' = [pass EXCEPT ![p].pc = "record", ![p].todo = @ \ group,
                           ![p].objs = group, ![p].out = out] BY <1>2
<1>. HIDE DEF group, out, rows
<1>8. FilesOK' BY <1>4, <1>5, <1>6, WithFileType DEF TypeOK, FilesOK
<1>9. pass' \in [Passes -> PassType]
  <2>1. pass[p] \in PassType BY <1>1
  <2>2. [pass[p] EXCEPT !.pc = "record", !.todo = @ \ group, !.objs = group, !.out = out]
            \in PassType
    BY <1>3, <1>4, <2>1 DEF PassType, PassSteps
  <2>. QED BY <1>1, <1>7, <2>2 DEF PassType
<1>. QED BY <1>8, <1>9 DEF TypeOK, Compact, PassType, FilesOK

LEMMA TypeRecordCold ==
    ASSUME TypeOK, NEW p \in Passes, RecordCold(p) PROVE TypeOK'
<1>1. pass \in [Passes -> PassType] BY DEF TypeOK, PassType
<1>2. pass' \in [Passes -> PassType] BY <1>1 DEF RecordCold, PassType, PassSteps
<1>3. manifest' \subseteq Meta
  <2>1. PICK lo \in {m.lo : m \in pass[p].objs}, hi \in {m.hi : m \in pass[p].objs} :
            manifest' = Recorded([obj |-> pass[p].out, lo |-> lo, hi |-> hi])
    BY DEF RecordCold
  <2>2. pass[p].objs \subseteq Meta /\ pass[p].out \in Object BY <1>1 DEF PassType
  <2>3. lo \in Nat /\ hi \in Nat BY <2>1, <2>2 DEF Meta
  <2>. QED BY <2>1, <2>2, <2>3 DEF TypeOK, Recorded, Meta
<1>. QED BY <1>2, <1>3 DEF TypeOK, RecordCold, PassType

LEMMA TypeDeleteStaging ==
    ASSUME TypeOK, NEW p \in Passes, DeleteStaging(p) PROVE TypeOK'
<1>1. pass' \in [Passes -> PassType] BY DEF TypeOK, DeleteStaging, PassType, PassSteps
<1>2. PICK m : files' = WithoutFile(m.obj) BY DEF DeleteStaging
<1>3. FilesOK' BY <1>2, WithoutFileStep DEF TypeOK, FilesOK
<1>. QED BY <1>1, <1>3 DEF TypeOK, DeleteStaging, PassType, FilesOK

LEMMA TypeForgetStaging ==
    ASSUME TypeOK, NEW p \in Passes, ForgetStaging(p) PROVE TypeOK'
<1>1. PICK m : /\ manifest' = Forgotten(m.obj)
               /\ pass' = [pass EXCEPT ![p].pc = AfterForget(pass[p].objs \ {m}),
                                       ![p].objs = @ \ {m}]
  BY DEF ForgetStaging
<1>2. pass' \in [Passes -> PassType]
  <2>1. pass \in [Passes -> PassType] BY DEF TypeOK, PassType
  <2>2. AfterForget(pass[p].objs \ {m}) \in PassSteps BY DEF AfterForget, PassSteps
  <2>. QED BY <1>1, <2>1, <2>2 DEF PassType
<1>3. manifest' \subseteq Meta BY <1>1 DEF TypeOK, Forgotten
<1>. QED BY <1>2, <1>3 DEF TypeOK, ForgetStaging, PassType

LEMMA TypeListChunks ==
    ASSUME TypeOK, NEW p \in Passes, NEW cutoff \in Nat, ListChunks(p, cutoff)
    PROVE  TypeOK'
<1>1. Eligible(cutoff) \subseteq Nat BY DEF TypeOK, Eligible
<1>2. [IdlePass EXCEPT !.pc = IF Eligible(cutoff) = {} THEN "idle" ELSE "intervals",
                       !.left = Eligible(cutoff)] \in PassType
  BY <1>1, IdlePassType DEF PassType, PassSteps
<1>3. pass' \in [Passes -> PassType] BY <1>2 DEF TypeOK, PassType, ListChunks
<1>4. horizon' \in Nat BY DEF TypeOK, ListChunks
<1>. QED BY <1>3, <1>4 DEF TypeOK, ListChunks, PassType

LEMMA TypeListIntervals ==
    ASSUME TypeOK, NEW p \in Passes, ListIntervals(p) PROVE TypeOK'
<1>. DEFINE cov == {c \in pass[p].left : CoveredBy(c, c + ChunkLen, manifest)}
<1>1. pass \in [Passes -> PassType] BY DEF TypeOK, PassType
<1>2. cov \subseteq Nat BY <1>1 DEF PassType
<1>3. pass' = [pass EXCEPT ![p].pc = "evict", ![p].covered = cov] BY DEF ListIntervals
<1>. HIDE DEF cov
<1>4. pass' \in [Passes -> PassType] BY <1>1, <1>2, <1>3 DEF PassType, PassSteps
<1>. QED BY <1>4 DEF TypeOK, ListIntervals, PassType

LEMMA TypeDropChunk ==
    ASSUME TypeOK, NEW p \in Passes, NEW c \in pass[p].left, DropChunk(p, c)
    PROVE  TypeOK'
<1>1. hot' \in [Key -> 0..MaxSeq] BY SizesAssumption DEF TypeOK, DropChunk, Dropped
<1>2. pass' \in [Passes -> PassType]
  <2>1. pass \in [Passes -> PassType] BY DEF TypeOK, PassType
  <2>2. NextEvict(pass[p].left \ {c}) \in PassSteps \cup {"idle"} BY DEF NextEvict, PassSteps
  <2>. QED BY <2>1, <2>2 DEF DropChunk, PassType
<1>. QED BY <1>1, <1>2 DEF TypeOK, DropChunk, PassType

LEMMA TypeExportChunk ==
    ASSUME TypeOK, NEW p \in Passes, ExportChunk(p) PROVE TypeOK'
<1>1. pass \in [Passes -> PassType] BY DEF TypeOK, PassType
<1>2. PICK c \in pass[p].left : files' = WithFile(ColdKey(DayOf(c), 0), HotRows(KeysOfChunk(c)))
  BY DEF ExportChunk
<1>3. ColdKey(DayOf(c), 0) \in Object
  <2>1. c \in Nat BY <1>1, <1>2 DEF PassType
  <2>2. DayOf(c) \in Nat BY <2>1, DayOfNat
  <2>. QED BY <2>2, SizesAssumption DEF ColdKey, Object
<1>4. HotRows(KeysOfChunk(c)) \in SUBSET Row
  BY SizesAssumption DEF TypeOK, HotRows, KeysOfChunk, Row
<1>5. FilesOK' BY <1>2, <1>3, <1>4, WithFileType DEF TypeOK, FilesOK
<1>6. pass' \in [Passes -> PassType] BY <1>1 DEF ExportChunk, PassType, PassSteps
<1>. QED BY <1>5, <1>6 DEF TypeOK, ExportChunk, PassType, FilesOK

LEMMA TypeRecordExport ==
    ASSUME TypeOK, NEW p \in Passes, RecordExport(p) PROVE TypeOK'
<1>1. pass \in [Passes -> PassType] BY DEF TypeOK, PassType
<1>2. PICK c \in pass[p].left :
        manifest' = Recorded([obj |-> ColdKey(DayOf(c), 0), lo |-> c, hi |-> c + ChunkLen])
  BY DEF RecordExport
<1>3. manifest' \subseteq Meta
  <2>1. c \in Nat /\ c + ChunkLen \in Nat BY <1>1, SizesAssumption DEF PassType
  <2>2. DayOf(c) \in Nat BY <2>1, DayOfNat
  <2>3. ColdKey(DayOf(c), 0) \in Object BY <2>2, SizesAssumption DEF ColdKey, Object
  <2>. QED BY <1>2, <2>1, <2>3 DEF TypeOK, Recorded, Meta
<1>4. pass' \in [Passes -> PassType] BY <1>1 DEF RecordExport, PassType, PassSteps
<1>. QED BY <1>3, <1>4 DEF TypeOK, RecordExport, PassType

LEMMA TypeInterrupt ==
    ASSUME TypeOK, NEW p \in Passes, pass' = [pass EXCEPT ![p] = IdlePass],
           UNCHANGED <<hot, chunks, files, manifest, nextSeq, writer, acked, horizon>>
    PROVE  TypeOK'
<1>1. pass' \in [Passes -> PassType] BY IdlePassType DEF TypeOK, PassType
<1>. QED BY <1>1 DEF TypeOK, PassType

LEMMA TypeInit == Init => TypeOK
<1>. SUFFICES ASSUME Init PROVE TypeOK OBVIOUS
<1>1. pass \in [Passes -> PassType] BY IdlePassType DEF Init
<1>2. FilesOK BY DEF Init, FilesOK
<1>. QED BY <1>1, <1>2, SizesAssumption DEF Init, TypeOK, PassType, FilesOK

LEMMA TypeNext == TypeOK /\ [Next]_vars => TypeOK'
<1>. SUFFICES ASSUME TypeOK, [Next]_vars PROVE TypeOK' OBVIOUS
<1>1. ASSUME NEW w \in Writers, WriterNext(w) PROVE TypeOK'
  BY <1>1, TypeBeginWrite, TypePutStaging, TypeRecordStaging, TypeUpsertHot, TypeFailWrite
     DEF WriterNext
<1>2. ASSUME NEW tags \in SUBSET Tags, NEW lo \in 0..MaxTime, NEW hi, DeleteRows(tags, lo, hi)
      PROVE  TypeOK'
  BY <1>2, TypeDeleteRows
<1>3. ASSUME NEW p \in Passes, PassStep(p) PROVE TypeOK'
  <2>1. ASSUME NEW cutoff \in 0..(MaxTime + ChunkLen), ListChunks(p, cutoff) PROVE TypeOK'
    <3>1. cutoff \in Nat BY SizesAssumption
    <3>. QED BY <2>1, <3>1, TypeListChunks
  <2>2. CASE EvictCovered(p)
    <3>1. PICK c \in pass[p].left : DropChunk(p, c) BY <2>2 DEF EvictCovered, IsLowest
    <3>. QED BY <3>1, TypeDropChunk
  <2>3. CASE DropExported(p)
    <3>1. PICK c \in pass[p].left : DropChunk(p, c) BY <2>3 DEF DropExported
    <3>. QED BY <3>1, TypeDropChunk
  <2>. QED BY <1>3, <2>1, <2>2, <2>3, TypeListStaging, TypeCompact, TypeRecordCold,
              TypeDeleteStaging, TypeForgetStaging, TypeListIntervals, TypeExportChunk,
              TypeRecordExport DEF PassStep
<1>4. ASSUME NEW p \in Passes, CompactFails(p) \/ InterruptPass(p) PROVE TypeOK'
  BY <1>4, TypeInterrupt DEF CompactFails, InterruptPass
<1>5. CASE UNCHANGED vars BY <1>5 DEF vars, TypeOK
<1>. QED BY <1>1, <1>2, <1>3, <1>4, <1>5 DEF Next

(* Every instance of the specification is type correct: rows, objects and  *)
(* manifest entries keep their shape in every mode, with any number of     *)
(* writers and passes and with any interruptions.                          *)
THEOREM TypeCorrect == Spec => []TypeOK
BY TypeInit, TypeNext, PTL DEF Spec

-----------------------------------------------------------------------------
(* The newest listed version                                               *)

(* What CHOOSE finds in the definition of Newest.                          *)
LEMMA HighestOf ==
    ASSUME NEW S \in SUBSET (0..MaxSeq),
           NEW n, n = CHOOSE m \in {0} \cup S : IsHighest(m, {0} \cup S)
    PROVE  IsHighest(n, {0} \cup S) /\ n \in Nat
<1>1. {0} \cup S \in SUBSET (0..MaxSeq) BY SizesAssumption
<1>2. \E m \in {0} \cup S : IsHighest(m, {0} \cup S)
  <2>. DEFINE T == {0} \cup S
  <2>1. T \in SUBSET (0..MaxSeq) /\ T # {} BY <1>1
  <2>. HIDE DEF T
  <2>2. PICK m \in T : \A x \in T : x <= m BY <2>1, MaxExists, SizesAssumption
  <2>. QED BY <2>2 DEF IsHighest, T
<1>3. IsHighest(n, {0} \cup S) BY <1>2
<1>4. n \in 0..MaxSeq BY <1>1, <1>3 DEF IsHighest
<1>. QED BY <1>3, <1>4, SizesAssumption

LEMMA NewestIsHighest ==
    ASSUME TypeOK, NEW k
    PROVE  IsHighest(Newest(k), {0} \cup ColdSeqs(k)) /\ Newest(k) \in Nat
<1>1. ColdSeqs(k) \in SUBSET (0..MaxSeq)
  BY SizesAssumption DEF TypeOK, Row, ColdSeqs, RowsOf
<1>. QED BY <1>1, HighestOf DEF Newest

-----------------------------------------------------------------------------
(* What the parts of the invariant give                                    *)

LEMMA PassTypes == ASSUME TypeOK PROVE pass \in [Passes -> PassType]
BY DEF TypeOK, PassType

LEMMA BusyWriter ==
    ASSUME TypeOK, NEW w \in Writers, writer[w].pc # "idle"
    PROVE  writer[w].seq \in 1..MaxSeq /\ writer[w].seq \in Nat
BY SizesAssumption DEF TypeOK, IdleWriter

LEMMA StagingKeysDiffer == ASSUME NEW s, NEW t, s # t PROVE StagingKey(s) # StagingKey(t)
BY DEF StagingKey

LEMMA ColdIsNotStaging == ASSUME NEW o, o.kind = "cold", NEW s PROVE o # StagingKey(s)
BY DEF StagingKey

(* A listed object without a file has a pass that forgets it next.         *)
Forgetting(p, o) == pass[p].pc = "forget" /\ \E m \in pass[p].objs :
                        m.obj = o /\ IsEarliest(m, pass[p].objs)

LEMMA SoundByForgetting ==
    ManifestSound <=> \A o \in Listed \ DOMAIN files : \E p \in Passes : Forgetting(p, o)
BY DEF ManifestSound, Forgetting

(* No object goes, nothing is listed that does not exist, and passes that  *)
(* are about to forget stay.                                               *)
LEMMA SoundKept ==
    ASSUME ManifestSound, Listed' \subseteq Listed \cup DOMAIN files',
           DOMAIN files \subseteq DOMAIN files',
           \A p \in Passes : pass[p].pc = "forget" => pass'[p] = pass[p]
    PROVE  ManifestSound'
<1>1. ASSUME NEW o \in Listed' \ DOMAIN files' PROVE \E p \in Passes : Forgetting(p, o)'
  <2>1. o \in Listed \ DOMAIN files BY <1>1
  <2>2. PICK p \in Passes : Forgetting(p, o) BY <2>1, SoundByForgetting
  <2>3. pass'[p] = pass[p] BY <2>2 DEF Forgetting
  <2>. QED BY <2>2, <2>3 DEF Forgetting
<1>. QED BY <1>1 DEF ManifestSound, Forgetting

(* Writers wait, and passes take nothing in hand that was not in hand or   *)
(* listed.                                                                 *)
LEMMA WritersFreshKept ==
    ASSUME WritersFresh, UNCHANGED <<nextSeq, writer>>,
           \A w \in Writers : writer[w].pc \in {"put", "record"} =>
                StagingKey(writer[w].seq) \notin Listed' \ Listed,
           \A w \in Writers : writer[w].pc = "record" /\ StagingKey(writer[w].seq) \in DOMAIN files
                => StagingKey(writer[w].seq) \in DOMAIN files',
           \A p \in Passes : ObjectsOf(InHand(p))' \subseteq ObjectsOf(InHand(p)) \cup Listed
    PROVE  WritersFresh'
<1>1. ASSUME NEW w \in Writers, writer[w].pc \in {"put", "record"}
      PROVE  Unknown(StagingKey(writer[w].seq))'
  BY <1>1 DEF WritersFresh, Unknown
<1>. QED BY <1>1 DEF WritersFresh

LEMMA StagingNamedKept ==
    ASSUME StagingNamed, nextSeq' = nextSeq, ListedStaging' \subseteq ListedStaging,
           \A p \in Passes : InHand(p)' \subseteq InHand(p) \cup ListedStaging
    PROVE  StagingNamed'
<1>1. \A m : StagingMeta(m)' <=> StagingMeta(m) BY DEF StagingMeta
<1>2. \A m \in ListedStaging : m.obj.kind = "staging" BY DEF ListedStaging
<1>. QED BY <1>1, <1>2 DEF StagingNamed

-----------------------------------------------------------------------------
(* Writers and clients                                                     *)

LEMMA BeginWriteSound ==
    ASSUME ManifestInv, TypeOK', NEW w \in Writers, NEW keys \in Batches, BeginWrite(w, keys)
    PROVE  ManifestInv'
<1>. DEFINE s == nextSeq + 1
<1>. USE DEF ManifestInv
<1>1. /\ UNCHANGED <<files, manifest, pass>> /\ nextSeq' = s /\ nextSeq \in Nat
      /\ writer' = [writer EXCEPT ![w] = [pc |-> FirstWrite, seq |-> s, keys |-> keys]]
  BY SizesAssumption DEF BeginWrite, TypeOK
<1>2. /\ writer'[w].pc = FirstWrite /\ writer'[w].seq = s
      /\ \A v \in Writers : v # w => writer'[v] = writer[v]
  BY <1>1 DEF TypeOK
<1>3. FirstWrite # "record" BY DEF FirstWrite
<1>4. /\ Listed' = Listed /\ ListedStaging' = ListedStaging
      /\ \A p \in Passes : InHand(p)' = InHand(p)
  BY <1>1 DEF Listed, ListedStaging, InHand
<1>5. \A m \in Meta : m.obj.seq \in Nat BY SizesAssumption DEF Meta, Object
<1>6. StagingNamed'
  <2>1. ASSUME NEW m \in Meta, StagingMeta(m) PROVE StagingMeta(m)'
    <3>1. m.obj.seq <= nextSeq /\ m.obj.seq \in Nat BY <1>5, <2>1 DEF StagingMeta
    <3>. QED BY <1>1, <2>1, <3>1 DEF StagingMeta
  <2>2. ListedStaging \subseteq Meta BY DEF ListedStaging, TypeOK
  <2>3. \A p \in Passes : InHand(p) \subseteq Meta BY PassTypes DEF InHand, PassType
  <2>. QED BY <1>4, <2>1, <2>2, <2>3 DEF StagingNamed
<1>7. Unknown(StagingKey(s))
  <2>1. StagingKey(s).kind = "staging" /\ StagingKey(s).seq = s BY DEF StagingKey
  <2>2. ASSUME NEW m \in Meta, StagingMeta(m) PROVE m.obj # StagingKey(s)
    <3>1. m.obj.seq <= nextSeq /\ m.obj.seq \in Nat BY <1>5, <2>2 DEF StagingMeta
    <3>. QED BY <1>1, <2>1, <3>1
  <2>3. StagingKey(s) \notin Listed
    <3>1. ASSUME NEW m \in manifest, m.obj = StagingKey(s) PROVE FALSE
      <4>1. m \in ListedStaging /\ m \in Meta BY <2>1, <3>1 DEF ListedStaging, TypeOK
      <4>. QED BY <2>2, <3>1, <4>1 DEF StagingNamed
    <3>. QED BY <3>1 DEF Listed
  <2>4. ASSUME NEW p \in Passes, NEW m \in InHand(p) PROVE m.obj # StagingKey(s)
    <3>1. m \in Meta BY <2>4, PassTypes DEF InHand, PassType
    <3>. QED BY <2>2, <2>4, <3>1 DEF StagingNamed
  <2>. QED BY <2>3, <2>4 DEF Unknown, ObjectsOf
<1>8. \A v \in Writers : writer[v].pc # "idle" =>
            writer[v].seq \in Nat /\ writer[v].seq <= nextSeq
  BY BusyWriter DEF WritersFresh
<1>9. WritersFresh'
  <2>1. \A v \in Writers : writer'[v].pc # "idle" => writer'[v].seq <= nextSeq'
    BY <1>1, <1>2, <1>8
  <2>2. \A u, v \in Writers :
            u # v /\ writer'[u].pc # "idle" /\ writer'[v].pc # "idle"
                => writer'[u].seq # writer'[v].seq
    BY <1>1, <1>2, <1>8 DEF WritersFresh
  <2>3. \A o : Unknown(o)' <=> Unknown(o) BY <1>4 DEF Unknown, ObjectsOf
  <2>4. \A v \in Writers :
            writer'[v].pc \in {"put", "record"} => Unknown(StagingKey(writer'[v].seq))
    BY <1>2, <1>7 DEF WritersFresh
  <2>5. \A v \in Writers :
            writer'[v].pc = "record" => StagingKey(writer'[v].seq) \in DOMAIN files
    BY <1>2, <1>3 DEF WritersFresh
  <2>. QED BY <1>1, <2>1, <2>2, <2>3, <2>4, <2>5 DEF WritersFresh
<1>10. PendingStored' BY <1>1 DEF PendingStored
<1>11. ManifestSound' BY <1>1, <1>4, SoundKept
<1>. QED BY <1>6, <1>9, <1>10, <1>11

(* Every other step of a client leaves numbers and passes alone.           *)
LEMMA PutStagingSound ==
    ASSUME ManifestInv, TypeOK', NEW w \in Writers, PutStaging(w) PROVE ManifestInv'
<1>. DEFINE key == StagingKey(writer[w].seq)
<1>. USE DEF ManifestInv
<1>1. /\ UNCHANGED <<manifest, pass, nextSeq>> /\ writer[w].pc = "put"
      /\ writer' = [writer EXCEPT ![w].pc = "record"]
      /\ DOMAIN files' = DOMAIN files \cup {key}
  BY WithFileStep DEF PutStaging
<1>2. /\ writer'[w].pc = "record" /\ writer'[w].seq = writer[w].seq
      /\ \A v \in Writers : v # w => writer'[v] = writer[v]
  BY <1>1, BusyWriter DEF TypeOK
<1>3. /\ Listed' = Listed /\ ListedStaging' = ListedStaging
      /\ \A p \in Passes : InHand(p)' = InHand(p)
  BY <1>1 DEF Listed, ListedStaging, InHand
<1>4. StagingNamed' BY <1>1, <1>3, StagingNamedKept
<1>5. WritersFresh'
  <2>1. \A o : Unknown(o)' <=> Unknown(o) BY <1>3 DEF Unknown, ObjectsOf
  <2>2. \A v \in Writers : writer'[v].seq = writer[v].seq
                        /\ (writer'[v].pc # "idle" => writer[v].pc # "idle")
    BY <1>1, <1>2
  <2>3. \A v \in Writers :
            writer'[v].pc \in {"put", "record"} => writer[v].pc \in {"put", "record"}
    BY <1>1, <1>2
  <2>4. \A v \in Writers :
            writer'[v].pc = "record" => StagingKey(writer'[v].seq) \in DOMAIN files'
    BY <1>1, <1>2 DEF WritersFresh
  <2>. QED BY <1>1, <2>1, <2>2, <2>3, <2>4 DEF WritersFresh
<1>6. PendingStored' BY <1>1 DEF PendingStored
<1>7. ManifestSound' BY <1>1, <1>3, SoundKept
<1>. QED BY <1>4, <1>5, <1>6, <1>7

LEMMA RecordStagingSound ==
    ASSUME ManifestInv, TypeOK', NEW w \in Writers, RecordStaging(w) PROVE ManifestInv'
<1>. DEFINE s == writer[w].seq
            key == StagingKey(s)
<1>. USE DEF ManifestInv
<1>1. /\ UNCHANGED <<files, pass, nextSeq>> /\ writer[w].pc = "record"
      /\ writer' = [writer EXCEPT ![w].pc = "upsert"]
  BY DEF RecordStaging
<1>2. PICK lo, hi : manifest' = Recorded([obj |-> key, lo |-> lo, hi |-> hi])
  BY DEF RecordStaging
<1>. DEFINE new == [obj |-> key, lo |-> lo, hi |-> hi]
<1>3. /\ writer'[w].pc = "upsert" /\ writer'[w].seq = s
      /\ \A v \in Writers : v # w => writer'[v] = writer[v]
  BY <1>1, BusyWriter DEF TypeOK
<1>4. key \in DOMAIN files /\ s <= nextSeq BY <1>1 DEF WritersFresh
<1>5. manifest' \subseteq manifest \cup {new} /\ new.obj = key BY <1>2 DEF Recorded
<1>6. key.seq = s BY DEF StagingKey
<1>7. \A p \in Passes : InHand(p)' = InHand(p) BY <1>1 DEF InHand
<1>8. StagingNamed'
  <2>1. StagingMeta(new) BY <1>4, <1>5, <1>6 DEF StagingMeta
  <2>. HIDE DEF new
  <2>2. ListedStaging' \subseteq ListedStaging \cup {new} BY <1>5 DEF ListedStaging
  <2>3. \A m : StagingMeta(m)' <=> StagingMeta(m) BY <1>1 DEF StagingMeta
  <2>. QED BY <1>7, <2>1, <2>2, <2>3 DEF StagingNamed
<1>9. Listed' \subseteq Listed \cup {key}
  <2>. HIDE DEF new, key
  <2>. QED BY <1>5 DEF Listed
<1>10. WritersFresh'
  <2>1. ASSUME NEW v \in Writers, v # w, writer[v].pc \in {"put", "record"}
        PROVE  Unknown(StagingKey(writer[v].seq))'
    <3>1. writer[v].seq # s BY <1>1, <2>1 DEF WritersFresh
    <3>2. StagingKey(writer[v].seq) # key BY <3>1, StagingKeysDiffer
    <3>3. Unknown(StagingKey(writer[v].seq)) BY <2>1 DEF WritersFresh
    <3>4. StagingKey(writer[v].seq) \notin Listed' BY <1>9, <3>2, <3>3 DEF Unknown
    <3>5. \A p \in Passes : ObjectsOf(InHand(p))' = ObjectsOf(InHand(p))
      BY <1>7 DEF ObjectsOf
    <3>6. writer'[v] = writer[v] BY <1>3, <2>1
    <3>. QED BY <3>3, <3>4, <3>5, <3>6 DEF Unknown
  <2>. QED BY <1>1, <1>3, <2>1 DEF WritersFresh
<1>11. PendingStored' BY <1>1 DEF PendingStored
<1>12. ManifestSound'
  <2>. HIDE DEF key
  <2>. QED BY <1>1, <1>4, <1>9, SoundKept
<1>. QED BY <1>8, <1>10, <1>11, <1>12

LEMMA WriterDoneSound ==
    ASSUME ManifestInv, TypeOK', NEW w \in Writers, UNCHANGED <<files, manifest, pass, nextSeq>>,
           writer' = [writer EXCEPT ![w] = IdleWriter]
    PROVE  ManifestInv'
<1>. USE DEF ManifestInv
<1>1. \A v \in Writers : writer'[v] = writer[v] \/ writer'[v].pc = "idle"
  BY DEF TypeOK, IdleWriter
<1>2. /\ Listed' = Listed /\ ListedStaging' = ListedStaging
      /\ \A p \in Passes : InHand(p)' = InHand(p)
  BY DEF Listed, ListedStaging, InHand
<1>3. StagingNamed' BY <1>2, StagingNamedKept
<1>4. WritersFresh'
  <2>1. \A o : Unknown(o)' <=> Unknown(o) BY <1>2 DEF Unknown, ObjectsOf
  <2>. QED BY <1>1, <2>1 DEF WritersFresh
<1>5. PendingStored' BY DEF PendingStored
<1>6. ManifestSound' BY <1>2, SoundKept
<1>. QED BY <1>3, <1>4, <1>5, <1>6

LEMMA NothingMovesSound ==
    ASSUME ManifestInv, TypeOK', UNCHANGED <<files, manifest, pass, nextSeq, writer>>
    PROVE  ManifestInv'
<1>. USE DEF ManifestInv
<1>1. /\ Listed' = Listed /\ ListedStaging' = ListedStaging
      /\ \A p \in Passes : InHand(p)' = InHand(p)
  BY DEF Listed, ListedStaging, InHand
<1>2. StagingNamed' BY <1>1, StagingNamedKept
<1>3. WritersFresh' BY <1>1 DEF WritersFresh, Unknown, ObjectsOf
<1>4. PendingStored' BY DEF PendingStored
<1>5. ManifestSound' BY <1>1, SoundKept
<1>. QED BY <1>2, <1>3, <1>4, <1>5

-----------------------------------------------------------------------------
(* Passes                                                                  *)

(* A step of a pass that keeps every object and does not forget: it takes  *)
(* in hand what it had or what is listed, lists an object that exists, and *)
(* what it will list exists.                                               *)
LEMMA PassStepSound ==
    ASSUME ManifestInv, TypeOK', NEW p \in Passes, UNCHANGED <<nextSeq, writer>>,
           \A q \in Passes : q # p => pass'[q] = pass[q],
           pass[p].pc # "forget",
           InHand(p)' \subseteq InHand(p) \cup ListedStaging,
           DOMAIN files \subseteq DOMAIN files',
           NEW new \in SUBSET DOMAIN files, \A o \in new : o.kind = "cold",
           Listed' \subseteq Listed \cup new, ListedStaging' \subseteq ListedStaging,
           pass'[p].pc = "record" => pass'[p].out.kind = "cold" /\ pass'[p].out \in DOMAIN files',
           pass'[p].pc = "recordExport" =>
                \A c \in pass'[p].left : IsLowest(c, pass'[p].left)
                    => ColdKey(DayOf(c), 0) \in DOMAIN files'
    PROVE  ManifestInv'
<1>. USE DEF ManifestInv
<1>1. \A q \in Passes : InHand(q)' \subseteq InHand(q) \cup ListedStaging BY DEF InHand
<1>2. StagingNamed' BY <1>1, StagingNamedKept
<1>3. WritersFresh'
  <2>1. \A q \in Passes : ObjectsOf(InHand(q))' \subseteq ObjectsOf(InHand(q)) \cup Listed
    BY <1>1 DEF ObjectsOf, ListedStaging, Listed
  <2>2. \A s : StagingKey(s) \notin Listed' \ Listed BY ColdIsNotStaging
  <2>. QED BY <2>1, <2>2, WritersFreshKept
<1>4. PendingStored' BY DEF PendingStored
<1>5. ManifestSound'
  <2>1. Listed' \subseteq Listed \cup DOMAIN files' OBVIOUS
  <2>. QED BY <2>1, SoundKept
<1>. QED BY <1>2, <1>3, <1>4, <1>5

(* The steps that leave objects and manifest alone.                        *)
LEMMA QuietPassSound ==
    ASSUME ManifestInv, TypeOK', NEW p \in Passes,
           UNCHANGED <<files, manifest, nextSeq, writer>>,
           \A q \in Passes : q # p => pass'[q] = pass[q],
           pass[p].pc # "forget", pass'[p].pc \notin {"record", "recordExport"},
           InHand(p)' \subseteq InHand(p) \cup ListedStaging
    PROVE  ManifestInv'
<1>1. Listed' = Listed /\ ListedStaging' = ListedStaging BY DEF Listed, ListedStaging
<1>2. {} \in SUBSET DOMAIN files OBVIOUS
<1>. QED BY <1>1, <1>2, PassStepSound

LEMMA QuietPassSteps ==
    ASSUME ManifestInv, TypeOK', NoneForgetsHalfway, NEW p \in Passes,
           \/ ListStaging(p)
           \/ CompactFails(p)
           \/ InterruptPass(p)
           \/ \E cutoff : ListChunks(p, cutoff)
           \/ ListIntervals(p)
           \/ pass[p].pc \in {"evict", "drop"} /\ \E c : DropChunk(p, c)
    PROVE  ManifestInv'
<1>. USE DEF ManifestInv
<1>0. pass \in [Passes -> PassType] BY PassTypes
<1>1. ASSUME pass' = [pass EXCEPT ![p] = IdlePass], pass[p].pc # "forget",
             UNCHANGED <<files, manifest, nextSeq, writer>>
      PROVE  ManifestInv'
  BY <1>0, <1>1, QuietPassSound DEF IdlePass, InHand
<1>2. CASE ListStaging(p)
  <2>1. /\ pass'[p].pc = "compact" /\ pass'[p].todo = ListedStaging /\ pass'[p].objs = {}
        /\ pass[p].pc = "idle" /\ UNCHANGED <<files, manifest, nextSeq, writer>>
        /\ \A q \in Passes : q # p => pass'[q] = pass[q]
    BY <1>0, <1>2 DEF ListStaging, ListedStaging, IdlePass
  <2>2. InHand(p)' \subseteq InHand(p) \cup ListedStaging BY <2>1 DEF InHand
  <2>. QED BY <2>1, <2>2, QuietPassSound
<1>3. CASE CompactFails(p) BY <1>1, <1>3 DEF CompactFails
<1>4. CASE InterruptPass(p)
  <2>1. pass[p].pc # "forget" BY <1>4 DEF InterruptPass, NoneForgetsHalfway
  <2>. QED BY <1>1, <1>4, <2>1 DEF InterruptPass
<1>5. ASSUME NEW cutoff, ListChunks(p, cutoff) PROVE ManifestInv'
  <2>1. /\ pass'[p].pc \in {"idle", "intervals"} /\ pass'[p].todo = {} /\ pass'[p].objs = {}
        /\ pass[p].pc = "compact" /\ UNCHANGED <<files, manifest, nextSeq, writer>>
        /\ \A q \in Passes : q # p => pass'[q] = pass[q]
    BY <1>0, <1>5 DEF ListChunks, IdlePass
  <2>2. InHand(p)' \subseteq InHand(p) \cup ListedStaging BY <2>1 DEF InHand
  <2>. QED BY <2>1, <2>2, QuietPassSound
<1>6. CASE ListIntervals(p)
  <2>1. /\ pass'[p].pc = "evict" /\ pass'[p].todo = pass[p].todo /\ pass'[p].objs = pass[p].objs
        /\ pass[p].pc = "intervals" /\ UNCHANGED <<files, manifest, nextSeq, writer>>
        /\ \A q \in Passes : q # p => pass'[q] = pass[q]
    BY <1>0, <1>6 DEF ListIntervals
  <2>2. InHand(p)' \subseteq InHand(p) \cup ListedStaging BY <2>1 DEF InHand
  <2>. QED BY <2>1, <2>2, QuietPassSound
<1>7. ASSUME NEW c, DropChunk(p, c), pass[p].pc \in {"evict", "drop"} PROVE ManifestInv'
  <2>0. /\ UNCHANGED <<files, manifest, nextSeq, writer>>
        /\ pass' = [pass EXCEPT ![p].pc = NextEvict(pass[p].left \ {c}), ![p].left = @ \ {c}]
    BY <1>7 DEF DropChunk
  <2>1. /\ pass'[p].pc \in {"idle", "evict"}
        /\ pass'[p].todo = pass[p].todo /\ pass'[p].objs = pass[p].objs
        /\ \A q \in Passes : q # p => pass'[q] = pass[q]
    BY <1>0, <2>0 DEF NextEvict, PassType
  <2>2. InHand(p)' \subseteq InHand(p) \cup ListedStaging BY <2>1 DEF InHand
  <2>3. pass[p].pc # "forget" BY <1>7
  <2>. QED BY <2>0, <2>1, <2>2, <2>3, QuietPassSound
<1>. QED BY <1>2, <1>3, <1>4, <1>5, <1>6, <1>7

LEMMA CompactSound ==
    ASSUME ManifestInv, TypeOK', NEW p \in Passes, Compact(p) PROVE ManifestInv'
<1>. USE DEF ManifestInv
<1>0. pass \in [Passes -> PassType] BY PassTypes
<1>1. PICK first \in pass[p].todo, s \in 0..MaxSeq :
        LET group == GroupOf(first, pass[p].todo)
            out == ColdKey(DayOf(first.lo), s)
        IN  /\ files' = WithFile(out, Dedup(RowsOf(ObjectsOf(group))))
            /\ pass' = [pass EXCEPT ![p].pc = "record", ![p].todo = @ \ group,
                                    ![p].objs = group, ![p].out = out]
  BY DEF Compact
<1>. DEFINE group == GroupOf(first, pass[p].todo)
            out == ColdKey(DayOf(first.lo), s)
<1>2. /\ DOMAIN files' = DOMAIN files \cup {out} BY <1>1, WithFileStep
<1>3. /\ pass'[p].pc = "record" /\ pass'[p].out = out
      /\ pass'[p].todo = pass[p].todo \ group /\ pass'[p].objs = group
      /\ \A q \in Passes : q # p => pass'[q] = pass[q]
  BY <1>0, <1>1
<1>4. group \subseteq pass[p].todo BY DEF GroupOf
<1>5. out.kind = "cold" BY DEF ColdKey
<1>. HIDE DEF group, out
<1>6. pass[p].pc # "forget" /\ UNCHANGED <<manifest, nextSeq, writer>> BY DEF Compact
<1>7. Listed' = Listed /\ ListedStaging' = ListedStaging BY <1>6 DEF Listed, ListedStaging
<1>8. InHand(p)' \subseteq InHand(p) \cup ListedStaging BY <1>3, <1>4 DEF InHand
<1>9. {} \in SUBSET DOMAIN files OBVIOUS
<1>. QED BY <1>2, <1>3, <1>5, <1>6, <1>7, <1>8, <1>9, PassStepSound

LEMMA ExportChunkSound ==
    ASSUME ManifestInv, TypeOK', NEW p \in Passes, ExportChunk(p) PROVE ManifestInv'
<1>. USE DEF ManifestInv
<1>0. pass \in [Passes -> PassType] BY PassTypes
<1>1. PICK c \in pass[p].left :
            /\ IsLowest(c, pass[p].left)
            /\ files' = WithFile(ColdKey(DayOf(c), 0), HotRows(KeysOfChunk(c)))
  BY DEF ExportChunk
<1>2. DOMAIN files' = DOMAIN files \cup {ColdKey(DayOf(c), 0)} BY <1>1, WithFileStep
<1>3. /\ pass[p].pc = "evict" /\ pass'[p].pc = "recordExport"
      /\ pass'[p].left = pass[p].left
      /\ pass'[p].todo = pass[p].todo /\ pass'[p].objs = pass[p].objs
      /\ \A q \in Passes : q # p => pass'[q] = pass[q]
      /\ UNCHANGED <<manifest, nextSeq, writer>>
  BY <1>0 DEF ExportChunk
<1>4. Listed' = Listed /\ ListedStaging' = ListedStaging BY <1>3 DEF Listed, ListedStaging
<1>5. InHand(p)' \subseteq InHand(p) \cup ListedStaging BY <1>3 DEF InHand
<1>6. ASSUME NEW d \in pass'[p].left, IsLowest(d, pass'[p].left)
      PROVE  ColdKey(DayOf(d), 0) \in DOMAIN files'
  <2>1. pass[p].left \subseteq Nat BY <1>0 DEF PassType
  <2>2. c \in Nat /\ d \in Nat /\ c <= d /\ d <= c BY <1>1, <1>3, <1>6, <2>1 DEF IsLowest
  <2>3. d = c BY <2>2
  <2>. QED BY <1>2, <2>3
<1>7. {} \in SUBSET DOMAIN files OBVIOUS
<1>. QED BY <1>2, <1>3, <1>4, <1>5, <1>6, <1>7, PassStepSound

(* Listing an object that is no staging object.                            *)
LEMMA RecordedColdSound ==
    ASSUME NEW o, o.kind = "cold", NEW lo, NEW hi,
           manifest' = Recorded([obj |-> o, lo |-> lo, hi |-> hi])
    PROVE  Listed' \subseteq Listed \cup {o} /\ ListedStaging' \subseteq ListedStaging
<1>. DEFINE new == [obj |-> o, lo |-> lo, hi |-> hi]
<1>1. manifest' \subseteq manifest \cup {new} /\ new.obj = o BY DEF Recorded
<1>. HIDE DEF new
<1>. QED BY <1>1 DEF Listed, ListedStaging

LEMMA RecordColdSound ==
    ASSUME ManifestInv, TypeOK', NEW p \in Passes, RecordCold(p) PROVE ManifestInv'
<1>. USE DEF ManifestInv
<1>0. pass \in [Passes -> PassType] BY PassTypes
<1>1. PICK lo, hi : manifest' = Recorded([obj |-> pass[p].out, lo |-> lo, hi |-> hi])
  BY DEF RecordCold
<1>2. /\ pass[p].pc = "record" /\ pass'[p].pc = "delete"
      /\ pass'[p].todo = pass[p].todo /\ pass'[p].objs = pass[p].objs
      /\ \A q \in Passes : q # p => pass'[q] = pass[q]
      /\ UNCHANGED <<files, nextSeq, writer>>
  BY <1>0 DEF RecordCold
<1>3. pass[p].out.kind = "cold" /\ pass[p].out \in DOMAIN files BY <1>2 DEF PendingStored
<1>4. Listed' \subseteq Listed \cup {pass[p].out} /\ ListedStaging' \subseteq ListedStaging
  BY <1>1, <1>3, RecordedColdSound
<1>5. InHand(p)' \subseteq InHand(p) \cup ListedStaging BY <1>2 DEF InHand
<1>6. {pass[p].out} \in SUBSET DOMAIN files BY <1>3
<1>7. DOMAIN files \subseteq DOMAIN files' BY <1>2
<1>8. pass[p].pc # "forget" /\ pass'[p].pc # "record" /\ pass'[p].pc # "recordExport" BY <1>2
<1>9. \A o \in {pass[p].out} : o.kind = "cold" BY <1>3
<1>10. UNCHANGED <<nextSeq, writer>> BY <1>2
<1>. QED BY <1>2, <1>4, <1>5, <1>6, <1>7, <1>8, <1>9, <1>10, PassStepSound

LEMMA RecordExportSound ==
    ASSUME ManifestInv, TypeOK', NEW p \in Passes, RecordExport(p) PROVE ManifestInv'
<1>. USE DEF ManifestInv
<1>0. pass \in [Passes -> PassType] BY PassTypes
<1>1. PICK c \in pass[p].left :
            /\ IsLowest(c, pass[p].left)
            /\ manifest' = Recorded([obj |-> ColdKey(DayOf(c), 0), lo |-> c, hi |-> c + ChunkLen])
  BY DEF RecordExport
<1>. DEFINE o == ColdKey(DayOf(c), 0)
<1>2. /\ pass[p].pc = "recordExport" /\ pass'[p].pc = "drop"
      /\ pass'[p].todo = pass[p].todo /\ pass'[p].objs = pass[p].objs
      /\ \A q \in Passes : q # p => pass'[q] = pass[q]
      /\ UNCHANGED <<files, nextSeq, writer>>
  BY <1>0 DEF RecordExport
<1>3. o.kind = "cold" /\ o \in DOMAIN files BY <1>1, <1>2 DEF PendingStored, ColdKey
<1>4. Listed' \subseteq Listed \cup {o} /\ ListedStaging' \subseteq ListedStaging
  BY <1>1, <1>3, RecordedColdSound
<1>. HIDE DEF o
<1>5. InHand(p)' \subseteq InHand(p) \cup ListedStaging BY <1>2 DEF InHand
<1>6. {o} \in SUBSET DOMAIN files BY <1>3
<1>7. DOMAIN files \subseteq DOMAIN files' BY <1>2
<1>8. pass[p].pc # "forget" /\ pass'[p].pc # "record" /\ pass'[p].pc # "recordExport" BY <1>2
<1>9. \A x \in {o} : x.kind = "cold" BY <1>3
<1>10. UNCHANGED <<nextSeq, writer>> BY <1>2
<1>. QED BY <1>2, <1>4, <1>5, <1>6, <1>7, <1>8, <1>9, <1>10, PassStepSound

-----------------------------------------------------------------------------
(* Deleting and forgetting                                                 *)

(* In hand, equally early means the same object.                           *)
LEMMA EarliestObject ==
    ASSUME ManifestInv, NEW p \in Passes,
           NEW m, IsEarliest(m, pass[p].objs), NEW n, IsEarliest(n, pass[p].objs)
    PROVE  m.obj = n.obj
<1>. USE DEF ManifestInv
<1>1. m \in pass[p].objs /\ n \in pass[p].objs /\ pass[p].objs \subseteq Meta
  BY PassTypes DEF IsEarliest, PassType
<1>2. m.obj = StagingKey(m.obj.seq) /\ n.obj = StagingKey(n.obj.seq)
  BY <1>1 DEF StagingNamed, StagingMeta, InHand
<1>3. /\ m.lo \in Nat /\ n.lo \in Nat /\ m.obj.seq \in Nat /\ n.obj.seq \in Nat
  BY <1>1, SizesAssumption DEF Meta, Object
<1>4. /\ m.lo < n.lo \/ (m.lo = n.lo /\ m.obj.seq <= n.obj.seq)
      /\ n.lo < m.lo \/ (n.lo = m.lo /\ n.obj.seq <= m.obj.seq)
  BY <1>1 DEF IsEarliest
<1>5. m.obj.seq = n.obj.seq BY <1>3, <1>4
<1>. QED BY <1>2, <1>5

LEMMA DeleteStagingSound ==
    ASSUME ManifestInv, TypeOK', NEW p \in Passes, DeleteStaging(p) PROVE ManifestInv'
<1>. USE DEF ManifestInv
<1>0. pass \in [Passes -> PassType] BY PassTypes
<1>1. PICK m \in pass[p].objs : IsEarliest(m, pass[p].objs) /\ files' = WithoutFile(m.obj)
  BY DEF DeleteStaging
<1>2. /\ pass[p].pc = "delete" /\ pass'[p].pc = "forget"
      /\ pass'[p].todo = pass[p].todo /\ pass'[p].objs = pass[p].objs
      /\ \A q \in Passes : q # p => pass'[q] = pass[q]
      /\ UNCHANGED <<manifest, nextSeq, writer>>
  BY <1>0 DEF DeleteStaging
<1>3. DOMAIN files' = DOMAIN files \ {m.obj} BY <1>1, WithoutFileStep
<1>4. /\ Listed' = Listed /\ ListedStaging' = ListedStaging
      /\ \A q \in Passes : InHand(q)' = InHand(q)
  BY <1>2 DEF Listed, ListedStaging, InHand
<1>5. m \in InHand(p) /\ m.obj.kind = "staging" BY <1>1 DEF InHand, StagingNamed
<1>6. StagingNamed' BY <1>2, <1>4, StagingNamedKept
<1>7. WritersFresh'
  <2>1. \A w \in Writers : writer[w].pc = "record" => StagingKey(writer[w].seq) # m.obj
    BY <1>5 DEF WritersFresh, Unknown, ObjectsOf
  <2>2. \A q \in Passes : ObjectsOf(InHand(q))' = ObjectsOf(InHand(q))
    BY <1>4 DEF ObjectsOf
  <2>. QED BY <1>2, <1>3, <1>4, <2>1, <2>2, WritersFreshKept
<1>8. PendingStored'
  <2>1. \A o \in DOMAIN files : o.kind = "cold" => o \in DOMAIN files' BY <1>3, <1>5
  <2>2. \A d : ColdKey(d, 0).kind = "cold" BY DEF ColdKey
  <2>3. ASSUME NEW q \in Passes, q # p, pass[q].pc = "recordExport",
               NEW c \in pass[q].left, IsLowest(c, pass[q].left)
        PROVE  ColdKey(DayOf(c), 0) \in DOMAIN files'
    BY <2>1, <2>2, <2>3 DEF PendingStored
  <2>4. ASSUME NEW q \in Passes, q # p, pass[q].pc = "record"
        PROVE  pass[q].out.kind = "cold" /\ pass[q].out \in DOMAIN files'
    BY <2>1, <2>4 DEF PendingStored
  <2>. QED BY <1>2, <2>3, <2>4 DEF PendingStored
<1>9. ManifestSound'
  <2>1. ASSUME NEW o \in Listed' \ DOMAIN files' PROVE \E q \in Passes : Forgetting(q, o)'
    <3>1. CASE o = m.obj BY <1>1, <1>2, <3>1 DEF Forgetting
    <3>2. CASE o # m.obj
      <4>1. o \in Listed \ DOMAIN files BY <1>3, <1>4, <2>1, <3>2
      <4>2. PICK q \in Passes : Forgetting(q, o) BY <4>1, SoundByForgetting
      <4>3. q # p /\ pass'[q] = pass[q] BY <1>2, <4>2 DEF Forgetting
      <4>. QED BY <4>2, <4>3 DEF Forgetting
    <3>. QED BY <3>1, <3>2
  <2>. QED BY <2>1 DEF ManifestSound, Forgetting
<1>. QED BY <1>6, <1>7, <1>8, <1>9

LEMMA ForgetStagingSound ==
    ASSUME ManifestInv, TypeOK', NEW p \in Passes, ForgetStaging(p) PROVE ManifestInv'
<1>. USE DEF ManifestInv
<1>0. pass \in [Passes -> PassType] BY PassTypes
<1>1. PICK m \in pass[p].objs :
            /\ IsEarliest(m, pass[p].objs)
            /\ manifest' = Forgotten(m.obj)
            /\ pass' = [pass EXCEPT ![p].pc = AfterForget(pass[p].objs \ {m}),
                                    ![p].objs = @ \ {m}]
  BY DEF ForgetStaging
<1>2. /\ pass[p].pc = "forget" /\ pass'[p].pc \in {"compact", "delete"}
      /\ pass'[p].todo = pass[p].todo /\ pass'[p].objs = pass[p].objs \ {m}
      /\ \A q \in Passes : q # p => pass'[q] = pass[q]
      /\ UNCHANGED <<files, nextSeq, writer>>
  BY <1>0, <1>1 DEF ForgetStaging, AfterForget, PassType
<1>3. /\ Listed' = Listed \ {m.obj} /\ ListedStaging' \subseteq ListedStaging
      /\ \A q \in Passes : InHand(q)' \subseteq InHand(q)
  BY <1>1, <1>2 DEF Listed, ListedStaging, InHand, Forgotten
<1>4. StagingNamed' BY <1>2, <1>3, StagingNamedKept
<1>5. WritersFresh'
  <2>1. \A q \in Passes : ObjectsOf(InHand(q))' \subseteq ObjectsOf(InHand(q))
    BY <1>3 DEF ObjectsOf
  <2>. QED BY <1>2, <1>3, <2>1, WritersFreshKept
<1>6. PendingStored' BY <1>2 DEF PendingStored
<1>7. ManifestSound'
  <2>1. ASSUME NEW o \in Listed' \ DOMAIN files' PROVE \E q \in Passes : Forgetting(q, o)'
    <3>1. o \in Listed \ DOMAIN files /\ o # m.obj BY <1>2, <1>3, <2>1
    <3>2. PICK q \in Passes : Forgetting(q, o) BY <3>1, SoundByForgetting
    <3>3. q # p
      <4>1. SUFFICES ASSUME q = p PROVE FALSE OBVIOUS
      <4>2. PICK n \in pass[p].objs : n.obj = o /\ IsEarliest(n, pass[p].objs)
        BY <3>2, <4>1 DEF Forgetting
      <4>3. n.obj = m.obj BY <1>1, <4>2, EarliestObject
      <4>. QED BY <3>1, <4>2, <4>3
    <3>4. pass'[q] = pass[q] BY <1>2, <3>3
    <3>. QED BY <3>2, <3>4 DEF Forgetting
  <2>. QED BY <2>1 DEF ManifestSound, Forgetting
<1>. QED BY <1>4, <1>5, <1>6, <1>7

-----------------------------------------------------------------------------
(* The theorems                                                            *)

LEMMA ManifestInvInit == Init => ManifestInv
<1>. SUFFICES ASSUME Init PROVE ManifestInv OBVIOUS
<1>1. Listed = {} /\ ListedStaging = {} BY DEF Init, Listed, ListedStaging
<1>2. \A w \in Writers : writer[w].pc = "idle" BY DEF Init, IdleWriter
<1>3. \A p \in Passes : pass[p].pc = "idle" /\ InHand(p) = {} BY DEF Init, IdlePass, InHand
<1>4. StagingNamed BY <1>1, <1>3 DEF StagingNamed
<1>5. WritersFresh BY <1>2 DEF WritersFresh
<1>6. PendingStored BY <1>3 DEF PendingStored
<1>7. ManifestSound BY <1>1 DEF ManifestSound
<1>. QED BY <1>4, <1>5, <1>6, <1>7, TypeInit DEF ManifestInv

LEMMA ManifestInvNext ==
    ASSUME NoneForgetsHalfway PROVE ManifestInv /\ [Next]_vars => ManifestInv'
<1>. SUFFICES ASSUME ManifestInv, [Next]_vars PROVE ManifestInv' OBVIOUS
<1>0. TypeOK' BY TypeNext DEF ManifestInv
<1>1. ASSUME NEW w \in Writers, WriterNext(w) PROVE ManifestInv'
  <2>1. CASE UpsertHot(w) \/ FailWrite(w)
    BY <1>0, <2>1, WriterDoneSound DEF UpsertHot, FailWrite
  <2>. QED BY <1>0, <1>1, <2>1, BeginWriteSound, PutStagingSound, RecordStagingSound
       DEF WriterNext
<1>2. ASSUME NEW tags, NEW lo, NEW hi, DeleteRows(tags, lo, hi) PROVE ManifestInv'
  BY <1>0, <1>2, NothingMovesSound DEF DeleteRows
<1>3. ASSUME NEW p \in Passes, PassStep(p) \/ CompactFails(p) \/ InterruptPass(p)
      PROVE  ManifestInv'
  <2>1. CASE EvictCovered(p) \/ DropExported(p)
    BY <1>0, <2>1, QuietPassSteps DEF EvictCovered, DropExported
  <2>2. CASE \/ ListStaging(p) \/ CompactFails(p) \/ InterruptPass(p)
             \/ (\E cutoff \in 0..(MaxTime + ChunkLen) : ListChunks(p, cutoff))
             \/ ListIntervals(p)
    BY <1>0, <2>2, QuietPassSteps
  <2>3. CASE Compact(p) \/ ExportChunk(p) \/ RecordCold(p) \/ RecordExport(p)
    BY <1>0, <2>3, CompactSound, ExportChunkSound, RecordColdSound, RecordExportSound
  <2>4. CASE DeleteStaging(p) \/ ForgetStaging(p)
    BY <1>0, <2>4, DeleteStagingSound, ForgetStagingSound
  <2>. QED BY <1>3, <2>1, <2>2, <2>3, <2>4 DEF PassStep
<1>4. ASSUME UNCHANGED vars PROVE ManifestInv'
  <2>1. UNCHANGED <<files, manifest, pass, nextSeq, writer>> BY <1>4 DEF vars
  <2>. QED BY <1>0, <2>1, NothingMovesSound
<1>. QED BY <1>1, <1>2, <1>3, <1>4 DEF Next

(* Whatever mode the store runs in and however passes of several processes *)
(* overlap and stop, a writer's staging objects are listed under their own *)
(* names and a pass holds in hand what the manifest still needs, provided  *)
(* no pass stops halfway through the delete loop of compact_once.          *)
THEOREM ManifestInvariant == ASSUME NoneForgetsHalfway PROVE Spec => []ManifestInv
<1>1. ManifestInv /\ [Next]_vars => ManifestInv' BY ManifestInvNext
<1>. QED BY ManifestInvInit, <1>1, PTL DEF Spec

(* In every mode an object the manifest lists is there to be read, except  *)
(* the one a pass has deleted and forgets next (compact_once,              *)
(* ColdStore.delete_object and forget).                                    *)
THEOREM ManifestIsSound == ASSUME NoneForgetsHalfway PROVE Spec => []ManifestSound
<1>1. ManifestInv => ManifestSound BY DEF ManifestInv
<1>. QED BY ManifestInvariant, <1>1, PTL
====
