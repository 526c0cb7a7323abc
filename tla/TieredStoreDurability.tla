---- MODULE TieredStoreDurability ----
(***************************************************************************)
(* In the safe regime no acknowledged row is ever missing from cold: the   *)
(* proof that IInv of TieredStoreInv is inductive.  The argument: a row    *)
(* that counts is held by a solid object; a step either leaves the solid   *)
(* objects and their rows alone or replaces one by an object that has      *)
(* every row of it, as new or newer (SolidKept); and a row enters the      *)
(* hypertable or is acknowledged only when a solid object holds it.  The   *)
(* second part shows that the store implements VersionStore.               *)
(***************************************************************************)
EXTENDS TieredStoreProofs

-----------------------------------------------------------------------------
(* Steps that keep what the solid objects hold                             *)

SolidKept ==
    \A o \in Solid : \A r \in files[o] :
        \E u \in Solid' : \E q \in files'[u] : q.key = r.key /\ r.seq <= q.seq

LEMMA RowTypes ==
    ASSUME TypeOK, NEW o \in DOMAIN files, NEW r \in files[o]
    PROVE  r.key \in Key /\ r.seq \in Nat
BY SizesAssumption DEF TypeOK, Row

LEMMA SolidStored == \A o \in Solid : o \in DOMAIN files /\ o \in Listed
BY DEF Solid

LEMMA SolidGrowsKept ==
    ASSUME TypeOK, Solid \subseteq Solid', \A o \in Solid : files'[o] = files[o]
    PROVE  SolidKept
<1>. SUFFICES ASSUME NEW o \in Solid, NEW r \in files[o]
              PROVE  \E u \in Solid' : \E q \in files'[u] : q.key = r.key /\ r.seq <= q.seq
  BY DEF SolidKept
<1>1. r.seq \in Nat BY SolidStored, RowTypes
<1>2. o \in Solid' /\ r \in files'[o] OBVIOUS
<1>3. r.seq <= r.seq BY <1>1
<1>. QED BY <1>2, <1>3

(* Held(k, s)', with s taken in the first state.                           *)
HeldNext(k, s) == \E u \in Solid' : \E q \in files'[u] : q.key = k /\ s <= q.seq

LEMMA HeldKept ==
    ASSUME TypeOK, TypeOK', SolidKept, NEW k, NEW s \in Nat, Held(k, s)
    PROVE  HeldNext(k, s)
<1>1. PICK o \in Solid : \E r \in files[o] : r.key = k /\ s <= r.seq BY DEF Held
<1>2. PICK r \in files[o] : r.key = k /\ s <= r.seq BY <1>1
<1>3. PICK u \in Solid' : \E q \in files'[u] : q.key = r.key /\ r.seq <= q.seq
  BY <1>2 DEF SolidKept
<1>4. PICK q \in files'[u] : q.key = r.key /\ r.seq <= q.seq BY <1>3
<1>5. r.seq \in Nat BY <1>2, SolidStored, RowTypes
<1>6. q.seq \in Nat
  <2>1. u \in DOMAIN files' BY <1>3 DEF Solid
  <2>. QED BY <2>1, <1>4, SizesAssumption DEF TypeOK, Row
<1>7. s <= q.seq BY <1>2, <1>4, <1>5, <1>6
<1>. QED BY <1>2, <1>3, <1>4, <1>7 DEF HeldNext

AllHeld == HotHeld /\ AckedHeld /\ WrittenHeld

LEMMA WriterTypes ==
    ASSUME TypeOK, NEW w \in Writers
    PROVE  /\ writer[w] = IdleWriter \/ writer[w].pc \in {"put", "record", "upsert"}
           /\ writer[w].pc # "idle" =>
                /\ writer[w].seq \in 1..MaxSeq
                /\ writer[w].seq \in Nat
                /\ writer[w].keys \in SUBSET Key
                /\ writer[w].keys # {}
BY BatchesAssumption, SizesAssumption DEF TypeOK, IdleWriter

(* A step that keeps the solid rows and puts nothing new into the          *)
(* hypertable, the acknowledgements and the writers about to upsert.       *)
LEMMA AllHeldKept ==
    ASSUME TypeOK, TypeOK', SolidKept, AllHeld,
           \A k \in Key : hot'[k] = hot[k] \/ hot'[k] = 0,
           \A k \in Key : acked'[k] = acked[k] \/ acked'[k] = 0,
           \A w \in Writers : writer'[w].pc = "upsert" => writer'[w] = writer[w]
    PROVE  AllHeld'
<1>1. HotHeld'
  <2>1. ASSUME NEW k \in Key, hot'[k] # 0 PROVE HeldNext(k, hot'[k])
    <3>1. hot'[k] = hot[k] /\ hot[k] # 0 /\ hot[k] \in Nat
      BY <2>1, SizesAssumption DEF TypeOK
    <3>2. Held(k, hot[k]) BY <3>1 DEF AllHeld, HotHeld
    <3>. QED BY <3>1, <3>2, HeldKept
  <2>. QED BY <2>1 DEF HotHeld, Held, HeldNext
<1>2. AckedHeld'
  <2>1. ASSUME NEW k \in Key, acked'[k] # 0 PROVE HeldNext(k, acked'[k])
    <3>1. acked'[k] = acked[k] /\ acked[k] # 0 /\ acked[k] \in Nat
      BY <2>1, SizesAssumption DEF TypeOK
    <3>2. Held(k, acked[k]) BY <3>1 DEF AllHeld, AckedHeld
    <3>. QED BY <3>1, <3>2, HeldKept
  <2>. QED BY <2>1 DEF AckedHeld, Held, HeldNext
<1>3. WrittenHeld'
  <2>1. ASSUME NEW w \in Writers, writer'[w].pc = "upsert", NEW k \in writer'[w].keys
        PROVE  HeldNext(k, writer'[w].seq)
    <3>1. writer'[w] = writer[w] /\ writer[w].pc = "upsert" /\ writer[w].seq \in Nat
      BY <2>1, WriterTypes
    <3>2. Held(k, writer[w].seq) BY <2>1, <3>1 DEF AllHeld, WrittenHeld
    <3>. QED BY <3>1, <3>2, HeldKept
  <2>. QED BY <2>1 DEF WrittenHeld, Held, HeldNext
<1>. QED BY <1>1, <1>2, <1>3 DEF AllHeld

-----------------------------------------------------------------------------
(* Steps of the clients                                                    *)

Struct == ManifestKeyed /\ SeqsUsed /\ Unrecorded /\ PassSound

LEMMA SolidKeptSame ==
    ASSUME TypeOK, UNCHANGED <<files, manifest, pass>> PROVE SolidKept
<1>1. Solid' = Solid BY DEF Solid, Listed, Merging
<1>. QED BY <1>1, SolidGrowsKept

LEMMA PassSoundSame ==
    ASSUME PassSound, UNCHANGED <<files, manifest, pass>> PROVE PassSound'
BY DEF PassSound, Merged, ListedStaging, ObjectsOf, Listed

LEMMA BeginWriteKeeps ==
    ASSUME IInv, TypeOK', SafeRegime, NEW w \in Writers, NEW keys \in Batches,
           BeginWrite(w, keys)
    PROVE  IInv' /\ SolidKept
<1>. USE DEF IInv
<1>1. /\ UNCHANGED <<files, manifest, pass, hot, acked>>
      /\ nextSeq' = nextSeq + 1 /\ nextSeq \in Nat
      /\ writer' = [writer EXCEPT ![w] = [pc |-> "put", seq |-> nextSeq + 1, keys |-> keys]]
  BY SizesAssumption DEF BeginWrite, FirstWrite, SafeRegime, TypeOK
<1>2. \A v \in Writers : v # w => writer'[v] = writer[v]
  BY <1>1 DEF TypeOK
<1>3. /\ writer'[w].pc = "put" /\ writer'[w].seq = nextSeq + 1
  BY <1>1 DEF TypeOK
<1>4. ManifestKeyed' BY <1>1 DEF ManifestKeyed
<1>5. \A o \in Listed \cup DOMAIN files : o.seq \in Nat /\ o.seq <= nextSeq
  <2>1. \A o \in Object : o.seq \in Nat BY SizesAssumption DEF Object
  <2>2. Listed \cup DOMAIN files \subseteq Object BY DEF TypeOK, Listed, Meta
  <2>. QED BY <2>1, <2>2 DEF SeqsUsed
<1>6. SeqsUsed'
  <2>1. \A o \in Listed' \cup DOMAIN files' : o.seq <= nextSeq'
    BY <1>1, <1>5 DEF Listed
  <2>2. \A v \in Writers : writer[v].pc # "idle" => writer[v].seq \in 1..nextSeq
    BY DEF SeqsUsed
  <2>3. \A v \in Writers : writer'[v].pc # "idle" => writer'[v].seq \in 1..nextSeq'
    BY <1>1, <1>2, <1>3, <2>2
  <2>4. \A u, v \in Writers :
            u # v /\ writer'[u].pc # "idle" /\ writer'[v].pc # "idle"
                => writer'[u].seq # writer'[v].seq
    BY <1>1, <1>2, <1>3, <2>2 DEF SeqsUsed
  <2>. QED BY <2>1, <2>3, <2>4 DEF SeqsUsed
<1>7. Unrecorded'
  <2>1. StagingKey(nextSeq + 1) \notin Listed
    <3>1. StagingKey(nextSeq + 1).seq = nextSeq + 1 BY DEF StagingKey
    <3>. QED BY <1>1, <1>5, <3>1
  <2>2. \A o \in Listed \cup DOMAIN files : o.seq # nextSeq + 1 BY <1>1, <1>5
  <2>. QED BY <1>1, <1>2, <1>3, <2>1, <2>2 DEF Unrecorded, Listed
<1>8. PassSound' BY <1>1, PassSoundSame
<1>9. AllHeld'
  <2>1. AllHeld BY DEF AllHeld
  <2>2. \A v \in Writers : writer'[v].pc = "upsert" => writer'[v] = writer[v]
    BY <1>2, <1>3
  <2>. QED BY <1>1, <2>1, <2>2, SolidKeptSame, AllHeldKept
<1>10. SolidKept BY <1>1, SolidKeptSame
<1>. QED BY <1>4, <1>6, <1>7, <1>8, <1>9, <1>10 DEF AllHeld

(* Going back to idle promises nothing about the writer.                   *)
LEMMA WriterDoneKeeps ==
    ASSUME IInv, UNCHANGED <<files, manifest, nextSeq, pass>>, NEW w \in Writers,
           writer' = [writer EXCEPT ![w] = IdleWriter]
    PROVE  /\ Struct'
           /\ \A v \in Writers : writer'[v].pc = "upsert" => writer'[v] = writer[v]
<1>. USE DEF IInv
<1>1. \A v \in Writers : writer'[v] = writer[v] \/ writer'[v].pc = "idle"
  BY DEF TypeOK, IdleWriter
<1>2. ManifestKeyed' BY DEF ManifestKeyed
<1>3. SeqsUsed' BY <1>1 DEF SeqsUsed, Listed
<1>4. Unrecorded' BY <1>1 DEF Unrecorded, Listed
<1>5. PassSound' BY PassSoundSame
<1>. QED BY <1>1, <1>2, <1>3, <1>4, <1>5 DEF Struct

LEMMA UpsertHotKeeps ==
    ASSUME IInv, TypeOK', NEW w \in Writers, UpsertHot(w)
    PROVE  IInv' /\ SolidKept
<1>. USE DEF IInv
<1>1. Struct' /\ \A v \in Writers : writer'[v].pc = "upsert" => writer'[v] = writer[v]
  BY WriterDoneKeeps DEF UpsertHot
<1>2. SolidKept BY SolidKeptSame DEF UpsertHot
<1>3. /\ writer[w].pc = "upsert" /\ writer[w].seq \in Nat
      /\ \A k \in writer[w].keys : Held(k, writer[w].seq)
  BY WriterTypes DEF UpsertHot, WrittenHeld
<1>4. HotHeld'
  <2>1. ASSUME NEW k \in Key, hot'[k] # 0 PROVE HeldNext(k, hot'[k])
    <3>1. hot'[k] = IF k \in writer[w].keys THEN writer[w].seq ELSE hot[k]
      BY DEF UpsertHot, Upserted
    <3>2. CASE k \in writer[w].keys BY <1>2, <1>3, <3>1, <3>2, HeldKept
    <3>3. CASE k \notin writer[w].keys
      <4>1. hot'[k] = hot[k] /\ hot[k] \in Nat /\ Held(k, hot[k])
        BY <2>1, <3>1, <3>3, SizesAssumption DEF TypeOK, HotHeld
      <4>. QED BY <1>2, <4>1, HeldKept
    <3>. QED BY <3>2, <3>3
  <2>. QED BY <2>1 DEF HotHeld, Held, HeldNext
<1>5. AckedHeld'
  <2>1. ASSUME NEW k \in Key, acked'[k] # 0 PROVE HeldNext(k, acked'[k])
    <3>1. \/ acked'[k] = acked[k]
          \/ k \in writer[w].keys /\ acked'[k] = writer[w].seq
      BY DEF UpsertHot
    <3>2. CASE k \in writer[w].keys /\ acked'[k] = writer[w].seq
      BY <1>2, <1>3, <3>2, HeldKept
    <3>3. CASE acked'[k] = acked[k]
      <4>1. acked[k] \in Nat /\ Held(k, acked[k])
        BY <2>1, <3>3, SizesAssumption DEF TypeOK, AckedHeld
      <4>. QED BY <1>2, <3>3, <4>1, HeldKept
    <3>. QED BY <3>1, <3>2, <3>3
  <2>. QED BY <2>1 DEF AckedHeld, Held, HeldNext
<1>6. WrittenHeld'
  <2>1. ASSUME NEW v \in Writers, writer'[v].pc = "upsert", NEW k \in writer'[v].keys
        PROVE  HeldNext(k, writer'[v].seq)
    <3>1. writer'[v] = writer[v] /\ writer[v].pc = "upsert" /\ writer[v].seq \in Nat
      BY <1>1, <2>1, WriterTypes
    <3>2. Held(k, writer[v].seq) BY <2>1, <3>1 DEF WrittenHeld
    <3>. QED BY <1>2, <3>1, <3>2, HeldKept
  <2>. QED BY <2>1 DEF WrittenHeld, Held, HeldNext
<1>. QED BY <1>1, <1>2, <1>4, <1>5, <1>6 DEF Struct

LEMMA FailWriteKeeps ==
    ASSUME IInv, TypeOK', NEW w \in Writers, FailWrite(w)
    PROVE  IInv' /\ SolidKept
<1>1. Struct' /\ \A v \in Writers : writer'[v].pc = "upsert" => writer'[v] = writer[v]
  BY WriterDoneKeeps DEF FailWrite
<1>2. SolidKept BY SolidKeptSame DEF FailWrite, IInv
<1>3. AllHeld' BY <1>1, <1>2, AllHeldKept DEF FailWrite, IInv, AllHeld
<1>. QED BY <1>1, <1>2, <1>3 DEF IInv, Struct, AllHeld

LEMMA DeleteRowsKeeps ==
    ASSUME IInv, TypeOK', NEW tags, NEW lo, NEW hi, DeleteRows(tags, lo, hi)
    PROVE  IInv' /\ SolidKept
<1>1. UNCHANGED <<files, manifest, nextSeq, writer, pass>> BY DEF DeleteRows
<1>2. Struct'
  <2>1. ManifestKeyed' BY <1>1 DEF IInv, ManifestKeyed
  <2>2. SeqsUsed' BY <1>1 DEF IInv, SeqsUsed, Listed
  <2>3. Unrecorded' BY <1>1 DEF IInv, Unrecorded, Listed
  <2>4. PassSound' BY <1>1, PassSoundSame DEF IInv
  <2>. QED BY <2>1, <2>2, <2>3, <2>4 DEF Struct
<1>3. SolidKept BY <1>1, SolidKeptSame DEF IInv
<1>4. \A k \in Key : (hot'[k] = hot[k] \/ hot'[k] = 0) /\ (acked'[k] = acked[k] \/ acked'[k] = 0)
  BY DEF DeleteRows
<1>5. AllHeld' BY <1>1, <1>3, <1>4, AllHeldKept DEF IInv, AllHeld
<1>. QED BY <1>2, <1>3, <1>5 DEF IInv, Struct, AllHeld

-----------------------------------------------------------------------------
(* Write-through: the staging object and its manifest row                  *)

LEMMA ListedType == ASSUME TypeOK PROVE Listed \subseteq Object
BY DEF TypeOK, Listed, Meta

LEMMA PutStagingKeeps ==
    ASSUME IInv, TypeOK', NEW w \in Writers, PutStaging(w)
    PROVE  IInv' /\ SolidKept
<1>. DEFINE s == writer[w].seq
            key == StagingKey(s)
            rows == BatchRows(writer[w].keys, s)
<1>. USE DEF IInv
<1>1. /\ writer[w].pc = "put" /\ files' = WithFile(key, rows)
      /\ writer' = [writer EXCEPT ![w].pc = "record"]
      /\ UNCHANGED <<hot, chunks, manifest, nextSeq, pass, acked, horizon>>
  BY DEF PutStaging
<1>2. key \notin Listed /\ key.kind = "staging" /\ key.seq = s /\ s \in 1..nextSeq
  BY <1>1 DEF Unrecorded, StagingKey, SeqsUsed
<1>3. /\ DOMAIN files' = DOMAIN files \cup {key} /\ files'[key] = rows
      /\ \A o \in DOMAIN files : o # key => files'[o] = files[o]
  BY <1>1, WithFileStep
<1>4. /\ \A v \in Writers : v # w => writer'[v] = writer[v]
      /\ writer'[w].pc = "record" /\ writer'[w].seq = s /\ writer'[w].keys = writer[w].keys
  BY <1>1, WriterTypes DEF TypeOK, IdleWriter
<1>5. Listed' = Listed BY <1>1 DEF Listed
<1>. HIDE DEF key, rows
<1>6. ManifestKeyed' BY <1>1 DEF ManifestKeyed
<1>7. SeqsUsed'
  <2>1. \A o \in Listed' \cup DOMAIN files' : o.seq <= nextSeq'
    BY <1>1, <1>2, <1>3, <1>5 DEF SeqsUsed
  <2>2. \A v \in Writers : writer'[v].pc # "idle" =>
            writer[v].pc # "idle" /\ writer'[v].seq = writer[v].seq
    BY <1>1, <1>4
  <2>. QED BY <1>1, <2>1, <2>2 DEF SeqsUsed
<1>8. Unrecorded'
  <2>1. \A o \in Listed' \cup DOMAIN files' :
            o.kind = "cold" => o \in Listed \cup DOMAIN files
    BY <1>2, <1>3, <1>5
  <2>2. ASSUME NEW v \in Writers, v # w, writer[v].pc = "record"
        PROVE  StagingKey(writer[v].seq) # key
    <3>1. writer[v].seq # s BY <1>1, <2>2 DEF SeqsUsed
    <3>. QED BY <3>1 DEF StagingKey, key
  <2>. QED BY <1>1, <1>3, <1>4, <1>5, <2>1, <2>2 DEF Unrecorded, key, rows
<1>9. PassSound'
  <2>1. ASSUME NEW p \in Passes, pass[p].pc \in {"record", "delete", "forget"},
               NEW m \in pass[p].objs
        PROVE  Merged(m.obj, pass[p].out)'
    <3>1. pass[p].out \in DOMAIN files /\ pass[p].out # key
      BY <1>2, <2>1 DEF PassSound
    <3>2. m.obj # key BY <1>2, <2>1 DEF PassSound, ListedStaging, Listed
    <3>3. Merged(m.obj, pass[p].out) BY <2>1 DEF PassSound
    <3>4. pass[p].out' = pass[p].out BY <1>1
    <3>. QED BY <1>3, <3>1, <3>2, <3>3, <3>4 DEF Merged
  <2>. QED BY <1>1, <1>3, <1>5, <2>1 DEF PassSound, ListedStaging, ObjectsOf
<1>10. SolidKept
  <2>1. Solid \subseteq Solid' BY <1>1, <1>3, <1>5 DEF Solid, Merging
  <2>2. \A o \in Solid : files'[o] = files[o] BY <1>2, <1>3, SolidStored
  <2>. QED BY <2>1, <2>2, SolidGrowsKept
<1>11. AllHeld' BY <1>1, <1>4, <1>10, AllHeldKept DEF AllHeld
<1>. QED BY <1>6, <1>7, <1>8, <1>9, <1>10, <1>11 DEF AllHeld

LEMMA RecordStagingKeeps ==
    ASSUME IInv, TypeOK', NEW w \in Writers, RecordStaging(w)
    PROVE  IInv' /\ SolidKept
<1>. DEFINE s == writer[w].seq
            key == StagingKey(s)
<1>. USE DEF IInv
<1>1. /\ writer[w].pc = "record"
      /\ writer' = [writer EXCEPT ![w].pc = "upsert"]
      /\ UNCHANGED <<hot, chunks, files, nextSeq, pass, acked, horizon>>
  BY DEF RecordStaging
<1>2. PICK lo, hi : manifest' = Recorded([obj |-> key, lo |-> lo, hi |-> hi])
  BY DEF RecordStaging
<1>. DEFINE new == [obj |-> key, lo |-> lo, hi |-> hi]
<1>3. /\ key \notin Listed /\ key.kind = "staging" /\ key.seq = s /\ s \in 1..nextSeq
      /\ s \in Nat /\ s # 0
      /\ key \in DOMAIN files /\ files[key] = BatchRows(writer[w].keys, s)
  BY <1>1, WriterTypes DEF Unrecorded, StagingKey, SeqsUsed
<1>4. /\ \A v \in Writers : v # w => writer'[v] = writer[v]
      /\ writer'[w].pc = "upsert" /\ writer'[w].seq = s /\ writer'[w].keys = writer[w].keys
  BY <1>1, WriterTypes DEF TypeOK, IdleWriter
<1>5. manifest' = manifest \cup {new} /\ new.obj = key
  BY <1>2, <1>3 DEF Recorded, Listed
<1>6. Listed' = Listed \cup {key} BY <1>5 DEF Listed
<1>7. ASSUME NEW o \in Listed \cup DOMAIN files, o.kind = "cold" PROVE StagingKey(o.seq) # key
  <2>1. o.seq # s BY <1>1, <1>7 DEF Unrecorded
  <2>. QED BY <2>1 DEF StagingKey
<1>8. ManifestKeyed'
  <2>1. new.obj.kind = "staging" /\ new.obj = StagingKey(new.obj.seq) /\ new.obj.seq # 0
    BY <1>3, <1>5
  <2>2. \A m \in manifest : m.obj # new.obj BY <1>3, <1>5 DEF Listed
  <2>. HIDE DEF new, key
  <2>. QED BY <1>5, <2>1, <2>2 DEF ManifestKeyed
<1>. HIDE DEF key, new
<1>9. SeqsUsed'
  <2>1. \A o \in Listed' \cup DOMAIN files' : o.seq <= nextSeq'
    BY <1>1, <1>3, <1>6 DEF SeqsUsed
  <2>2. \A v \in Writers : writer'[v].pc # "idle" =>
            writer[v].pc # "idle" /\ writer'[v].seq = writer[v].seq
    BY <1>1, <1>4
  <2>. QED BY <1>1, <2>1, <2>2 DEF SeqsUsed
<1>10. Unrecorded'
  <2>1. \A o \in Listed' \cup DOMAIN files' :
            o.kind = "cold" => o \in Listed \cup DOMAIN files
    BY <1>1, <1>3, <1>6
  <2>2. ASSUME NEW v \in Writers, v # w, writer[v].pc \in {"put", "record"}
        PROVE  StagingKey(writer[v].seq) \notin Listed'
    <3>1. writer[v].seq # s BY <1>1, <2>2 DEF SeqsUsed
    <3>2. StagingKey(writer[v].seq) # key BY <3>1 DEF StagingKey, key
    <3>. QED BY <1>6, <2>2, <3>2 DEF Unrecorded
  <2>. QED BY <1>1, <1>4, <2>1, <2>2 DEF Unrecorded
<1>11. PassSound'
  <2>1. ASSUME NEW p \in Passes, pass[p].pc \in {"record", "delete", "forget"}
        PROVE  StagingKey(pass[p].out.seq) # key
    BY <1>7, <2>1 DEF PassSound
  <2>2. ListedStaging \subseteq ListedStaging' BY <1>5 DEF ListedStaging
  <2>3. \A o, out : Merged(o, out)' <=> Merged(o, out) BY <1>1 DEF Merged
  <2>. QED BY <1>1, <1>6, <2>1, <2>2, <2>3 DEF PassSound, ObjectsOf
<1>12. Solid \subseteq Solid'
  BY <1>1, <1>6, <1>7 DEF Solid, Merging
<1>13. SolidKept BY <1>1, <1>12, SolidGrowsKept
<1>14. \A k \in writer[w].keys : HeldNext(k, s)
  <2>1. ASSUME NEW k \in writer[w].keys PROVE HeldNext(k, s)
    <3>1. key \in Solid' BY <1>1, <1>3, <1>6 DEF Solid
    <3>2. [key |-> k, seq |-> s] \in files'[key] BY <1>1, <1>3 DEF BatchRows
    <3>. QED BY <1>3, <3>1, <3>2 DEF HeldNext
  <2>. QED BY <2>1
<1>15. HotHeld' /\ AckedHeld'
  <2>1. ASSUME NEW k \in Key, hot[k] # 0 PROVE HeldNext(k, hot[k])
    BY <1>13, <2>1, HeldKept, SizesAssumption DEF HotHeld, TypeOK
  <2>2. ASSUME NEW k \in Key, acked[k] # 0 PROVE HeldNext(k, acked[k])
    BY <1>13, <2>2, HeldKept, SizesAssumption DEF AckedHeld, TypeOK
  <2>. QED BY <1>1, <2>1, <2>2 DEF HotHeld, AckedHeld, Held, HeldNext
<1>16. WrittenHeld'
  <2>1. ASSUME NEW v \in Writers, writer'[v].pc = "upsert", NEW k \in writer'[v].keys
        PROVE  HeldNext(k, writer'[v].seq)
    <3>1. CASE v = w BY <1>4, <1>14, <2>1, <3>1
    <3>2. CASE v # w
      <4>1. writer'[v] = writer[v] /\ writer[v].pc = "upsert" /\ writer[v].seq \in Nat
        BY <1>4, <2>1, <3>2, WriterTypes
      <4>2. Held(k, writer[v].seq) BY <2>1, <4>1 DEF WrittenHeld
      <4>. QED BY <1>13, <4>1, <4>2, HeldKept
    <3>. QED BY <3>1, <3>2
  <2>. QED BY <2>1 DEF WrittenHeld, Held, HeldNext
<1>. QED BY <1>8, <1>9, <1>10, <1>11, <1>13, <1>15, <1>16

-----------------------------------------------------------------------------
(* Steps of a pass that leave objects and manifest alone                   *)

LEMMA QuietPassKeeps ==
    ASSUME IInv, TypeOK', NEW p \in Passes,
           UNCHANGED <<files, manifest, nextSeq, writer, acked>>,
           \A k \in Key : hot'[k] = hot[k] \/ hot'[k] = 0,
           \A q \in Passes : q # p => pass'[q] = pass[q],
           pass[p].pc \notin {"delete", "forget"},
           pass'[p].pc \notin {"record", "delete", "forget", "recordExport"},
           pass'[p].pc = "compact" =>
                pass'[p].todo \subseteq ListedStaging /\ pass'[p].objs = {}
    PROVE  IInv' /\ SolidKept
<1>. USE DEF IInv
<1>1. Listed' = Listed /\ ListedStaging' = ListedStaging BY DEF Listed, ListedStaging
<1>2. ManifestKeyed' BY DEF ManifestKeyed
<1>3. SeqsUsed' BY <1>1 DEF SeqsUsed
<1>4. Unrecorded' BY <1>1 DEF Unrecorded
<1>5. PassSound'
  <2>1. \A o, out : Merged(o, out)' <=> Merged(o, out) BY DEF Merged
  <2>. QED BY <1>1, <2>1 DEF PassSound, ObjectsOf
<1>6. SolidKept
  <2>1. \A q \in Merging : q \in Merging' /\ pass'[q] = pass[q] BY DEF Merging
  <2>2. Solid \subseteq Solid' BY <1>1, <2>1 DEF Solid
  <2>. QED BY <2>2, SolidGrowsKept
<1>7. AllHeld' BY <1>6, AllHeldKept DEF AllHeld
<1>. QED BY <1>2, <1>3, <1>4, <1>5, <1>6, <1>7 DEF AllHeld

LEMMA ListStagingKeeps ==
    ASSUME IInv, TypeOK', NEW p \in Passes, ListStaging(p) PROVE IInv' /\ SolidKept
<1>1. /\ pass'[p].pc = "compact" /\ pass'[p].objs = {}
      /\ pass'[p].todo = ListedStaging /\ pass[p].pc = "idle"
      /\ \A q \in Passes : q # p => pass'[q] = pass[q]
  BY DEF IInv, TypeOK, ListStaging, ListedStaging, IdlePass
<1>2. UNCHANGED <<hot, files, manifest, nextSeq, writer, acked>> BY DEF ListStaging
<1>. QED BY <1>1, <1>2, QuietPassKeeps

(* A pass that ends, without having touched the inputs of a merge.         *)
LEMMA EndPassKeeps ==
    ASSUME IInv, TypeOK', NEW p \in Passes, pass[p].pc \notin {"delete", "forget"},
           pass' = [pass EXCEPT ![p] = IdlePass],
           UNCHANGED <<hot, chunks, files, manifest, nextSeq, writer, acked, horizon>>
    PROVE  IInv' /\ SolidKept
<1>1. /\ pass'[p].pc = "idle"
      /\ \A q \in Passes : q # p => pass'[q] = pass[q]
  BY DEF IInv, TypeOK, IdlePass
<1>. QED BY <1>1, QuietPassKeeps

LEMMA ListChunksKeeps ==
    ASSUME IInv, TypeOK', NEW p \in Passes, NEW cutoff, ListChunks(p, cutoff) PROVE IInv' /\ SolidKept
<1>1. /\ pass'[p].pc \in {"idle", "intervals"} /\ pass[p].pc = "compact"
      /\ \A q \in Passes : q # p => pass'[q] = pass[q]
  BY DEF IInv, TypeOK, ListChunks, IdlePass
<1>2. UNCHANGED <<hot, files, manifest, nextSeq, writer, acked>> BY DEF ListChunks
<1>. QED BY <1>1, <1>2, QuietPassKeeps

LEMMA ListIntervalsKeeps ==
    ASSUME IInv, TypeOK', NEW p \in Passes, ListIntervals(p) PROVE IInv' /\ SolidKept
<1>1. /\ pass'[p].pc = "evict" /\ pass[p].pc = "intervals"
      /\ \A q \in Passes : q # p => pass'[q] = pass[q]
  BY DEF IInv, TypeOK, ListIntervals
<1>2. UNCHANGED <<hot, files, manifest, nextSeq, writer, acked>> BY DEF ListIntervals
<1>. QED BY <1>1, <1>2, QuietPassKeeps

LEMMA DropChunkKeeps ==
    ASSUME IInv, TypeOK', NEW p \in Passes, NEW c, DropChunk(p, c),
           pass[p].pc \in {"evict", "drop"}
    PROVE  IInv' /\ SolidKept
<1>1. /\ pass'[p].pc \in {"idle", "evict"}
      /\ \A q \in Passes : q # p => pass'[q] = pass[q]
  BY DEF IInv, TypeOK, DropChunk, NextEvict
<1>2. \A k \in Key : hot'[k] = hot[k] \/ hot'[k] = 0 BY DEF DropChunk, Dropped
<1>3. UNCHANGED <<files, manifest, nextSeq, writer, acked>> BY DEF DropChunk
<1>. QED BY <1>1, <1>2, <1>3, QuietPassKeeps

-----------------------------------------------------------------------------
(* Merging, one pass at a time                                             *)

LEMMA OnlyPass ==
    ASSUME SafeRegime, NEW p \in Passes PROVE \A q \in Passes : q = p
BY DEF SafeRegime

LEMMA CompactKeeps ==
    ASSUME IInv, TypeOK', SafeRegime, NEW p \in Passes, Compact(p)
    PROVE  IInv' /\ SolidKept
<1>. USE DEF IInv
<1>1. PICK first \in pass[p].todo, s \in 0..MaxSeq :
        LET group == GroupOf(first, pass[p].todo)
            out == ColdKey(DayOf(first.lo), s)
        IN  /\ IsGroupSeq(s, group)
            /\ files' = WithFile(out, Dedup(RowsOf(ObjectsOf(group))))
            /\ pass' = [pass EXCEPT ![p].pc = "record", ![p].todo = @ \ group,
                                    ![p].objs = group, ![p].out = out]
  BY DEF Compact
<1>. DEFINE group == GroupOf(first, pass[p].todo)
            out == ColdKey(DayOf(first.lo), s)
            inputs == RowsOf(ObjectsOf(group))
<1>2. /\ pass[p].pc = "compact"
      /\ UNCHANGED <<hot, chunks, manifest, nextSeq, writer, acked, horizon>>
  BY DEF Compact
<1>3. files' = WithFile(out, Dedup(inputs)) BY <1>1
<1>4. /\ pass'[p].pc = "record" /\ pass'[p].todo = pass[p].todo \ group
      /\ pass'[p].objs = group /\ pass'[p].out = out
  BY <1>1 DEF TypeOK
<1>5. group \subseteq pass[p].todo /\ group \subseteq ListedStaging
  BY <1>2 DEF GroupOf, PassSound
<1>6. /\ StagingKey(s) \in ObjectsOf(group) /\ StagingKey(s) \in Listed /\ s # 0
  <2>1. PICK m \in group : m.obj.seq = s BY <1>1 DEF IsGroupSeq, IsLowest
  <2>2. m.obj = StagingKey(s) /\ s # 0 BY <1>5, <2>1 DEF ManifestKeyed, ListedStaging
  <2>. QED BY <1>5, <2>1, <2>2 DEF ObjectsOf, Listed, ListedStaging
<1>7. out.kind = "cold" /\ out.seq = s BY DEF ColdKey
<1>8. \A o \in ObjectsOf(group) : o \in Listed /\ o.kind = "staging"
  BY <1>5 DEF ObjectsOf, ListedStaging, Listed
<1>9. inputs \in SUBSET Row BY DEF TypeOK, RowsOf
<1>10. \A o \in ObjectsOf(group) \cap DOMAIN files : files[o] \subseteq inputs BY DEF RowsOf
<1>. HIDE DEF group, out, inputs
<1>11. /\ DOMAIN files' = DOMAIN files \cup {out} /\ files'[out] = Dedup(inputs)
       /\ \A o \in DOMAIN files : o # out => files'[o] = files[o]
  BY <1>3, WithFileStep
<1>12. Listed' = Listed /\ ListedStaging' = ListedStaging BY <1>2 DEF Listed, ListedStaging
<1>13. ManifestKeyed' BY <1>2 DEF ManifestKeyed
<1>14. SeqsUsed'
  <2>1. s <= nextSeq
    <3>1. StagingKey(s).seq = s BY DEF StagingKey
    <3>. QED BY <1>6, <3>1 DEF SeqsUsed
  <2>2. \A o \in Listed' \cup DOMAIN files' : o.seq <= nextSeq'
    BY <1>2, <1>7, <1>11, <1>12, <2>1 DEF SeqsUsed
  <2>. QED BY <1>2, <2>2 DEF SeqsUsed
<1>15. Unrecorded'
  <2>1. ASSUME NEW w \in Writers, writer[w].pc \in {"put", "record"} PROVE writer[w].seq # s
    BY <1>6, <2>1 DEF Unrecorded
  <2>2. \A x : StagingKey(x) # out BY <1>7 DEF StagingKey
  <2>. QED BY <1>2, <1>7, <1>11, <1>12, <2>1, <2>2 DEF Unrecorded
<1>16. PassSound'
  <2>1. ASSUME NEW m \in group PROVE Merged(m.obj, out)'
    <3>1. SUFFICES ASSUME m.obj \in DOMAIN files', NEW r \in files'[m.obj]
                   PROVE  \E q \in files'[out] : q.key = r.key /\ r.seq <= q.seq
      BY DEF Merged
    <3>2. m.obj \in ObjectsOf(group) BY DEF ObjectsOf
    <3>3. m.obj # out BY <1>7, <1>8, <3>2
    <3>4. r \in inputs BY <1>10, <1>11, <3>1, <3>2, <3>3
    <3>. QED BY <1>9, <1>11, <3>4, DedupKeeps
  <2>2. \A m \in group : Merged(m.obj, pass[p].out)'
    BY <1>4, <2>1 DEF Merged
  <2>3. pass'[p].todo \subseteq ListedStaging' /\ pass'[p].todo \cap pass'[p].objs = {}
    BY <1>2, <1>4, <1>12 DEF PassSound
  <2>4. \A q \in Passes : q = p BY OnlyPass
  <2>. QED BY <1>4, <1>5, <1>6, <1>7, <1>11, <1>12, <2>2, <2>3, <2>4 DEF PassSound
<1>17. SolidKept
  <2>1. Merging = {} BY <1>2, OnlyPass DEF Merging
  <2>2. out \notin Solid BY <1>6, <1>7, <2>1 DEF Solid
  <2>3. Solid \subseteq Solid' BY <1>11, <1>12, <2>1 DEF Solid
  <2>4. \A o \in Solid : files'[o] = files[o] BY <1>11, <2>2, SolidStored
  <2>. QED BY <2>3, <2>4, SolidGrowsKept
<1>18. AllHeld' BY <1>2, <1>17, AllHeldKept DEF AllHeld
<1>. QED BY <1>13, <1>14, <1>15, <1>16, <1>17, <1>18 DEF AllHeld

(* A manifest row for a merged or exported object that exists.             *)
LEMMA RecordObjectKeeps ==
    ASSUME IInv, NEW o \in DOMAIN files, o.kind = "cold", NEW lo, NEW hi,
           manifest' = Recorded([obj |-> o, lo |-> lo, hi |-> hi]),
           UNCHANGED <<files, nextSeq, writer>>,
           \A p \in Merging : p \in Merging' /\ pass'[p].out = pass[p].out
    PROVE  /\ Listed' = Listed \cup {o} /\ ListedStaging' = ListedStaging
           /\ ManifestKeyed' /\ SeqsUsed' /\ Unrecorded' /\ SolidKept
<1>. USE DEF IInv
<1>. DEFINE new == [obj |-> o, lo |-> lo, hi |-> hi]
<1>1. manifest' = {n \in manifest : n.obj # o} \cup {new} /\ new.obj = o BY DEF Recorded
<1>. HIDE DEF new
<1>2. Listed' = Listed \cup {o}
  <2>1. \A x \in Listed' : x \in Listed \cup {o} BY <1>1 DEF Listed
  <2>2. \A x \in Listed \cup {o} : x \in Listed'
    <3>1. o \in Listed' BY <1>1 DEF Listed
    <3>2. ASSUME NEW x \in Listed, x # o PROVE x \in Listed' BY <1>1, <3>2 DEF Listed
    <3>. QED BY <3>1, <3>2
  <2>. QED BY <2>1, <2>2
<1>3. ListedStaging' = ListedStaging
  <2>1. \A m \in manifest : m.obj.kind = "staging" => m.obj # o OBVIOUS
  <2>. QED BY <1>1, <2>1 DEF ListedStaging
<1>4. ManifestKeyed' BY <1>1 DEF ManifestKeyed
<1>5. SeqsUsed' BY <1>2 DEF SeqsUsed
<1>6. Unrecorded'
  <2>1. \A x : StagingKey(x) # o BY DEF StagingKey
  <2>. QED BY <1>2, <2>1 DEF Unrecorded
<1>7. SolidKept
  <2>1. \A x : StagingKey(x) # o BY DEF StagingKey
  <2>2. Solid \subseteq Solid' BY <1>2, <2>1 DEF Solid
  <2>. QED BY <2>2, SolidGrowsKept
<1>. QED BY <1>2, <1>3, <1>4, <1>5, <1>6, <1>7

LEMMA RecordColdKeeps ==
    ASSUME IInv, TypeOK', SafeRegime, NEW p \in Passes, RecordCold(p)
    PROVE  IInv' /\ SolidKept
<1>. USE DEF IInv
<1>1. PICK lo, hi : manifest' = Recorded([obj |-> pass[p].out, lo |-> lo, hi |-> hi])
  BY DEF RecordCold
<1>2. /\ pass[p].pc = "record"
      /\ UNCHANGED <<hot, chunks, files, nextSeq, writer, acked, horizon>>
      /\ pass' = [pass EXCEPT ![p].pc = "delete"]
  BY DEF RecordCold
<1>3. /\ pass'[p].pc = "delete" /\ pass'[p].todo = pass[p].todo
      /\ pass'[p].objs = pass[p].objs /\ pass'[p].out = pass[p].out
  BY <1>2 DEF TypeOK
<1>4. pass[p].out \in DOMAIN files /\ pass[p].out.kind = "cold"
  BY <1>2 DEF PassSound
<1>5. Merging = {} BY <1>2, OnlyPass DEF Merging
<1>6. /\ Listed' = Listed \cup {pass[p].out} /\ ListedStaging' = ListedStaging
      /\ ManifestKeyed' /\ SeqsUsed' /\ Unrecorded' /\ SolidKept
  BY <1>1, <1>2, <1>4, <1>5, RecordObjectKeeps
<1>7. PassSound'
  <2>1. \A x : StagingKey(x) # pass[p].out BY <1>4 DEF StagingKey
  <2>2. \A o, out : Merged(o, out)' <=> Merged(o, out) BY <1>2 DEF Merged
  <2>3. \A q \in Passes : q = p BY OnlyPass
  <2>. QED BY <1>2, <1>3, <1>6, <2>1, <2>2, <2>3 DEF PassSound, ObjectsOf
<1>8. AllHeld' BY <1>2, <1>6, AllHeldKept DEF AllHeld
<1>. QED BY <1>6, <1>7, <1>8 DEF AllHeld

LEMMA DeleteStagingKeeps ==
    ASSUME IInv, TypeOK', SafeRegime, NEW p \in Passes, DeleteStaging(p)
    PROVE  IInv' /\ SolidKept
<1>. USE DEF IInv
<1>1. PICK m \in pass[p].objs : files' = WithoutFile(m.obj) BY DEF DeleteStaging
<1>2. /\ pass[p].pc = "delete"
      /\ UNCHANGED <<hot, chunks, manifest, nextSeq, writer, acked, horizon>>
      /\ pass' = [pass EXCEPT ![p].pc = "forget"]
  BY DEF DeleteStaging
<1>3. /\ pass'[p].pc = "forget" /\ pass'[p].todo = pass[p].todo
      /\ pass'[p].objs = pass[p].objs /\ pass'[p].out = pass[p].out
  BY <1>2 DEF TypeOK
<1>4. /\ DOMAIN files' = DOMAIN files \ {m.obj}
      /\ \A o \in DOMAIN files' : files'[o] = files[o]
  BY <1>1, WithoutFileStep
<1>5. m.obj.kind = "staging" /\ m.obj \in Listed
  BY <1>2 DEF PassSound, ListedStaging, Listed
<1>6. Listed' = Listed /\ ListedStaging' = ListedStaging BY <1>2 DEF Listed, ListedStaging
<1>7. /\ pass[p].out.kind = "cold" /\ pass[p].out \in DOMAIN files
      /\ pass[p].out \in Listed /\ Merged(m.obj, pass[p].out)
  BY <1>2 DEF PassSound
<1>8. pass[p].out \in DOMAIN files' /\ files'[pass[p].out] = files[pass[p].out]
  BY <1>4, <1>5, <1>7
<1>9. ManifestKeyed' BY <1>2 DEF ManifestKeyed
<1>10. SeqsUsed' BY <1>2, <1>4, <1>6 DEF SeqsUsed
<1>11. Unrecorded'
  <2>1. \A w \in Writers : writer[w].pc = "record" => StagingKey(writer[w].seq) # m.obj
    BY <1>5 DEF Unrecorded
  <2>. QED BY <1>2, <1>4, <1>6, <2>1 DEF Unrecorded
<1>12. PassSound'
  <2>1. \A n \in pass[p].objs : Merged(n.obj, pass[p].out)'
    <3>1. \A n \in pass[p].objs : Merged(n.obj, pass[p].out) BY <1>2 DEF PassSound
    <3>. QED BY <1>3, <1>4, <1>8, <3>1 DEF Merged
  <2>2. \A q \in Passes : q = p BY OnlyPass
  <2>. QED BY <1>2, <1>3, <1>6, <1>8, <2>1, <2>2 DEF PassSound, ObjectsOf
<1>13. SolidKept
  <2>1. p \in Merging' BY <1>3 DEF Merging
  <2>2. pass[p].out \in Solid' BY <1>3, <1>6, <1>7, <1>8, <2>1 DEF Solid
  <2>3. \A q \in Passes : q = p BY OnlyPass
  <2>4. ASSUME NEW o \in Solid, NEW r \in files[o]
        PROVE  \E u \in Solid' : \E q \in files'[u] : q.key = r.key /\ r.seq <= q.seq
    <3>1. CASE o = m.obj BY <1>7, <1>8, <2>2, <3>1, <2>4, SolidStored DEF Merged
    <3>2. CASE o # m.obj
      <4>1. o \in DOMAIN files' /\ files'[o] = files[o] BY <1>4, <3>2, SolidStored
      <4>2. o \in Solid'
        <5>1. \A q \in Merging : q = p BY <2>3 DEF Merging
        <5>2. o \in Listed' /\ o \in DOMAIN files' BY <1>6, <4>1, SolidStored
        <5>3. \/ o.kind = "staging"
              \/ o.kind = "cold" /\ o.seq # 0 /\ StagingKey(o.seq) \notin Listed'
              \/ o = pass'[p].out
          BY <1>3, <1>6, <5>1 DEF Solid
        <5>. QED BY <2>1, <5>2, <5>3 DEF Solid
      <4>3. r.seq \in Nat BY <2>4, SolidStored, RowTypes
      <4>. QED BY <4>1, <4>2, <4>3
    <3>. QED BY <3>1, <3>2
  <2>. QED BY <2>4 DEF SolidKept
<1>14. AllHeld' BY <1>2, <1>13, AllHeldKept DEF AllHeld
<1>. QED BY <1>9, <1>10, <1>11, <1>12, <1>13, <1>14 DEF AllHeld

LEMMA ForgetStagingKeeps ==
    ASSUME IInv, TypeOK', SafeRegime, NEW p \in Passes, ForgetStaging(p)
    PROVE  IInv' /\ SolidKept
<1>. USE DEF IInv
<1>. DEFINE out == pass[p].out
<1>1. PICK m \in pass[p].objs :
            /\ manifest' = Forgotten(m.obj)
            /\ pass' = [pass EXCEPT ![p].pc = AfterForget(pass[p].objs \ {m}),
                                    ![p].objs = @ \ {m}]
  BY DEF ForgetStaging, IsEarliest
<1>2. /\ pass[p].pc = "forget"
      /\ UNCHANGED <<hot, chunks, files, nextSeq, writer, acked, horizon>>
  BY DEF ForgetStaging
<1>3. /\ pass'[p].pc = AfterForget(pass[p].objs \ {m}) /\ pass'[p].todo = pass[p].todo
      /\ pass'[p].objs = pass[p].objs \ {m} /\ pass'[p].out = out
  BY <1>1 DEF TypeOK
<1>4. manifest' = {n \in manifest : n.obj # m.obj} BY <1>1 DEF Forgotten
<1>5. Listed' = Listed \ {m.obj} BY <1>4 DEF Listed
<1>6. m \in ListedStaging /\ m.obj.kind = "staging" /\ m.obj \in Listed
  BY <1>2 DEF PassSound, ListedStaging, Listed
<1>7. ListedStaging' = ListedStaging \ {m}
  <2>1. \A n \in manifest : n.obj = m.obj <=> n = m
    BY <1>6 DEF ManifestKeyed, ListedStaging
  <2>. QED BY <1>4, <2>1 DEF ListedStaging
<1>8. /\ out.kind = "cold" /\ out.seq # 0 /\ out \in DOMAIN files /\ out \in Listed
      /\ out # m.obj /\ Merged(m.obj, out)
      /\ StagingKey(out.seq) \in Listed => StagingKey(out.seq) \in ObjectsOf(pass[p].objs)
  BY <1>2, <1>6 DEF PassSound
<1>9. ManifestKeyed' BY <1>4 DEF ManifestKeyed
<1>10. SeqsUsed' BY <1>2, <1>5 DEF SeqsUsed
<1>11. Unrecorded' BY <1>2, <1>5 DEF Unrecorded
<1>12. StagingKey(out.seq) \in Listed'
            => StagingKey(out.seq) \in ObjectsOf(pass[p].objs \ {m})
  BY <1>5, <1>8 DEF ObjectsOf
<1>13. PassSound'
  <2>1. /\ pass[p].todo \subseteq ListedStaging' /\ pass[p].objs \ {m} \subseteq ListedStaging'
        /\ pass[p].todo \cap (pass[p].objs \ {m}) = {}
    BY <1>2, <1>7 DEF PassSound
  <2>2. \A n \in pass[p].objs : Merged(n.obj, out)
    BY <1>2 DEF PassSound
  <2>3. \A o, x : Merged(o, x)' <=> Merged(o, x) BY <1>2 DEF Merged
  <2>4. \A q \in Passes : q = p BY OnlyPass
  <2>5. pass'[p].pc \in {"compact", "delete"} BY <1>3 DEF AfterForget
  <2>6. out \in Listed' BY <1>5, <1>8
  <2>. HIDE DEF out
  <2>. QED BY <1>2, <1>3, <1>8, <1>12, <2>1, <2>2, <2>3, <2>4, <2>5, <2>6 DEF PassSound, ObjectsOf
<1>14. SolidKept
  <2>1. \A q \in Passes : q = p BY OnlyPass
  <2>2. out \in Solid'
    <3>1. CASE pass[p].objs \ {m} = {}
      <4>1. StagingKey(out.seq) \notin Listed' BY <1>12, <3>1 DEF ObjectsOf
      <4>. QED BY <1>2, <1>5, <1>8, <4>1 DEF Solid
    <3>2. CASE pass[p].objs \ {m} # {}
      <4>1. p \in Merging' BY <1>3, <3>2 DEF Merging, AfterForget
      <4>. QED BY <1>2, <1>3, <1>5, <1>8, <4>1 DEF Solid
    <3>. QED BY <3>1, <3>2
  <2>3. ASSUME NEW o \in Solid, NEW r \in files[o]
        PROVE  \E u \in Solid' : \E q \in files'[u] : q.key = r.key /\ r.seq <= q.seq
    <3>1. r.seq \in Nat BY <2>3, SolidStored, RowTypes
    <3>2. CASE o = m.obj BY <1>2, <1>8, <2>2, <2>3, <3>2, SolidStored DEF Merged
    <3>3. CASE o = out BY <1>2, <2>2, <2>3, <3>1, <3>3
    <3>4. CASE o # m.obj /\ o # out
      <4>1. o \in Listed' BY <1>5, <3>4, SolidStored
      <4>2. o \in Solid' BY <1>2, <1>5, <2>1, <3>4, <4>1 DEF Solid, Merging
      <4>. QED BY <1>2, <2>3, <3>1, <4>2
    <3>. QED BY <3>2, <3>3, <3>4
  <2>. QED BY <2>3 DEF SolidKept
<1>15. AllHeld' BY <1>2, <1>14, AllHeldKept DEF AllHeld
<1>. QED BY <1>9, <1>10, <1>11, <1>13, <1>14, <1>15 DEF AllHeld

-----------------------------------------------------------------------------
(* Exports: object number 0 of a day is never solid                        *)

LEMMA ExportChunkKeeps ==
    ASSUME IInv, TypeOK', SafeRegime, NEW p \in Passes, ExportChunk(p)
    PROVE  IInv' /\ SolidKept
<1>. USE DEF IInv
<1>1. PICK c \in pass[p].left \ pass[p].covered :
            /\ IsLowest(c, pass[p].left)
            /\ files' = WithFile(ColdKey(DayOf(c), 0), HotRows(KeysOfChunk(c)))
  BY DEF ExportChunk
<1>. DEFINE key == ColdKey(DayOf(c), 0)
            rows == HotRows(KeysOfChunk(c))
<1>2. /\ pass[p].pc = "evict"
      /\ UNCHANGED <<hot, chunks, manifest, nextSeq, writer, acked, horizon>>
      /\ pass' = [pass EXCEPT ![p].pc = "recordExport"]
  BY DEF ExportChunk
<1>3. pass'[p].pc = "recordExport" /\ pass'[p].left = pass[p].left BY <1>2 DEF TypeOK
<1>4. files' = WithFile(key, rows) BY <1>1
<1>5. key.kind = "cold" /\ key.seq = 0 BY DEF ColdKey
<1>. HIDE DEF rows
<1>6. /\ DOMAIN files' = DOMAIN files \cup {key} /\ files'[key] = rows
      /\ \A o \in DOMAIN files : o # key => files'[o] = files[o]
  <2>. HIDE DEF key
  <2>. QED BY <1>4, WithFileStep
<1>7. Listed' = Listed /\ ListedStaging' = ListedStaging BY <1>2 DEF Listed, ListedStaging
<1>8. Merging = {} BY <1>2, OnlyPass DEF Merging
<1>9. \A q \in Passes : q = p BY OnlyPass
<1>10. PassSound'
  <2>1. ASSUME NEW d \in pass[p].left, IsLowest(d, pass[p].left) PROVE d = c
    <3>1. c \in Nat /\ d \in Nat /\ c <= d /\ d <= c
      BY <1>1, <2>1 DEF TypeOK, IsLowest
    <3>. QED BY <3>1
  <2>2. key \in DOMAIN files' BY <1>6
  <2>3. ASSUME NEW d \in pass'[p].left, IsLowest(d, pass'[p].left)
        PROVE ColdKey(DayOf(d), 0) \in DOMAIN files'
    <3>1. d = c BY <1>3, <2>1, <2>3
    <3>. QED BY <2>2, <3>1
  <2>. QED BY <1>3, <1>9, <2>3 DEF PassSound
<1>. HIDE DEF key
<1>11. ManifestKeyed' BY <1>2 DEF ManifestKeyed
<1>12. SeqsUsed'
  <2>1. nextSeq \in Nat BY SizesAssumption DEF TypeOK
  <2>2. 0 <= nextSeq BY <2>1
  <2>3. \A o \in Listed' \cup DOMAIN files' : o.seq <= nextSeq'
    BY <1>2, <1>5, <1>6, <1>7, <2>2 DEF SeqsUsed
  <2>. QED BY <1>2, <2>3 DEF SeqsUsed
<1>13. Unrecorded'
  <2>1. \A w \in Writers : writer[w].pc \in {"put", "record"} => writer[w].seq # 0
    BY WriterTypes
  <2>2. \A x : StagingKey(x) # key BY <1>5 DEF StagingKey
  <2>. QED BY <1>2, <1>5, <1>6, <1>7, <2>1, <2>2 DEF Unrecorded
<1>14. SolidKept
  <2>1. key \notin Solid BY <1>5, <1>8 DEF Solid
  <2>2. Solid \subseteq Solid' BY <1>6, <1>7, <1>8 DEF Solid
  <2>3. \A o \in Solid : files'[o] = files[o] BY <1>6, <2>1, SolidStored
  <2>. QED BY <2>2, <2>3, SolidGrowsKept
<1>15. AllHeld' BY <1>2, <1>14, AllHeldKept DEF AllHeld
<1>. QED BY <1>10, <1>11, <1>12, <1>13, <1>14, <1>15 DEF AllHeld

LEMMA RecordExportKeeps ==
    ASSUME IInv, TypeOK', SafeRegime, NEW p \in Passes, RecordExport(p)
    PROVE  IInv' /\ SolidKept
<1>. USE DEF IInv
<1>1. PICK c \in pass[p].left :
            /\ IsLowest(c, pass[p].left)
            /\ manifest' = Recorded([obj |-> ColdKey(DayOf(c), 0), lo |-> c, hi |-> c + ChunkLen])
  BY DEF RecordExport
<1>2. /\ pass[p].pc = "recordExport"
      /\ UNCHANGED <<hot, chunks, files, nextSeq, writer, acked, horizon>>
      /\ pass' = [pass EXCEPT ![p].pc = "drop"]
  BY DEF RecordExport
<1>3. pass'[p].pc = "drop" BY <1>2 DEF TypeOK
<1>4. Merging = {} BY <1>2, OnlyPass DEF Merging
<1>5. ColdKey(DayOf(c), 0) \in DOMAIN files BY <1>1, <1>2 DEF PassSound
<1>6. ColdKey(DayOf(c), 0).kind = "cold" BY DEF ColdKey
<1>7. ManifestKeyed' /\ SeqsUsed' /\ Unrecorded' /\ SolidKept
  BY <1>1, <1>2, <1>4, <1>5, <1>6, RecordObjectKeeps
<1>8. PassSound'
  <2>1. \A q \in Passes : q = p BY OnlyPass
  <2>. QED BY <1>3, <2>1 DEF PassSound
<1>9. AllHeld' BY <1>2, <1>7, AllHeldKept DEF AllHeld
<1>. QED BY <1>7, <1>8, <1>9 DEF AllHeld

-----------------------------------------------------------------------------
(* The theorems                                                            *)

LEMMA IInvInit == Init => IInv
<1>. SUFFICES ASSUME Init PROVE IInv OBVIOUS
<1>1. Listed = {} /\ DOMAIN files = {} BY DEF Init, Listed
<1>2. \A w \in Writers : writer[w].pc = "idle" BY DEF Init, IdleWriter
<1>3. \A p \in Passes : pass[p].pc = "idle" BY DEF Init, IdlePass
<1>4. ManifestKeyed BY DEF Init, ManifestKeyed
<1>5. SeqsUsed BY <1>1, <1>2 DEF SeqsUsed
<1>6. Unrecorded BY <1>2 DEF Unrecorded
<1>7. PassSound BY <1>3 DEF PassSound
<1>8. HotHeld /\ AckedHeld /\ WrittenHeld BY <1>2 DEF Init, HotHeld, AckedHeld, WrittenHeld
<1>. QED BY <1>4, <1>5, <1>6, <1>7, <1>8, TypeInit DEF IInv

LEMMA IInvNext ==
    ASSUME SafeRegime PROVE IInv /\ [Next]_vars => IInv' /\ SolidKept
<1>. SUFFICES ASSUME IInv, [Next]_vars PROVE IInv' /\ SolidKept OBVIOUS
<1>0. TypeOK' BY TypeNext DEF IInv
<1>1. ASSUME NEW w \in Writers, WriterNext(w) PROVE IInv' /\ SolidKept
  BY <1>0, <1>1, BeginWriteKeeps, PutStagingKeeps, RecordStagingKeeps, UpsertHotKeeps,
     FailWriteKeeps DEF WriterNext
<1>2. ASSUME NEW tags \in SUBSET Tags, NEW lo \in 0..MaxTime, NEW hi, DeleteRows(tags, lo, hi)
      PROVE  IInv' /\ SolidKept
  BY <1>0, <1>2, DeleteRowsKeeps
<1>3. ASSUME NEW p \in Passes, PassStep(p) PROVE IInv' /\ SolidKept
  <2>1. ASSUME NEW cutoff, ListChunks(p, cutoff) PROVE IInv' /\ SolidKept
    BY <1>0, <2>1, ListChunksKeeps
  <2>2. CASE EvictCovered(p)
    <3>1. PICK c : DropChunk(p, c) BY <2>2 DEF EvictCovered
    <3>2. pass[p].pc = "evict" BY <2>2 DEF EvictCovered
    <3>. QED BY <1>0, <3>1, <3>2, DropChunkKeeps
  <2>3. CASE DropExported(p)
    <3>1. PICK c : DropChunk(p, c) BY <2>3 DEF DropExported
    <3>2. pass[p].pc = "drop" BY <2>3 DEF DropExported
    <3>. QED BY <1>0, <3>1, <3>2, DropChunkKeeps
  <2>. QED BY <1>0, <1>3, <2>1, <2>2, <2>3, ListStagingKeeps, CompactKeeps, RecordColdKeeps,
              DeleteStagingKeeps, ForgetStagingKeeps, ListIntervalsKeeps, ExportChunkKeeps,
              RecordExportKeeps DEF PassStep
<1>4. ASSUME NEW p \in Passes, CompactFails(p) PROVE IInv' /\ SolidKept
  <2>1. pass[p].pc \notin {"delete", "forget"} BY <1>4 DEF CompactFails
  <2>. QED BY <1>0, <1>4, <2>1, EndPassKeeps DEF CompactFails
<1>5. ASSUME NEW p \in Passes, InterruptPass(p) PROVE IInv' /\ SolidKept
  <2>1. pass[p].pc \notin {"delete", "forget"} BY <1>5 DEF InterruptPass, SafeRegime
  <2>. QED BY <1>0, <1>5, <2>1, EndPassKeeps DEF InterruptPass
<1>6. CASE UNCHANGED vars
  <2>1. UNCHANGED <<hot, chunks, files, manifest, nextSeq, writer, pass, acked, horizon>>
    BY <1>6 DEF vars
  <2>2. ManifestKeyed' /\ SeqsUsed' /\ Unrecorded'
    BY <2>1 DEF IInv, ManifestKeyed, SeqsUsed, Unrecorded, Listed
  <2>3. PassSound' BY <2>1, PassSoundSame DEF IInv
  <2>4. AllHeld' BY <1>0, <2>1, SolidKeptSame, AllHeldKept DEF IInv, AllHeld
  <2>5. SolidKept BY <2>1, SolidKeptSame DEF IInv
  <2>. QED BY <1>0, <2>2, <2>3, <2>4, <2>5 DEF IInv, AllHeld
<1>. QED BY <1>1, <1>2, <1>3, <1>4, <1>5, <1>6 DEF Next

(* The invariant of the whole argument, for any number of writers, keys,   *)
(* days and chunks: with write-through on, one pass at a time and no pass  *)
(* ended while it deletes merged objects.                                  *)
THEOREM Inductive == ASSUME SafeRegime PROVE Spec => []IInv
<1>1. IInv /\ [Next]_vars => IInv' BY IInvNext
<1>. QED BY IInvInit, <1>1, PTL DEF Spec

LEMMA HeldInCold ==
    ASSUME NEW k, NEW s, Held(k, s) PROVE InCold(k, s)
<1>1. PICK o \in Solid : \E r \in files[o] : r.key = k /\ s <= r.seq BY DEF Held
<1>2. PICK r \in files[o] : r.key = k /\ s <= r.seq BY <1>1
<1>3. r \in RowsOf(Listed) BY <1>2, SolidStored DEF RowsOf
<1>4. r.seq \in ColdSeqs(k) BY <1>2, <1>3 DEF ColdSeqs
<1>. QED BY <1>2, <1>4 DEF InCold

(* Every row of the hypertable is in a listed object, in that version or a *)
(* newer one, so a chunk may be dropped at any time.                       *)
THEOREM EvictionLosesNothing == ASSUME SafeRegime PROVE Spec => []HotCoveredByCold
<1>1. IInv => HotCoveredByCold BY HeldInCold DEF IInv, HotHeld, HotCoveredByCold
<1>. QED BY Inductive, <1>1, PTL

(* Whatever was acknowledged and not deleted is in a listed object, in     *)
(* that version or a newer one.                                            *)
THEOREM AcknowledgedIsDurable == ASSUME SafeRegime PROVE Spec => []AckedDurable
<1>1. IInv => AckedDurable BY HeldInCold DEF IInv, AckedHeld, AckedDurable
<1>. QED BY Inductive, <1>1, PTL

-----------------------------------------------------------------------------
(* In the safe regime the tiered store implements VersionStore: the newest *)
(* listed version of each key only ever rises, and it rises for the whole  *)
(* batch at once, in the step that records the staging object.  The        *)
(* argument: each step keeps what solid objects hold (SolidKept), and      *)
(* every row a reader finds in a listed object after a step was held       *)
(* before it, unless it is a row of the batch that the step records.       *)

-----------------------------------------------------------------------------
(* Rows that appear in listed objects                                      *)

(* Every row listed after the step is held before it.                      *)
NothingNew == \A o \in Listed' \cap DOMAIN files' :
                  \A r \in files'[o] : Held(r.key, r.seq)

RowsHeldNext(o) == \A r \in files[o] : HeldNext(r.key, r.seq)

LEMMA RowsStayHeld ==
    ASSUME TypeOK, TypeOK', SolidKept, NEW o \in DOMAIN files, RowsHeld(o)
    PROVE  RowsHeldNext(o)
<1>1. ASSUME NEW r \in files[o] PROVE HeldNext(r.key, r.seq)
  <2>1. r.seq \in Nat /\ Held(r.key, r.seq) BY <1>1, RowTypes DEF RowsHeld
  <2>. QED BY <2>1, HeldKept
<1>. QED BY <1>1 DEF RowsHeldNext

LEMMA NothingNewHeld ==
    ASSUME TypeOK, TypeOK', SolidKept, NothingNew PROVE ListedHeld'
<1>1. ASSUME NEW o \in Listed' \cap DOMAIN files', NEW r \in files'[o]
      PROVE  HeldNext(r.key, r.seq)
  <2>1. r.seq \in Nat BY <1>1, SizesAssumption DEF TypeOK, Row
  <2>2. Held(r.key, r.seq) BY <1>1 DEF NothingNew
  <2>. QED BY <2>1, <2>2, HeldKept
<1>. QED BY <1>1 DEF ListedHeld, RowsHeld, Held, HeldNext

LEMMA FilesSameNothingNew ==
    ASSUME ListedHeld, files' = files, Listed' \subseteq Listed PROVE NothingNew
BY DEF ListedHeld, RowsHeld, NothingNew

(* The passes and the objects they are about to list stay as they are.     *)
LEMMA PassHeldKept ==
    ASSUME IInv, TypeOK', SolidKept, PassHeld, pass' = pass,
           \A o \in DOMAIN files : o.kind = "cold" => files'[o] = files[o]
    PROVE  PassHeld'
<1>. USE DEF IInv
<1>1. ASSUME NEW p \in Passes, pass[p].pc = "record" PROVE RowsHeld(pass[p].out)'
  <2>1. /\ pass[p].out \in DOMAIN files /\ pass[p].out.kind = "cold"
        /\ RowsHeld(pass[p].out)
    BY <1>1 DEF PassSound, PassHeld
  <2>2. RowsHeldNext(pass[p].out) BY <2>1, RowsStayHeld
  <2>. QED BY <2>1, <2>2 DEF RowsHeld, RowsHeldNext, Held, HeldNext
<1>2. ASSUME NEW p \in Passes, pass[p].pc = "recordExport",
             NEW c \in pass[p].left, IsLowest(c, pass[p].left)
      PROVE  RowsHeld(ColdKey(DayOf(c), 0))'
  <2>. DEFINE o == ColdKey(DayOf(c), 0)
  <2>1. o \in DOMAIN files /\ RowsHeld(o) BY <1>2 DEF PassSound, PassHeld
  <2>2. o.kind = "cold" BY DEF ColdKey
  <2>. HIDE DEF o
  <2>3. RowsHeldNext(o) BY <2>1, RowsStayHeld
  <2>4. RowsHeld(o)' BY <2>1, <2>2, <2>3 DEF RowsHeld, RowsHeldNext, Held, HeldNext, o
  <2>. QED BY <2>4 DEF o
<1>. QED BY <1>1, <1>2 DEF PassHeld, IsLowest

-----------------------------------------------------------------------------
(* One lemma per kind of step                                              *)

Quietly == NothingNew /\ PassHeld'

LEMMA ClientQuiet ==
    ASSUME StoreInv, IInv', SolidKept, UNCHANGED <<files, manifest, pass>>
    PROVE  Quietly
<1>1. NothingNew BY FilesSameNothingNew DEF StoreInv, Listed
<1>2. PassHeld' BY PassHeldKept DEF StoreInv, IInv
<1>. QED BY <1>1, <1>2 DEF Quietly

LEMMA PutStagingQuiet ==
    ASSUME StoreInv, IInv', SolidKept, NEW w \in Writers, PutStaging(w)
    PROVE  Quietly
<1>. DEFINE key == StagingKey(writer[w].seq)
<1>. USE DEF StoreInv, IInv
<1>1. /\ key \notin Listed /\ key.kind = "staging"
      /\ Listed' = Listed /\ pass' = pass
  BY DEF PutStaging, Unrecorded, StagingKey, Listed
<1>2. /\ DOMAIN files' = DOMAIN files \cup {key}
      /\ \A o \in DOMAIN files : o # key => files'[o] = files[o]
  BY WithFileStep DEF PutStaging
<1>. HIDE DEF key
<1>3. NothingNew BY <1>1, <1>2 DEF NothingNew, ListedHeld, RowsHeld
<1>4. PassHeld' BY <1>1, <1>2, PassHeldKept
<1>. QED BY <1>3, <1>4 DEF Quietly

(* A pass that is not about to list anything.                              *)
LEMMA QuietPassQuiet ==
    ASSUME StoreInv, SafeRegime, NEW p \in Passes, UNCHANGED files, Listed' \subseteq Listed,
           pass'[p].pc \notin {"record", "recordExport"}
    PROVE  Quietly
<1>1. NothingNew BY FilesSameNothingNew DEF StoreInv
<1>2. PassHeld' BY OnlyPass DEF PassHeld
<1>. QED BY <1>1, <1>2 DEF Quietly

LEMMA CompactQuiet ==
    ASSUME StoreInv, IInv', SafeRegime, SolidKept, NEW p \in Passes, Compact(p)
    PROVE  Quietly
<1>. USE DEF StoreInv, IInv
<1>1. PICK first \in pass[p].todo, s \in 0..MaxSeq :
        LET group == GroupOf(first, pass[p].todo)
            out == ColdKey(DayOf(first.lo), s)
        IN  /\ files' = WithFile(out, Dedup(RowsOf(ObjectsOf(group))))
            /\ pass' = [pass EXCEPT ![p].pc = "record", ![p].todo = @ \ group,
                                    ![p].objs = group, ![p].out = out]
  BY DEF Compact
<1>. DEFINE group == GroupOf(first, pass[p].todo)
            out == ColdKey(DayOf(first.lo), s)
            inputs == RowsOf(ObjectsOf(group))
<1>2. pass[p].pc = "compact" /\ Listed' = Listed BY DEF Compact, Listed
<1>3. files' = WithFile(out, Dedup(inputs)) BY <1>1
<1>4. pass'[p].pc = "record" /\ pass'[p].out = out BY <1>1 DEF TypeOK
<1>5. group \subseteq ListedStaging BY <1>2 DEF GroupOf, PassSound
<1>6. \A o \in ObjectsOf(group) \cap DOMAIN files : o \in Solid
  BY <1>5 DEF ObjectsOf, ListedStaging, Listed, Solid
<1>7. ASSUME NEW r \in Dedup(inputs) PROVE r.seq \in Nat /\ Held(r.key, r.seq)
  <2>1. r \in inputs BY <1>7 DEF Dedup
  <2>2. PICK o \in ObjectsOf(group) \cap DOMAIN files : r \in files[o] BY <2>1 DEF RowsOf
  <2>3. o \in Solid BY <1>6, <2>2
  <2>4. r.seq \in Nat BY <2>2, RowTypes
  <2>. QED BY <2>2, <2>3, <2>4 DEF Held
<1>. HIDE DEF group, inputs, out
<1>8. /\ DOMAIN files' = DOMAIN files \cup {out} /\ files'[out] = Dedup(inputs)
      /\ \A o \in DOMAIN files : o # out => files'[o] = files[o]
  BY <1>3, WithFileStep
<1>9. NothingNew
  <2>1. ASSUME NEW o \in Listed' \cap DOMAIN files', NEW r \in files'[o]
        PROVE  Held(r.key, r.seq)
    <3>1. CASE o = out BY <1>7, <1>8, <2>1, <3>1
    <3>2. CASE o # out BY <1>2, <1>8, <2>1, <3>2 DEF ListedHeld, RowsHeld
    <3>. QED BY <3>1, <3>2
  <2>. QED BY <2>1 DEF NothingNew
<1>10. PassHeld'
  <2>1. \A r \in files'[out] : HeldNext(r.key, r.seq) BY <1>7, <1>8, HeldKept
  <2>2. RowsHeld(out)' BY <2>1 DEF RowsHeld, Held, HeldNext, out
  <2>3. RowsHeld(pass[p].out)' BY <1>4, <2>2 DEF RowsHeld
  <2>4. \A q \in Passes : q = p BY OnlyPass
  <2>. QED BY <1>4, <2>3, <2>4 DEF PassHeld
<1>. QED BY <1>9, <1>10 DEF Quietly

(* The object that becomes listed was held as a whole while it was pending.*)
LEMMA RecordObjectQuiet ==
    ASSUME StoreInv, SafeRegime, NEW p \in Passes, NEW o, RowsHeld(o), files' = files,
           NEW lo, NEW hi, manifest' = Recorded([obj |-> o, lo |-> lo, hi |-> hi]),
           pass'[p].pc \notin {"record", "recordExport"}
    PROVE  Quietly
<1>1. Listed' \subseteq Listed \cup {o} BY DEF Listed, Recorded
<1>2. NothingNew BY <1>1 DEF StoreInv, ListedHeld, RowsHeld, NothingNew
<1>3. PassHeld' BY OnlyPass DEF PassHeld
<1>. QED BY <1>2, <1>3 DEF Quietly

LEMMA RecordColdQuiet ==
    ASSUME StoreInv, SafeRegime, NEW p \in Passes, RecordCold(p) PROVE Quietly
<1>1. PICK lo, hi : manifest' = Recorded([obj |-> pass[p].out, lo |-> lo, hi |-> hi])
  BY DEF RecordCold
<1>2. RowsHeld(pass[p].out) /\ files' = files BY DEF StoreInv, PassHeld, RecordCold
<1>3. pass'[p].pc = "delete" BY DEF RecordCold, StoreInv, IInv, TypeOK
<1>. QED BY <1>1, <1>2, <1>3, RecordObjectQuiet

LEMMA RecordExportQuiet ==
    ASSUME StoreInv, SafeRegime, NEW p \in Passes, RecordExport(p) PROVE Quietly
<1>1. PICK c \in pass[p].left :
            /\ IsLowest(c, pass[p].left)
            /\ manifest' = Recorded([obj |-> ColdKey(DayOf(c), 0), lo |-> c, hi |-> c + ChunkLen])
  BY DEF RecordExport
<1>2. RowsHeld(ColdKey(DayOf(c), 0)) /\ files' = files
  BY <1>1 DEF StoreInv, PassHeld, RecordExport
<1>3. pass'[p].pc = "drop" BY DEF RecordExport, StoreInv, IInv, TypeOK
<1>. QED BY <1>1, <1>2, <1>3, RecordObjectQuiet

LEMMA DeleteStagingQuiet ==
    ASSUME StoreInv, SafeRegime, NEW p \in Passes, DeleteStaging(p) PROVE Quietly
<1>1. PICK m : files' = WithoutFile(m.obj) BY DEF DeleteStaging
<1>2. /\ DOMAIN files' \subseteq DOMAIN files
      /\ \A o \in DOMAIN files' : files'[o] = files[o]
  BY <1>1, WithoutFileStep
<1>3. pass'[p].pc = "forget" /\ Listed' = Listed
  BY DEF DeleteStaging, StoreInv, IInv, TypeOK, Listed
<1>4. NothingNew BY <1>2, <1>3 DEF StoreInv, ListedHeld, RowsHeld, NothingNew
<1>5. PassHeld' BY <1>3, OnlyPass DEF PassHeld
<1>. QED BY <1>4, <1>5 DEF Quietly

LEMMA ForgetStagingQuiet ==
    ASSUME StoreInv, SafeRegime, NEW p \in Passes, ForgetStaging(p) PROVE Quietly
<1>1. PICK m : /\ manifest' = Forgotten(m.obj)
               /\ pass' = [pass EXCEPT ![p].pc = AfterForget(pass[p].objs \ {m}),
                                       ![p].objs = @ \ {m}]
  BY DEF ForgetStaging
<1>2. Listed' \subseteq Listed BY <1>1 DEF Listed, Forgotten
<1>3. pass'[p].pc \in {"compact", "delete"} BY <1>1 DEF AfterForget, StoreInv, IInv, TypeOK
<1>4. files' = files BY DEF ForgetStaging
<1>. QED BY <1>2, <1>3, <1>4, QuietPassQuiet

LEMMA ExportChunkQuiet ==
    ASSUME StoreInv, IInv', SafeRegime, SolidKept, NEW p \in Passes, ExportChunk(p)
    PROVE  Quietly
<1>. USE DEF StoreInv, IInv
<1>1. PICK c \in pass[p].left \ pass[p].covered :
            /\ IsLowest(c, pass[p].left)
            /\ files' = WithFile(ColdKey(DayOf(c), 0), HotRows(KeysOfChunk(c)))
  BY DEF ExportChunk
<1>. DEFINE key == ColdKey(DayOf(c), 0)
            rows == HotRows(KeysOfChunk(c))
<1>2. pass'[p].pc = "recordExport" /\ pass'[p].left = pass[p].left /\ Listed' = Listed
  BY DEF ExportChunk, TypeOK, Listed
<1>3. ASSUME NEW r \in rows PROVE r.seq \in Nat /\ Held(r.key, r.seq)
  <2>1. r.key \in Key /\ hot[r.key] # 0 /\ r.seq = hot[r.key]
    BY <1>3 DEF HotRows, KeysOfChunk
  <2>. QED BY <2>1, SizesAssumption DEF HotHeld, TypeOK
<1>4. files' = WithFile(key, rows) BY <1>1
<1>. HIDE DEF rows, key
<1>5. /\ DOMAIN files' = DOMAIN files \cup {key} /\ files'[key] = rows
      /\ \A o \in DOMAIN files : o # key => files'[o] = files[o]
  BY <1>4, WithFileStep
<1>6. NothingNew
  <2>1. ASSUME NEW o \in Listed' \cap DOMAIN files', NEW r \in files'[o]
        PROVE  Held(r.key, r.seq)
    <3>1. CASE o = key BY <1>3, <1>5, <2>1, <3>1
    <3>2. CASE o # key BY <1>2, <1>5, <2>1, <3>2 DEF ListedHeld, RowsHeld
    <3>. QED BY <3>1, <3>2
  <2>. QED BY <2>1 DEF NothingNew
<1>7. PassHeld'
  <2>1. \A r \in files'[key] : HeldNext(r.key, r.seq) BY <1>3, <1>5, HeldKept
  <2>2. RowsHeld(key)' BY <2>1 DEF RowsHeld, Held, HeldNext, key
  <2>3. ASSUME NEW d \in pass[p].left, IsLowest(d, pass[p].left) PROVE d = c
    <3>1. c \in Nat /\ d \in Nat /\ c <= d /\ d <= c
      BY <1>1, <2>3 DEF TypeOK, IsLowest
    <3>. QED BY <3>1
  <2>4. ASSUME NEW d \in pass'[p].left, IsLowest(d, pass'[p].left)
        PROVE  RowsHeld(ColdKey(DayOf(d), 0))'
    <3>1. d = c BY <1>2, <2>3, <2>4
    <3>. QED BY <2>2, <3>1 DEF key
  <2>5. \A q \in Passes : q = p BY OnlyPass
  <2>. QED BY <1>2, <2>4, <2>5 DEF PassHeld
<1>. QED BY <1>6, <1>7 DEF Quietly

(* The one step that adds: the rows of the batch, nothing else.            *)
LEMMA RecordStagingAdds ==
    ASSUME StoreInv, IInv', SolidKept, NEW w \in Writers, RecordStaging(w)
    PROVE  /\ ListedHeld' /\ PassHeld'
           /\ \A k \in writer[w].keys : HeldNext(k, writer[w].seq)
           /\ \A o \in Listed' \cap DOMAIN files' : \A r \in files'[o] :
                \/ Held(r.key, r.seq)
                \/ r.key \in writer[w].keys /\ r.seq = writer[w].seq
<1>. DEFINE s == writer[w].seq
            key == StagingKey(s)
<1>. USE DEF StoreInv, IInv
<1>1. /\ writer[w].pc = "record" /\ files' = files /\ pass' = pass
      /\ key \in DOMAIN files /\ files[key] = BatchRows(writer[w].keys, s)
      /\ s \in Nat
  BY WriterTypes DEF RecordStaging, Unrecorded
<1>2. PICK lo, hi : manifest' = Recorded([obj |-> key, lo |-> lo, hi |-> hi])
  BY DEF RecordStaging
<1>3. Listed' \subseteq Listed \cup {key} /\ key \in Listed'
  <2>. DEFINE new == [obj |-> key, lo |-> lo, hi |-> hi]
  <2>1. new.obj = key /\ manifest' \subseteq manifest \cup {new} /\ new \in manifest'
    BY <1>2 DEF Recorded
  <2>. HIDE DEF new, key
  <2>. QED BY <2>1 DEF Listed
<1>4. key \in Solid' BY <1>1, <1>3 DEF Solid, StagingKey
<1>. HIDE DEF key
<1>5. \A r \in files[key] : r.key \in writer[w].keys /\ r.seq = s BY <1>1 DEF BatchRows
<1>6. ASSUME NEW r \in files[key] PROVE HeldNext(r.key, r.seq)
  <2>1. r.seq <= r.seq BY <1>1, <1>5
  <2>. QED BY <1>1, <1>4, <2>1 DEF HeldNext
<1>7. ASSUME NEW o \in Listed' \cap DOMAIN files' PROVE RowsHeldNext(o)
  <2>1. CASE o = key BY <1>6, <2>1 DEF RowsHeldNext
  <2>2. CASE o # key BY <1>1, <1>3, <2>2, RowsStayHeld DEF ListedHeld
  <2>. QED BY <2>1, <2>2
<1>8. ListedHeld' BY <1>1, <1>7 DEF ListedHeld, RowsHeld, RowsHeldNext, Held, HeldNext
<1>9. PassHeld' BY <1>1, PassHeldKept
<1>10. ASSUME NEW k \in writer[w].keys PROVE HeldNext(k, s)
  <2>1. [key |-> k, seq |-> s] \in files[key] BY <1>1, <1>10 DEF BatchRows
  <2>. QED BY <1>6, <2>1
<1>11. \A o \in Listed' \cap DOMAIN files' : \A r \in files'[o] :
            Held(r.key, r.seq) \/ (r.key \in writer[w].keys /\ r.seq = s)
  BY <1>1, <1>3, <1>5 DEF ListedHeld, RowsHeld
<1>. QED BY <1>8, <1>9, <1>10, <1>11

-----------------------------------------------------------------------------
(* The invariant                                                           *)

LEMMA StoreInvNext ==
    ASSUME SafeRegime, StoreInv, [Next]_vars
    PROVE  /\ StoreInv' /\ SolidKept
           /\ \/ NothingNew
              \/ \E w \in Writers : RecordStaging(w)
<1>1. IInv' /\ SolidKept BY IInvNext DEF StoreInv
<1>2. ASSUME Quietly PROVE StoreInv' /\ NothingNew
  BY <1>1, <1>2, NothingNewHeld DEF Quietly, StoreInv, IInv
<1>3. ASSUME UNCHANGED <<files, manifest, pass>> PROVE Quietly
  BY <1>1, <1>3, ClientQuiet
<1>4. ASSUME NEW w \in Writers, WriterNext(w)
      PROVE  Quietly \/ (StoreInv' /\ RecordStaging(w))
  <2>1. CASE RecordStaging(w) BY <1>1, <2>1, RecordStagingAdds DEF StoreInv
  <2>2. CASE PutStaging(w) BY <1>1, <2>2, PutStagingQuiet
  <2>3. CASE (\E keys \in Batches : BeginWrite(w, keys)) \/ UpsertHot(w) \/ FailWrite(w)
    BY <1>3, <2>3 DEF BeginWrite, UpsertHot, FailWrite
  <2>. QED BY <1>4, <2>1, <2>2, <2>3 DEF WriterNext
<1>5. ASSUME NEW tags, NEW lo, NEW hi, DeleteRows(tags, lo, hi) PROVE Quietly
  BY <1>3, <1>5 DEF DeleteRows
<1>6. ASSUME NEW p \in Passes, PassStep(p) \/ CompactFails(p) \/ InterruptPass(p)
      PROVE  Quietly
  <2>0. pass \in [Passes -> PassType] BY DEF StoreInv, IInv, TypeOK, PassType
  <2>1. ASSUME UNCHANGED <<files, manifest>>, pass'[p].pc \notin {"record", "recordExport"}
        PROVE  Quietly
    BY <2>1, QuietPassQuiet DEF Listed
  <2>2. CASE ListStaging(p) BY <2>0, <2>1, <2>2 DEF ListStaging, IdlePass
  <2>3. ASSUME NEW cutoff, ListChunks(p, cutoff) PROVE Quietly
    BY <2>0, <2>1, <2>3 DEF ListChunks, IdlePass
  <2>4. CASE ListIntervals(p) BY <2>0, <2>1, <2>4 DEF ListIntervals
  <2>5. ASSUME NEW c, DropChunk(p, c) PROVE Quietly
    BY <2>0, <2>1, <2>5 DEF DropChunk, NextEvict
  <2>6. CASE EvictCovered(p) \/ DropExported(p)
    BY <2>5, <2>6 DEF EvictCovered, DropExported
  <2>7. CASE CompactFails(p) \/ InterruptPass(p)
    BY <2>0, <2>1, <2>7 DEF CompactFails, InterruptPass, IdlePass
  <2>8. CASE Compact(p) \/ ExportChunk(p)
    BY <1>1, <2>8, CompactQuiet, ExportChunkQuiet
  <2>9. CASE RecordCold(p) \/ DeleteStaging(p) \/ ForgetStaging(p) \/ RecordExport(p)
    BY <2>9, RecordColdQuiet, DeleteStagingQuiet, ForgetStagingQuiet, RecordExportQuiet
  <2>. QED BY <1>6, <2>2, <2>3, <2>4, <2>6, <2>7, <2>8, <2>9 DEF PassStep
<1>7. ASSUME UNCHANGED vars PROVE Quietly
  <2>1. UNCHANGED <<files, manifest, pass>> BY <1>7 DEF vars
  <2>. QED BY <1>3, <2>1
<1>8. Quietly \/ \E w \in Writers : StoreInv' /\ RecordStaging(w)
  BY <1>4, <1>5, <1>6, <1>3, <1>7 DEF Next, vars
<1>. QED BY <1>1, <1>2, <1>8

LEMMA StoreInvInit == Init => StoreInv
<1>. SUFFICES ASSUME Init PROVE StoreInv OBVIOUS
<1>1. \A p \in Passes : pass[p].pc = "idle" BY DEF Init, IdlePass
<1>2. PassHeld BY <1>1 DEF PassHeld
<1>3. ListedHeld BY DEF Init, ListedHeld, Listed
<1>. QED BY <1>2, <1>3, IInvInit DEF StoreInv

(* The store never serves a row it does not hold: in the safe regime every *)
(* row of a listed object, one that a later merge or export will overwrite *)
(* included, is in an object that no pass overwrites.                      *)
THEOREM StoreInvariant == ASSUME SafeRegime PROVE Spec => []StoreInv
<1>1. StoreInv /\ [Next]_vars => StoreInv' BY StoreInvNext
<1>. QED BY StoreInvInit, <1>1, PTL DEF Spec

-----------------------------------------------------------------------------
(* The newest listed version                                               *)

LEMMA NewestIsHighestNext ==
    ASSUME TypeOK', NEW k
    PROVE  IsHighest(Newest(k)', {0} \cup ColdSeqs(k)') /\ Newest(k)' \in Nat
<1>1. ColdSeqs(k)' \in SUBSET (0..MaxSeq)
  BY SizesAssumption DEF TypeOK, Row, ColdSeqs, RowsOf
<1>. QED BY <1>1, HighestOf DEF Newest

(* What is held is listed, so the newest listed version is as new.         *)
LEMMA HeldNewest ==
    ASSUME TypeOK, NEW k, NEW s \in Nat, Held(k, s) PROVE s <= Newest(k)
<1>1. PICK n \in ColdSeqs(k) : s <= n BY HeldInCold DEF InCold
<1>2. n \in Nat BY SizesAssumption DEF TypeOK, Row, ColdSeqs, RowsOf
<1>3. n <= Newest(k) /\ Newest(k) \in Nat
  BY NewestIsHighest DEF IsHighest
<1>. QED BY <1>1, <1>2, <1>3

LEMMA HeldNextNewest ==
    ASSUME TypeOK', NEW k, NEW s \in Nat, HeldNext(k, s) PROVE s <= Newest(k)'
<1>1. PICK u \in Solid' : \E q \in files'[u] : q.key = k /\ s <= q.seq BY DEF HeldNext
<1>2. PICK q \in files'[u] : q.key = k /\ s <= q.seq BY <1>1
<1>3. u \in Listed' \cap DOMAIN files' BY DEF Solid
<1>4. q \in RowsOf(Listed)' BY <1>2, <1>3 DEF RowsOf
<1>5. q.seq \in ColdSeqs(k)' BY <1>2, <1>4 DEF ColdSeqs
<1>6. q.seq \in Nat BY <1>2, <1>3, SizesAssumption DEF TypeOK, Row
<1>7. q.seq <= Newest(k)' /\ Newest(k)' \in Nat
  BY <1>5, NewestIsHighestNext DEF IsHighest
<1>. QED BY <1>2, <1>6, <1>7

(* No key ever falls back to an older version.                             *)
LEMMA NewestRises ==
    ASSUME StoreInv, TypeOK', SolidKept, NEW k PROVE Newest(k) <= Newest(k)'
<1>. USE DEF StoreInv, IInv
<1>1. Newest(k) \in Nat /\ Newest(k)' \in Nat
  BY NewestIsHighest, NewestIsHighestNext
<1>2. CASE Newest(k) = 0 BY <1>1, <1>2
<1>3. CASE Newest(k) # 0
  <2>1. Newest(k) \in ColdSeqs(k) BY <1>3, NewestIsHighest DEF IsHighest
  <2>2. PICK r \in RowsOf(Listed) : r.key = k /\ r.seq = Newest(k) BY <2>1 DEF ColdSeqs
  <2>3. Held(k, Newest(k)) BY <2>2 DEF RowsOf, ListedHeld, RowsHeld
  <2>4. HeldNext(k, Newest(k)) BY <1>1, <2>3, HeldKept
  <2>. QED BY <1>1, <2>4, HeldNextNewest
<1>. QED BY <1>2, <1>3

(* A row of the next state with the newest version, if there is one.       *)
LEMMA NewestNextListed ==
    ASSUME TypeOK', NEW k, Newest(k)' # 0
    PROVE  \E o \in Listed' \cap DOMAIN files' : \E r \in files'[o] :
                r.key = k /\ r.seq = Newest(k)'
<1>1. Newest(k)' \in ColdSeqs(k)' BY NewestIsHighestNext DEF IsHighest
<1>2. PICK r \in RowsOf(Listed)' : r.key = k /\ r.seq = Newest(k)' BY <1>1 DEF ColdSeqs
<1>. QED BY <1>2 DEF RowsOf

-----------------------------------------------------------------------------
(* Refinement                                                              *)

NewestMap == [k \in Key |-> Newest(k)]

LEMMA QuietStutters ==
    ASSUME StoreInv, TypeOK', SolidKept, NothingNew PROVE NewestMap' = NewestMap
<1>. USE DEF StoreInv, IInv
<1>1. ASSUME NEW k \in Key PROVE Newest(k)' = Newest(k)
  <2>1. Newest(k) \in Nat /\ Newest(k)' \in Nat
    BY NewestIsHighest, NewestIsHighestNext
  <2>2. Newest(k) <= Newest(k)' BY NewestRises
  <2>3. Newest(k)' <= Newest(k)
    <3>1. CASE Newest(k)' = 0 BY <2>1, <3>1
    <3>2. CASE Newest(k)' # 0
      <4>1. PICK o \in Listed' \cap DOMAIN files' :
                \E r \in files'[o] : r.key = k /\ r.seq = Newest(k)'
        BY <3>2, NewestNextListed
      <4>2. Held(k, Newest(k)') BY <4>1 DEF NothingNew
      <4>. QED BY <2>1, <4>2, HeldNewest
    <3>. QED BY <3>1, <3>2
  <2>. QED BY <2>1, <2>2, <2>3
<1>. QED BY <1>1 DEF NewestMap

LEMMA RecordStagingCommits ==
    ASSUME StoreInv, IInv', SolidKept, NEW w \in Writers, RecordStaging(w)
    PROVE  NewestMap' = [k \in Key |-> IF k \in writer[w].keys /\ Newest(k) < writer[w].seq
                                        THEN writer[w].seq ELSE Newest(k)]
<1>. DEFINE s == writer[w].seq
<1>. USE DEF StoreInv, IInv
<1>1. s \in Nat /\ TypeOK' BY WriterTypes DEF RecordStaging
<1>2. /\ \A k \in writer[w].keys : HeldNext(k, s)
      /\ \A o \in Listed' \cap DOMAIN files' : \A r \in files'[o] :
            Held(r.key, r.seq) \/ (r.key \in writer[w].keys /\ r.seq = s)
  BY RecordStagingAdds
<1>. HIDE DEF s
<1>3. ASSUME NEW k \in Key
      PROVE  Newest(k)' = IF k \in writer[w].keys /\ Newest(k) < s THEN s ELSE Newest(k)
  <2>1. Newest(k) \in Nat /\ Newest(k)' \in Nat
    BY <1>1, NewestIsHighest, NewestIsHighestNext
  <2>2. Newest(k) <= Newest(k)' BY <1>1, NewestRises
  <2>3. k \in writer[w].keys => s <= Newest(k)' BY <1>1, <1>2, HeldNextNewest
  <2>4. \/ Newest(k)' <= Newest(k)
        \/ k \in writer[w].keys /\ Newest(k)' = s
    <3>1. CASE Newest(k)' = 0 BY <2>1, <3>1
    <3>2. CASE Newest(k)' # 0
      <4>1. PICK o \in Listed' \cap DOMAIN files' :
                \E r \in files'[o] : r.key = k /\ r.seq = Newest(k)'
        BY <1>1, <3>2, NewestNextListed
      <4>2. \/ Held(k, Newest(k)')
            \/ k \in writer[w].keys /\ Newest(k)' = s
        BY <1>2, <4>1
      <4>. QED BY <2>1, <4>2, HeldNewest
    <3>. QED BY <3>1, <3>2
  <2>. QED BY <1>1, <2>1, <2>2, <2>3, <2>4
<1>. QED BY <1>3 DEF NewestMap, s

LEMMA CommitStep ==
    ASSUME StoreInv, IInv', SolidKept, NEW w \in Writers, RecordStaging(w)
    PROVE  Versions!Next
<1>1. /\ writer[w].keys \in SUBSET Key /\ writer[w].seq \in 1..MaxSeq
  BY WriterTypes DEF RecordStaging, StoreInv, IInv
<1>2. NewestMap' = [k \in Key |-> IF k \in writer[w].keys /\ Newest(k) < writer[w].seq
                                   THEN writer[w].seq ELSE Newest(k)]
  BY RecordStagingCommits
<1>3. Versions!Commit(writer[w].keys, writer[w].seq)
  BY <1>2 DEF Versions!Commit, NewestMap
<1>. QED BY <1>1, <1>3 DEF Versions!Next

LEMMA VersionsInit == Init => Versions!Init
<1>. SUFFICES ASSUME Init PROVE Versions!Init OBVIOUS
<1>1. ASSUME NEW k \in Key PROVE Newest(k) = 0
  <2>1. ColdSeqs(k) = {} BY DEF Init, ColdSeqs, RowsOf, Listed
  <2>2. IsHighest(Newest(k), {0} \cup ColdSeqs(k)) BY TypeInit, NewestIsHighest
  <2>. QED BY <2>1, <2>2 DEF IsHighest
<1>. QED BY <1>1 DEF Versions!Init

(* The store implements its abstract specification: whatever tiering does, *)
(* the newest durable version of a key only rises, and a batch becomes     *)
(* durable as a whole.                                                     *)
THEOREM ImplementsVersionStore == ASSUME SafeRegime PROVE Spec => VersionsOnlyRise
<1>1. Init => Versions!Init BY VersionsInit
<1>2. StoreInv /\ [Next]_vars => [Versions!Next]_NewestMap
  <2>. SUFFICES ASSUME StoreInv, [Next]_vars PROVE [Versions!Next]_NewestMap OBVIOUS
  <2>1. /\ StoreInv' /\ SolidKept
        /\ NothingNew \/ \E w \in Writers : RecordStaging(w)
    BY StoreInvNext
  <2>2. CASE NothingNew BY <2>1, <2>2, QuietStutters DEF StoreInv, IInv
  <2>3. CASE \E w \in Writers : RecordStaging(w) BY <2>1, <2>3, CommitStep DEF StoreInv
  <2>. QED BY <2>1, <2>2, <2>3
<1>. QED BY StoreInvariant, <1>1, <1>2, PTL DEF Spec, VersionsOnlyRise, Versions!Spec, NewestMap
====
