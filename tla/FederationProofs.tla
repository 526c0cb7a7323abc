---- MODULE FederationProofs ----
(***************************************************************************)
(* In the safe regime, with one query at a time, an answer lacks nothing   *)
(* that was visible when the query came in, whatever is written, merged    *)
(* and evicted between its steps.  The argument: what was visible is in an *)
(* object that no later step writes (Fixed); its manifest row tells its    *)
(* range (RangeSound), so pruning picks it; and it stays as it is until it *)
(* is deleted, when the query that needs it fails instead of answering.    *)
(***************************************************************************)
EXTENDS Federation, TieredStoreDurability

-----------------------------------------------------------------------------
(* Fixed objects                                                           *)

(* What every step of the store does to objects and manifest: batches move *)
(* on, merged objects stay listed, fixed objects are never written, and a  *)
(* new manifest row tells the truth unless it lists an export.             *)
BatchesMoveOn ==
    /\ nextSeq \in Nat /\ nextSeq' \in Nat /\ nextSeq <= nextSeq'
    /\ \A w \in Writers : writer'[w].pc = "put" =>
            \/ writer[w].pc = "put" /\ writer'[w].seq = writer[w].seq
            \/ writer'[w].seq = nextSeq + 1

ColdStaysListed == \A o \in Listed : o.kind = "cold" => o \in Listed'

FixedStays ==
    \A o : Fixed(o) /\ o \in DOMAIN files' => o \in DOMAIN files /\ files'[o] = files[o]

NewInRange ==
    \A m \in manifest' : m \in manifest \/ IsExport(m.obj) \/
        (m.obj \in DOMAIN files' => \A r \in files'[m.obj] : InRange(r, m))

MergeInRange ==
    \A p \in Passes : pass[p].pc = "record" =>
        \A r \in files[pass[p].out] : \E m \in pass[p].objs : InRange(r, m)

Sound ==
    /\ BatchesMoveOn /\ ColdStaysListed /\ FixedStays /\ NewInRange
    /\ MergedOnce' /\ MergeInRange'

LEMMA FixedNext ==
    ASSUME BatchesMoveOn, ColdStaysListed, NEW o \in Object, Fixed(o) PROVE Fixed(o)'
<1>1. o.seq \in Nat BY SizesAssumption DEF Object
<1>2. CASE o.kind = "staging"
  <2>1. o.seq <= nextSeq /\ \A w \in Writers : writer[w].pc = "put" => writer[w].seq # o.seq
    BY <1>2 DEF Fixed
  <2>2. o.seq <= nextSeq' BY <1>1, <2>1 DEF BatchesMoveOn
  <2>3. o.seq # nextSeq + 1 BY <1>1, <2>1 DEF BatchesMoveOn
  <2>4. \A w \in Writers : writer'[w].pc = "put" => writer'[w].seq # o.seq
    BY <2>1, <2>3 DEF BatchesMoveOn
  <2>. QED BY <1>2, <2>2, <2>4 DEF Fixed
<1>3. CASE o.kind # "staging" BY <1>3 DEF Fixed, ColdStaysListed
<1>. QED BY <1>2, <1>3

LEMMA ListedFixed ==
    ASSUME IInv, NEW o \in Listed, ~ IsExport(o) PROVE o \in Object /\ Fixed(o)
<1>1. o \in Object BY ListedType DEF IInv
<1>2. CASE o.kind = "staging"
  <2>1. o = StagingKey(o.seq) BY <1>2 DEF IInv, ManifestKeyed, Listed
  <2>2. o.seq <= nextSeq BY DEF IInv, SeqsUsed
  <2>3. \A w \in Writers : writer[w].pc = "put" => writer[w].seq # o.seq
    BY <2>1 DEF IInv, Unrecorded
  <2>. QED BY <1>1, <1>2, <2>2, <2>3 DEF Fixed
<1>3. CASE o.kind # "staging"
  <2>1. o.kind = "cold" BY <1>1, <1>3 DEF Object
  <2>. QED BY <1>1, <2>1 DEF Fixed, IsExport
<1>. QED BY <1>2, <1>3

LEMMA SolidFixed == ASSUME IInv, NEW o \in Solid PROVE o \in Object /\ Fixed(o)
<1>1. o \in Listed BY SolidStored
<1>2. ~ IsExport(o) BY DEF Solid, Merging, IInv, PassSound, IsExport
<1>. QED BY <1>1, <1>2, ListedFixed

LEMMA RangeSoundNext ==
    ASSUME IInv, RangeSound, Sound PROVE RangeSound'
<1>1. ASSUME NEW m \in manifest', m.obj \in DOMAIN files', ~ IsExport(m.obj),
             NEW r \in files'[m.obj]
      PROVE  InRange(r, m)
  <2>1. CASE m \in manifest
    <3>1. m.obj \in Listed BY <2>1 DEF Listed
    <3>2. Fixed(m.obj) BY <1>1, <3>1, ListedFixed
    <3>3. m.obj \in DOMAIN files /\ files'[m.obj] = files[m.obj]
      BY <1>1, <3>2 DEF Sound, FixedStays
    <3>. QED BY <1>1, <2>1, <3>3 DEF RangeSound
  <2>2. CASE m \notin manifest BY <1>1, <2>2 DEF Sound, NewInRange
  <2>. QED BY <2>1, <2>2
<1>2. MergeInRange' BY DEF Sound
<1>. QED BY <1>1, <1>2 DEF RangeSound, MergeInRange, InRange, IsExport

-----------------------------------------------------------------------------
(* Steps of the clients                                                    *)

LEMMA CountersType == ASSUME TypeOK PROVE nextSeq \in Nat
BY SizesAssumption DEF TypeOK

LEMMA NothingMoves ==
    ASSUME IInv, MergedOnce, RangeSound, UNCHANGED <<files, manifest, pass>>
    PROVE  ColdStaysListed /\ FixedStays /\ NewInRange /\ MergedOnce' /\ MergeInRange'
<1>1. Listed' = Listed BY DEF Listed
<1>2. ColdStaysListed BY <1>1 DEF ColdStaysListed
<1>3. FixedStays BY DEF FixedStays
<1>4. NewInRange BY DEF NewInRange
<1>5. MergedOnce' BY <1>1 DEF MergedOnce, Merging
<1>6. MergeInRange' BY DEF RangeSound, MergeInRange, InRange
<1>. QED BY <1>2, <1>3, <1>4, <1>5, <1>6

LEMMA BeginWriteFixed ==
    ASSUME IInv, MergedOnce, RangeSound, NEW w \in Writers, NEW keys, BeginWrite(w, keys)
    PROVE  Sound
<1>1. UNCHANGED <<files, manifest, pass>> /\ nextSeq' = nextSeq + 1 BY DEF BeginWrite
<1>2. nextSeq \in Nat BY CountersType DEF IInv
<1>3. \A v \in Writers : writer'[v] = writer[v] \/ writer'[v].seq = nextSeq + 1
  BY DEF IInv, TypeOK, BeginWrite
<1>4. BatchesMoveOn BY <1>1, <1>2, <1>3 DEF BatchesMoveOn
<1>. QED BY <1>1, <1>4, NothingMoves DEF Sound

(* The number of a batch stays, and no writer goes back to its put.        *)
LEMMA SameBatches ==
    ASSUME IInv, nextSeq' = nextSeq,
           \A v \in Writers : writer'[v] = writer[v] \/ writer'[v].pc # "put"
    PROVE  BatchesMoveOn
BY CountersType DEF BatchesMoveOn, IInv

LEMMA ClientFixed ==
    ASSUME IInv, MergedOnce, RangeSound, UNCHANGED <<files, manifest, pass, nextSeq>>,
           \A v \in Writers : writer'[v] = writer[v] \/ writer'[v].pc # "put"
    PROVE  Sound
BY SameBatches, NothingMoves DEF Sound

LEMMA PutStagingFixed ==
    ASSUME IInv, MergedOnce, RangeSound, NEW w \in Writers, PutStaging(w) PROVE Sound
<1>. DEFINE key == StagingKey(writer[w].seq)
<1>1. /\ writer[w].pc = "put" /\ key.kind = "staging" /\ key.seq = writer[w].seq
      /\ UNCHANGED <<manifest, pass, nextSeq>>
  BY DEF PutStaging, StagingKey
<1>2. /\ DOMAIN files' = DOMAIN files \cup {key}
      /\ \A o \in DOMAIN files : o # key => files'[o] = files[o]
  BY WithFileStep DEF PutStaging
<1>3. \A v \in Writers : writer'[v] = writer[v] \/ writer'[v].pc # "put"
  BY DEF PutStaging, IInv, TypeOK
<1>. HIDE DEF key
<1>4. ~ Fixed(key) BY <1>1 DEF Fixed
<1>5. FixedStays BY <1>2, <1>4 DEF FixedStays
<1>6. Listed' = Listed BY <1>1 DEF Listed
<1>7. MergedOnce' /\ ColdStaysListed /\ NewInRange
  BY <1>1, <1>6 DEF MergedOnce, Merging, ColdStaysListed, NewInRange
<1>8. MergeInRange'
  <2>1. ASSUME NEW p \in Passes, pass[p].pc = "record"
        PROVE  files'[pass[p].out] = files[pass[p].out]
    BY <1>1, <1>2, <2>1 DEF IInv, PassSound
  <2>. QED BY <1>1, <2>1 DEF RangeSound, MergeInRange, InRange
<1>9. BatchesMoveOn BY <1>1, <1>3, SameBatches
<1>. QED BY <1>5, <1>7, <1>8, <1>9 DEF Sound

LEMMA RecordStagingFixed ==
    ASSUME IInv, MergedOnce, RangeSound, NEW w \in Writers, RecordStaging(w) PROVE Sound
<1>. DEFINE key == StagingKey(writer[w].seq)
<1>1. /\ writer[w].pc = "record" /\ UNCHANGED <<files, pass, nextSeq>>
      /\ files[key] = BatchRows(writer[w].keys, writer[w].seq)
      /\ key \notin Listed /\ key.kind = "staging" /\ key.seq = writer[w].seq
  BY DEF RecordStaging, IInv, Unrecorded, StagingKey
<1>2. PICK lo, hi : /\ \A k \in writer[w].keys : lo <= k.time /\ k.time <= hi
                    /\ manifest' = Recorded([obj |-> key, lo |-> lo, hi |-> hi])
  BY DEF RecordStaging
<1>. DEFINE new == [obj |-> key, lo |-> lo, hi |-> hi]
<1>3. manifest' = manifest \cup {new} /\ new.obj = key /\ new.lo = lo /\ new.hi = hi
  BY <1>1, <1>2 DEF Recorded, Listed
<1>4. \A v \in Writers : writer'[v] = writer[v] \/ writer'[v].pc # "put"
  BY DEF RecordStaging, IInv, TypeOK
<1>5. \A r \in files[key] : r.key \in writer[w].keys BY <1>1 DEF BatchRows
<1>6. \A o \in Listed : o.kind = "cold" => StagingKey(o.seq) # key
  BY <1>1 DEF IInv, Unrecorded, StagingKey
<1>. HIDE DEF key, new
<1>7. NewInRange BY <1>1, <1>2, <1>3, <1>5 DEF NewInRange, InRange
<1>8. Listed' = Listed \cup {key} BY <1>3 DEF Listed
<1>9. ColdStaysListed /\ FixedStays BY <1>1, <1>8 DEF ColdStaysListed, FixedStays
<1>10. MergedOnce' BY <1>1, <1>6, <1>8 DEF MergedOnce, Merging
<1>11. MergeInRange' BY <1>1 DEF RangeSound, MergeInRange, InRange
<1>12. BatchesMoveOn BY <1>1, <1>4, SameBatches
<1>. QED BY <1>7, <1>9, <1>10, <1>11, <1>12 DEF Sound

-----------------------------------------------------------------------------
(* Steps of a pass                                                         *)

LEMMA PassBatches ==
    ASSUME IInv, UNCHANGED <<nextSeq, writer>> PROVE BatchesMoveOn
BY SameBatches

(* A pass that is not deleting, and that writes and lists nothing.         *)
LEMMA QuietPassFixed ==
    ASSUME IInv, MergedOnce, SafeRegime, NEW p \in Passes,
           UNCHANGED <<files, manifest, nextSeq, writer>>,
           pass[p].pc \notin {"delete", "forget"}, pass'[p].pc # "record"
    PROVE  Sound
<1>1. Listed' = Listed BY DEF Listed
<1>2. Merging = {} BY OnlyPass DEF Merging
<1>3. MergedOnce' BY <1>1, <1>2 DEF MergedOnce
<1>4. MergeInRange' BY OnlyPass DEF MergeInRange
<1>5. ColdStaysListed /\ FixedStays /\ NewInRange
  BY <1>1 DEF ColdStaysListed, FixedStays, NewInRange
<1>. QED BY <1>3, <1>4, <1>5, PassBatches DEF Sound

LEMMA CompactFixed ==
    ASSUME IInv, MergedOnce, RangeSound, SafeRegime, NEW p \in Passes, Compact(p)
    PROVE  Sound
<1>. USE DEF IInv
<1>1. PICK first \in pass[p].todo, s \in 0..MaxSeq :
        LET group == GroupOf(first, pass[p].todo)
            out == ColdKey(DayOf(first.lo), s)
        IN  /\ IsGroupSeq(s, group)
            /\ files' = WithFile(out, Dedup(RowsOf(ObjectsOf(group))))
            /\ pass' = [pass EXCEPT ![p].pc = "record", ![p].todo = @ \ group,
                                    ![p].objs = group, ![p].out = out]
  BY DEF Compact
<1>. DEFINE group == GroupOf(first, pass[p].todo)
            out == ColdKey(DayOf(first.lo), s)
            inputs == RowsOf(ObjectsOf(group))
<1>2. /\ pass[p].pc = "compact" /\ UNCHANGED <<manifest, nextSeq, writer>>
  BY DEF Compact
<1>3. files' = WithFile(out, Dedup(inputs)) BY <1>1
<1>4. pass'[p].pc = "record" /\ pass'[p].objs = group /\ pass'[p].out = out
  BY <1>1 DEF TypeOK
<1>5. group \subseteq ListedStaging BY <1>2 DEF GroupOf, PassSound
<1>6. StagingKey(s) \in Listed
  <2>1. PICK m \in group : m.obj.seq = s BY <1>1 DEF IsGroupSeq, IsLowest
  <2>2. m.obj = StagingKey(s) BY <1>5, <2>1 DEF ManifestKeyed, ListedStaging
  <2>. QED BY <1>5, <2>1, <2>2 DEF Listed, ListedStaging
<1>7. out.kind = "cold" /\ out.seq = s BY DEF ColdKey
<1>8. \A r \in Dedup(inputs) : \E m \in group : InRange(r, m)
  <2>1. ASSUME NEW r \in Dedup(inputs) PROVE \E m \in group : InRange(r, m)
    <3>1. r \in inputs BY <2>1 DEF Dedup
    <3>2. PICK m \in group : m.obj \in DOMAIN files /\ r \in files[m.obj]
      BY <3>1 DEF RowsOf, ObjectsOf
    <3>3. m \in manifest /\ ~ IsExport(m.obj) BY <1>5 DEF ListedStaging, IsExport
    <3>. QED BY <3>2, <3>3 DEF RangeSound
  <2>. QED BY <2>1
<1>. HIDE DEF group, out, inputs
<1>9. /\ DOMAIN files' = DOMAIN files \cup {out} /\ files'[out] = Dedup(inputs)
      /\ \A o \in DOMAIN files : o # out => files'[o] = files[o]
  BY <1>3, WithFileStep
<1>10. Listed' = Listed BY <1>2 DEF Listed
<1>11. Merging = {} BY <1>2, OnlyPass DEF Merging
<1>12. ~ Fixed(out) BY <1>6, <1>7, <1>11 DEF Fixed, MergedOnce
<1>13. FixedStays BY <1>9, <1>12 DEF FixedStays
<1>14. MergedOnce' BY <1>10, <1>11 DEF MergedOnce
<1>15. MergeInRange'
  <2>1. \A r \in files'[pass'[p].out] : \E m \in pass'[p].objs : InRange(r, m)
    BY <1>4, <1>8, <1>9
  <2>. QED BY <2>1, OnlyPass DEF MergeInRange, InRange
<1>16. ColdStaysListed /\ NewInRange BY <1>2, <1>10 DEF ColdStaysListed, NewInRange
<1>. QED BY <1>2, <1>13, <1>14, <1>15, <1>16, PassBatches DEF Sound

(* A step that adds a manifest row for o.                                  *)
LEMMA RecordedStep ==
    ASSUME NEW o, NEW lo, NEW hi, manifest' = Recorded([obj |-> o, lo |-> lo, hi |-> hi])
    PROVE  /\ Listed' = Listed \cup {o}
           /\ \A m \in manifest' : m \in manifest \/ (m.obj = o /\ m.lo = lo /\ m.hi = hi)
<1>. DEFINE new == [obj |-> o, lo |-> lo, hi |-> hi]
<1>1. manifest' = {n \in manifest : n.obj # o} \cup {new} /\ new.obj = o
      /\ new.lo = lo /\ new.hi = hi
  BY DEF Recorded
<1>. HIDE DEF new
<1>2. \A x \in Listed' : x \in Listed \cup {o} BY <1>1 DEF Listed
<1>3. o \in Listed' BY <1>1 DEF Listed
<1>4. ASSUME NEW x \in Listed, x # o PROVE x \in Listed' BY <1>1, <1>4 DEF Listed
<1>. QED BY <1>1, <1>2, <1>3, <1>4

LEMMA RecordColdFixed ==
    ASSUME IInv, IInv', MergedOnce, RangeSound, SafeRegime, NEW p \in Passes, RecordCold(p)
    PROVE  Sound
<1>. DEFINE out == pass[p].out
<1>1. /\ pass[p].pc = "record" /\ UNCHANGED <<files, nextSeq, writer>>
      /\ pass' = [pass EXCEPT ![p].pc = "delete"]
  BY DEF RecordCold
<1>2. PICK lo \in {m.lo : m \in pass[p].objs}, hi \in {m.hi : m \in pass[p].objs} :
        /\ \A m \in pass[p].objs : lo <= m.lo /\ m.hi <= hi
        /\ manifest' = Recorded([obj |-> out, lo |-> lo, hi |-> hi])
  BY DEF RecordCold
<1>3. pass'[p].pc = "delete" /\ pass'[p].out = out BY <1>1 DEF IInv, TypeOK
<1>4. out.kind = "cold" /\ out.seq # 0 BY <1>1 DEF IInv, PassSound
<1>5. /\ Listed' = Listed \cup {out}
      /\ \A m \in manifest' : m \in manifest \/ (m.obj = out /\ m.lo = lo /\ m.hi = hi)
  BY <1>2, RecordedStep
<1>6. ASSUME NEW r \in files[out] PROVE lo <= r.key.time /\ r.key.time <= hi
  <2>1. PICK m \in pass[p].objs : InRange(r, m) BY <1>1, <1>6 DEF RangeSound
  <2>2. m \in Meta /\ pass[p].objs \subseteq Meta BY DEF IInv, TypeOK
  <2>3. lo \in Nat /\ hi \in Nat /\ m.lo \in Nat /\ m.hi \in Nat BY <1>2, <2>2 DEF Meta
  <2>4. out \in DOMAIN files BY <1>1 DEF IInv, PassSound
  <2>5. r.key.time \in Nat BY <1>6, <2>4, SizesAssumption DEF IInv, TypeOK, Row, Key
  <2>. QED BY <1>2, <2>1, <2>3, <2>5 DEF InRange
<1>. HIDE DEF out
<1>7. NewInRange BY <1>1, <1>5, <1>6 DEF NewInRange, InRange
<1>8. Merging = {} BY <1>1, OnlyPass DEF Merging
<1>9. MergedOnce'
  <2>1. p \in Merging' BY <1>3 DEF Merging
  <2>2. \A x : StagingKey(x) # out BY <1>4 DEF StagingKey
  <2>3. ASSUME NEW o \in Listed', o.kind = "cold", o.seq # 0, StagingKey(o.seq) \in Listed'
        PROVE  o = out
    BY <1>5, <1>8, <2>2, <2>3 DEF MergedOnce
  <2>. QED BY <1>3, <2>1, <2>3 DEF MergedOnce
<1>10. MergeInRange' BY <1>3, OnlyPass DEF MergeInRange
<1>11. ColdStaysListed /\ FixedStays BY <1>1, <1>5 DEF ColdStaysListed, FixedStays
<1>. QED BY <1>1, <1>7, <1>9, <1>10, <1>11, PassBatches DEF Sound

LEMMA DeleteStagingFixed ==
    ASSUME IInv, MergedOnce, SafeRegime, NEW p \in Passes, DeleteStaging(p) PROVE Sound
<1>1. /\ pass[p].pc = "delete" /\ UNCHANGED <<manifest, nextSeq, writer>>
      /\ pass' = [pass EXCEPT ![p].pc = "forget"]
  BY DEF DeleteStaging
<1>2. pass'[p].pc = "forget" /\ pass'[p].out = pass[p].out BY <1>1 DEF IInv, TypeOK
<1>3. PICK m : files' = WithoutFile(m.obj) BY DEF DeleteStaging
<1>4. \A o \in DOMAIN files' : o \in DOMAIN files /\ files'[o] = files[o]
  BY <1>3, WithoutFileStep
<1>5. Listed' = Listed BY <1>1 DEF Listed
<1>6. MergedOnce'
  <2>1. \A q \in Merging : q \in Merging' /\ pass'[q].out = pass[q].out
    BY <1>2, OnlyPass DEF Merging
  <2>. QED BY <1>5, <2>1 DEF MergedOnce
<1>7. MergeInRange' BY <1>2, OnlyPass DEF MergeInRange
<1>8. ColdStaysListed /\ FixedStays /\ NewInRange
  BY <1>1, <1>4, <1>5 DEF ColdStaysListed, FixedStays, NewInRange
<1>. QED BY <1>1, <1>6, <1>7, <1>8, PassBatches DEF Sound

LEMMA ForgetStagingFixed ==
    ASSUME IInv, IInv', MergedOnce, SafeRegime, NEW p \in Passes, ForgetStaging(p)
    PROVE  Sound
<1>1. PICK m \in pass[p].objs :
            /\ manifest' = Forgotten(m.obj)
            /\ pass' = [pass EXCEPT ![p].pc = AfterForget(pass[p].objs \ {m}),
                                    ![p].objs = @ \ {m}]
  BY DEF ForgetStaging
<1>2. pass[p].pc = "forget" /\ UNCHANGED <<files, nextSeq, writer>> BY DEF ForgetStaging
<1>3. /\ pass'[p].pc = AfterForget(pass[p].objs \ {m})
      /\ pass'[p].objs = pass[p].objs \ {m} /\ pass'[p].out = pass[p].out
  BY <1>1 DEF IInv, TypeOK
<1>4. manifest' = {n \in manifest : n.obj # m.obj} BY <1>1 DEF Forgotten
<1>5. Listed' = Listed \ {m.obj} BY <1>4 DEF Listed
<1>6. m.obj.kind = "staging" BY <1>2 DEF IInv, PassSound, ListedStaging
<1>7. MergedOnce'
  <2>1. SUFFICES ASSUME NEW o \in Listed', o.kind = "cold", o.seq # 0,
                        StagingKey(o.seq) \in Listed'
                 PROVE  p \in Merging' /\ o = pass'[p].out
    BY DEF MergedOnce
  <2>2. PICK q \in Merging : o = pass[q].out BY <1>5, <2>1 DEF MergedOnce
  <2>3. q = p BY <2>2, OnlyPass DEF Merging
  <2>4. StagingKey(o.seq) \in ObjectsOf(pass[p].objs)
    BY <1>2, <1>5, <2>1, <2>2, <2>3 DEF IInv, PassSound
  <2>5. StagingKey(o.seq) # m.obj BY <1>5, <2>1
  <2>6. pass[p].objs \ {m} # {} BY <2>4, <2>5 DEF ObjectsOf
  <2>7. pass'[p].pc = "delete" BY <1>3, <2>6 DEF AfterForget
  <2>. QED BY <1>3, <2>2, <2>3, <2>7 DEF Merging
<1>8. MergeInRange'
  <2>1. pass'[p].pc # "record" BY <1>3 DEF AfterForget
  <2>. QED BY <2>1, OnlyPass DEF MergeInRange
<1>9. ColdStaysListed /\ FixedStays /\ NewInRange
  BY <1>2, <1>4, <1>5, <1>6 DEF ColdStaysListed, FixedStays, NewInRange
<1>. QED BY <1>2, <1>7, <1>8, <1>9, PassBatches DEF Sound

LEMMA ExportChunkFixed ==
    ASSUME IInv, MergedOnce, SafeRegime, NEW p \in Passes, ExportChunk(p) PROVE Sound
<1>1. PICK c : files' = WithFile(ColdKey(DayOf(c), 0), HotRows(KeysOfChunk(c)))
  BY DEF ExportChunk
<1>. DEFINE key == ColdKey(DayOf(c), 0)
<1>2. /\ pass[p].pc = "evict" /\ UNCHANGED <<manifest, nextSeq, writer>>
      /\ pass'[p].pc = "recordExport"
  BY DEF ExportChunk, IInv, TypeOK
<1>3. key.kind = "cold" /\ key.seq = 0 BY DEF ColdKey
<1>4. /\ DOMAIN files' = DOMAIN files \cup {key}
      /\ \A o \in DOMAIN files : o # key => files'[o] = files[o]
  BY <1>1, WithFileStep
<1>. HIDE DEF key
<1>5. FixedStays BY <1>3, <1>4 DEF FixedStays, Fixed
<1>6. Listed' = Listed BY <1>2 DEF Listed
<1>7. Merging = {} BY <1>2, OnlyPass DEF Merging
<1>8. MergedOnce' /\ ColdStaysListed /\ NewInRange
  BY <1>2, <1>6, <1>7 DEF MergedOnce, ColdStaysListed, NewInRange
<1>9. MergeInRange' BY <1>2, OnlyPass DEF MergeInRange
<1>. QED BY <1>2, <1>5, <1>8, <1>9, PassBatches DEF Sound

LEMMA RecordExportFixed ==
    ASSUME IInv, MergedOnce, SafeRegime, NEW p \in Passes, RecordExport(p) PROVE Sound
<1>1. PICK c : manifest' = Recorded([obj |-> ColdKey(DayOf(c), 0), lo |-> c, hi |-> c + ChunkLen])
  BY DEF RecordExport
<1>. DEFINE key == ColdKey(DayOf(c), 0)
<1>2. /\ pass[p].pc = "recordExport" /\ UNCHANGED <<files, nextSeq, writer>>
      /\ pass'[p].pc = "drop"
  BY DEF RecordExport, IInv, TypeOK
<1>3. IsExport(key) BY DEF ColdKey, IsExport
<1>4. Listed' = Listed \cup {key} /\ \A m \in manifest' : m \in manifest \/ m.obj = key
  BY <1>1, RecordedStep
<1>. HIDE DEF key
<1>5. Merging = {} BY <1>2, OnlyPass DEF Merging
<1>6. MergedOnce' BY <1>3, <1>4, <1>5 DEF MergedOnce, IsExport, StagingKey
<1>7. MergeInRange' BY <1>2, OnlyPass DEF MergeInRange
<1>8. ColdStaysListed /\ FixedStays /\ NewInRange
  BY <1>2, <1>3, <1>4 DEF ColdStaysListed, FixedStays, NewInRange
<1>. QED BY <1>2, <1>6, <1>7, <1>8, PassBatches DEF Sound

LEMMA StoreStepSound ==
    ASSUME SafeRegime, IInv, IInv', MergedOnce, RangeSound, [Next]_vars PROVE Sound
<1>1. ASSUME NEW w \in Writers, WriterNext(w) PROVE Sound
  <2>1. CASE \E keys \in Batches : BeginWrite(w, keys) BY <2>1, BeginWriteFixed
  <2>2. CASE PutStaging(w) \/ RecordStaging(w)
    BY <2>2, PutStagingFixed, RecordStagingFixed
  <2>3. CASE UpsertHot(w) \/ FailWrite(w)
    <3>1. /\ UNCHANGED <<files, manifest, pass, nextSeq>>
          /\ writer' = [writer EXCEPT ![w] = IdleWriter]
      BY <2>3 DEF UpsertHot, FailWrite
    <3>2. \A v \in Writers : writer'[v] = writer[v] \/ writer'[v].pc # "put"
      BY <3>1 DEF IInv, TypeOK, IdleWriter
    <3>. QED BY <3>1, <3>2, ClientFixed
  <2>. QED BY <1>1, <2>1, <2>2, <2>3 DEF WriterNext
<1>2. ASSUME NEW tags, NEW lo, NEW hi, DeleteRows(tags, lo, hi) PROVE Sound
  BY <1>2, ClientFixed DEF DeleteRows
<1>3. ASSUME NEW p \in Passes, PassStep(p) \/ CompactFails(p) \/ InterruptPass(p)
      PROVE  Sound
  <2>0. pass \in [Passes -> PassType] BY DEF IInv, TypeOK, PassType
  <2>1. ASSUME UNCHANGED <<files, manifest, nextSeq, writer>>,
               pass[p].pc \notin {"delete", "forget"}, pass'[p].pc # "record"
        PROVE  Sound
    BY <2>1, QuietPassFixed
  <2>2. CASE ListStaging(p) BY <2>0, <2>1, <2>2 DEF ListStaging, IdlePass
  <2>3. ASSUME NEW cutoff, ListChunks(p, cutoff) PROVE Sound
    BY <2>0, <2>1, <2>3 DEF ListChunks, IdlePass
  <2>4. CASE ListIntervals(p) BY <2>0, <2>1, <2>4 DEF ListIntervals
  <2>5. ASSUME NEW c, DropChunk(p, c), pass[p].pc \in {"evict", "drop"} PROVE Sound
    BY <2>0, <2>1, <2>5 DEF DropChunk, NextEvict
  <2>6. CASE EvictCovered(p) \/ DropExported(p)
    BY <2>5, <2>6 DEF EvictCovered, DropExported
  <2>7. CASE CompactFails(p) \/ InterruptPass(p)
    BY <2>0, <2>1, <2>7 DEF CompactFails, InterruptPass, IdlePass, SafeRegime
  <2>8. CASE Compact(p) \/ ExportChunk(p)
    BY <2>8, CompactFixed, ExportChunkFixed
  <2>9. CASE RecordCold(p) \/ DeleteStaging(p) \/ ForgetStaging(p) \/ RecordExport(p)
    BY <2>9, RecordColdFixed, DeleteStagingFixed, ForgetStagingFixed, RecordExportFixed
  <2>. QED BY <1>3, <2>2, <2>3, <2>4, <2>6, <2>7, <2>8, <2>9 DEF PassStep
<1>4. ASSUME UNCHANGED vars PROVE Sound
  <2>1. UNCHANGED <<files, manifest, pass, nextSeq, writer>> BY <1>4 DEF vars
  <2>. QED BY <2>1, ClientFixed
<1>. QED BY <1>1, <1>2, <1>3, <1>4 DEF Next

-----------------------------------------------------------------------------
(* What a query still has to find                                          *)

AnswerableNext(k, s, objs) ==
    \E o \in objs : Fixed(o)' /\
        (o \in DOMAIN files' => \E r \in files'[o] : r.key = k /\ s <= r.seq)

LEMMA AnswerableKept ==
    ASSUME Sound, NEW k, NEW s, NEW objs \in SUBSET Object, Answerable(k, s, objs)
    PROVE  AnswerableNext(k, s, objs)
<1>1. PICK o \in objs : Fixed(o) /\ Holds(o, k, s) BY DEF Answerable
<1>2. Fixed(o)' BY <1>1, FixedNext DEF Sound
<1>3. o \in DOMAIN files' => o \in DOMAIN files /\ files'[o] = files[o]
  BY <1>1 DEF Sound, FixedStays
<1>. QED BY <1>1, <1>2, <1>3 DEF AnswerableNext, Holds

(* Whatever the tiers show, the newest version in cold is as new.          *)
LEMMA VisibleIsCold ==
    ASSUME StoreInv, NEW k \in Key, NEW tier
    PROVE  Visible(k, tier) = Newest(k)
<1>0. TypeOK BY DEF StoreInv, IInv
<1>1. Newest(k) \in Nat /\ hot[k] \in Nat
  <2>1. Newest(k) \in Nat BY <1>0, NewestIsHighest
  <2>2. hot[k] \in 0..MaxSeq BY <1>0 DEF TypeOK
  <2>. QED BY <2>1, <2>2, SizesAssumption
<1>2. hot[k] <= Newest(k)
  <2>1. CASE hot[k] = 0 BY <1>1, <2>1
  <2>2. CASE hot[k] # 0 BY <1>1, <2>2, HeldNewest DEF StoreInv, IInv, HotHeld
  <2>. QED BY <2>1, <2>2
<1>. QED BY <1>1, <1>2 DEF Visible, Federated

(* Pruning picks the object that holds it.                                 *)
LEMMA NewestIsPicked ==
    ASSUME StoreInv, RangeSound, NEW k \in Key, NEW w \in Window,
           w.from <= k.time, k.time <= w.to, Newest(k) # 0
    PROVE  Answerable(k, Newest(k), Picked(Overlapping(w)))
<1>. USE DEF StoreInv
<1>1. TypeOK /\ Newest(k) \in ColdSeqs(k)
  BY NewestIsHighest DEF IInv, IsHighest
<1>2. PICK r \in RowsOf(Listed) : r.key = k /\ r.seq = Newest(k) BY <1>1 DEF ColdSeqs
<1>3. Held(k, Newest(k)) BY <1>2 DEF RowsOf, ListedHeld, RowsHeld
<1>4. PICK o \in Solid : \E q \in files[o] : q.key = k /\ Newest(k) <= q.seq
  BY <1>3 DEF Held
<1>5. PICK q \in files[o] : q.key = k /\ Newest(k) <= q.seq BY <1>4
<1>6. Fixed(o) /\ o \in DOMAIN files /\ o \in Listed BY SolidFixed, SolidStored
<1>7. PICK m \in manifest : m.obj = o BY <1>6 DEF Listed
<1>8. ~ IsExport(o) BY <1>6 DEF Fixed, IsExport
<1>9. m.lo <= k.time /\ k.time <= m.hi BY <1>5, <1>6, <1>7, <1>8 DEF RangeSound, InRange
<1>10. /\ m.lo \in Nat /\ m.hi \in Nat /\ k.time \in Nat
       /\ w.from \in Nat /\ w.to \in Nat
  BY <1>1, <1>7, SizesAssumption DEF TypeOK, Meta, Key, Window
<1>11. m \in Overlapping(w) BY <1>9, <1>10 DEF Overlapping
<1>12. o \in Picked(Overlapping(w)) BY <1>7, <1>11 DEF Picked, ObjectsOf
<1>. QED BY <1>5, <1>6, <1>12 DEF Answerable, Holds

-----------------------------------------------------------------------------
(* Types of views and queries                                              *)

QueryType == [pc : {"idle", "register", "cold", "hot", "done", "failed"},
              tier : {"all", "cold"}, window : Window, refs : Refs,
              due : [Key -> 0..MaxSeq], answer : [Key -> 0..MaxSeq]]

LEMMA QueryTypes ==
    FederationTypeOK <=> view \in Refs /\ query \in [Queries -> QueryType]
BY DEF FederationTypeOK, QueryType

LEMMA TopSeqIsHighest ==
    ASSUME NEW S \in SUBSET (0..MaxSeq), S # {}
    PROVE  IsHighest(TopSeq(S), S) /\ TopSeq(S) \in 0..MaxSeq
<1>1. PICK m \in S : \A x \in S : x <= m BY MaxExists, SizesAssumption
<1>2. IsHighest(TopSeq(S), S) BY <1>1 DEF TopSeq, IsHighest
<1>. QED BY <1>2 DEF IsHighest

LEMMA NewestType == ASSUME TypeOK, NEW k PROVE Newest(k) \in 0..MaxSeq
<1>1. ColdSeqs(k) \in SUBSET (0..MaxSeq)
  BY SizesAssumption DEF TypeOK, Row, ColdSeqs, RowsOf
<1>2. Newest(k) \in {0} \cup ColdSeqs(k) BY NewestIsHighest DEF IsHighest
<1>. QED BY <1>1, <1>2, SizesAssumption

LEMMA DueType ==
    ASSUME StoreInv, NEW tier, NEW w
    PROVE  /\ Due(tier, w) \in [Key -> 0..MaxSeq]
           /\ \A k \in Key : Due(tier, w)[k] # 0 =>
                /\ w.from <= k.time /\ k.time <= w.to
                /\ Due(tier, w)[k] = Newest(k)
<1>1. ASSUME NEW k \in Key PROVE Visible(k, tier) = Newest(k) /\ Newest(k) \in 0..MaxSeq
  BY VisibleIsCold, NewestType DEF StoreInv, IInv
<1>2. 0 \in 0..MaxSeq BY SizesAssumption
<1>. QED BY <1>1, <1>2 DEF Due

LEMMA IdleQueryType == IdleQuery \in QueryType /\ NoRefs \in Refs
<1>1. NoRows \in [Key -> 0..MaxSeq] BY SizesAssumption DEF NoRows
<1>2. NoRefs \in Refs BY DEF NoRefs, Refs
<1>3. [from |-> 0, to |-> MaxTime] \in Window BY SizesAssumption DEF Window
<1>. QED BY <1>1, <1>2, <1>3 DEF IdleQuery, QueryType

LEMMA SeqsInType ==
    ASSUME TypeOK, NEW k, NEW objs
    PROVE  {0} \cup SeqsIn(k, objs) \in SUBSET (0..MaxSeq)
BY SizesAssumption DEF TypeOK, Row, SeqsIn, RowsOf

-----------------------------------------------------------------------------
(* Steps of a query                                                        *)

(* A query in its next state, in terms of the values it has there.         *)
LEMMA QueryStep ==
    ASSUME FederationTypeOK, UNCHANGED vars, OneQueryAtATime, NEW q \in Queries,
           NEW next \in QueryType, query' = [query EXCEPT ![q] = next], view' \in Refs,
           next.pc = "register" =>
                \A k \in Key : next.due[k] # 0 => Answerable(k, next.due[k], next.refs.objs),
           next.pc = "cold" =>
                \A k \in Key : next.due[k] # 0 => Answerable(k, next.due[k], view'.objs),
           next.pc \in {"hot", "done"} =>
                \A k \in Key : next.due[k] <= next.answer[k]
    PROVE  FederationTypeOK' /\ QueryInv'
<1>1. query \in [Queries -> QueryType] BY QueryTypes
<1>2. query' \in [Queries -> QueryType] /\ query'[q] = next BY <1>1
<1>3. FederationTypeOK' BY <1>2 DEF FederationTypeOK, QueryType
<1>4. \A x \in Queries : x = q BY DEF OneQueryAtATime
<1>5. \A k, s, objs : Answerable(k, s, objs)' <=> Answerable(k, s, objs)
  BY DEF vars, Answerable, Fixed, Holds, Listed
<1>6. QueryInv'
  <2>1. next.pc = "register" => \A k \in Key : query'[q].due[k] # 0
            => Answerable(k, query'[q].due[k], query'[q].refs.objs)
    BY <1>2
  <2>2. next.pc = "cold" => \A k \in Key : query'[q].due[k] # 0
            => Answerable(k, query'[q].due[k], view'.objs)
    BY <1>2
  <2>. QED BY <1>2, <1>4, <1>5, <2>1, <2>2 DEF QueryInv, Answerable, Fixed, Holds, Listed, vars
<1>. QED BY <1>3, <1>6

LEMMA SelectObjectsSound ==
    ASSUME StoreInv, RangeSound, FederationTypeOK, OneQueryAtATime, NEW q \in Queries,
           NEW tier \in Tiers, NEW w \in Windows, SelectObjects(q, tier, w)
    PROVE  FederationTypeOK' /\ QueryInv'
<1>. DEFINE due == Due(tier, w)
            objs == Picked(Overlapping(w))
            next == [pc |-> IF tier = "cold" /\ manifest = {} THEN "cold" ELSE "register",
                     tier |-> tier, window |-> w,
                     refs |-> [hot |-> tier = "all", objs |-> objs],
                     due |-> due, answer |-> NoRows]
<1>1. /\ query' = [query EXCEPT ![q] = next] /\ UNCHANGED vars /\ view' = view
  BY DEF SelectObjects
<1>2. TypeOK BY DEF StoreInv, IInv
<1>3. w \in Window /\ tier \in {"all", "cold"} BY QueriesAssumption
<1>4. due \in [Key -> 0..MaxSeq] BY DueType
<1>5. objs \in SUBSET Object BY <1>2 DEF TypeOK, Picked, ObjectsOf, Overlapping, Meta
<1>6. NoRows \in [Key -> 0..MaxSeq] BY IdleQueryType, SizesAssumption DEF NoRows
<1>7. \A k \in Key : due[k] # 0 => Answerable(k, due[k], objs)
  BY <1>3, DueType, NewestIsPicked
<1>8. manifest = {} => \A k \in Key : due[k] = 0
  <2>1. SUFFICES ASSUME manifest = {}, NEW k \in Key PROVE due[k] = 0 OBVIOUS
  <2>2. ColdSeqs(k) = {} BY <2>1 DEF ColdSeqs, RowsOf, Listed
  <2>3. Newest(k) = 0 BY <1>2, <2>2, NewestIsHighest DEF IsHighest
  <2>. QED BY <2>3, DueType
<1>. HIDE DEF due, objs
<1>9. next \in QueryType BY <1>3, <1>4, <1>5, <1>6 DEF QueryType, Refs
<1>10. /\ next.pc \in {"cold", "register"} /\ next.due = due /\ next.refs.objs = objs
       /\ next.pc = "cold" => manifest = {}
  OBVIOUS
<1>11. view' \in Refs BY <1>1 DEF FederationTypeOK
<1>. HIDE DEF next
<1>12. next.pc = "register" =>
            \A k \in Key : next.due[k] # 0 => Answerable(k, next.due[k], next.refs.objs)
  BY <1>7, <1>10
<1>13. next.pc = "cold" =>
            \A k \in Key : next.due[k] # 0 => Answerable(k, next.due[k], view'.objs)
  BY <1>8, <1>10
<1>14. next.pc \notin {"hot", "done"} BY <1>10
<1>. QED BY <1>1, <1>9, <1>11, <1>12, <1>13, <1>14, QueryStep

LEMMA RegisterViewsSound ==
    ASSUME QueryInv, FederationTypeOK, OneQueryAtATime, NEW q \in Queries, RegisterViews(q)
    PROVE  FederationTypeOK' /\ QueryInv'
<1>. DEFINE next == [query[q] EXCEPT !.pc = "cold"]
<1>1. query[q] \in QueryType BY QueryTypes
<1>2. /\ query' = [query EXCEPT ![q] = next] /\ UNCHANGED vars /\ view' = query[q].refs
  BY DEF RegisterViews
<1>3. next \in QueryType /\ next.pc = "cold" /\ next.due = query[q].due
  BY <1>1 DEF QueryType
<1>4. view' \in Refs BY <1>1, <1>2 DEF QueryType
<1>5. \A k \in Key : query[q].due[k] # 0 => Answerable(k, query[q].due[k], view'.objs)
  BY <1>2 DEF RegisterViews, QueryInv
<1>. HIDE DEF next
<1>. QED BY <1>2, <1>3, <1>4, <1>5, QueryStep

LEMMA ReadColdSound ==
    ASSUME TypeOK, QueryInv, FederationTypeOK, OneQueryAtATime, NEW q \in Queries, ReadCold(q)
    PROVE  FederationTypeOK' /\ QueryInv'
<1>. DEFINE found == [k \in Key |-> TopSeq({0} \cup SeqsIn(k, view.objs))]
            next == [query[q] EXCEPT !.pc = "hot", !.refs = view, !.answer = found]
<1>1. query[q] \in QueryType /\ view \in Refs BY QueryTypes
<1>2. /\ query' = [query EXCEPT ![q] = next] /\ UNCHANGED vars /\ view' = view
      /\ view.objs \subseteq DOMAIN files /\ query[q].pc = "cold"
  BY DEF ReadCold, Binds
<1>3. ASSUME NEW k \in Key
      PROVE  /\ found[k] \in 0..MaxSeq
             /\ \A s \in {0} \cup SeqsIn(k, view.objs) : s <= found[k]
  BY SeqsInType, TopSeqIsHighest DEF IsHighest
<1>4. ASSUME NEW k \in Key PROVE query[q].due[k] <= found[k]
  <2>1. query[q].due[k] \in Nat /\ found[k] \in Nat
    BY <1>1, <1>3, <1>4, SizesAssumption DEF QueryType
  <2>2. CASE query[q].due[k] = 0 BY <2>1, <2>2
  <2>3. CASE query[q].due[k] # 0
    <3>1. PICK o \in view.objs : Holds(o, k, query[q].due[k])
      BY <1>2, <1>4, <2>3 DEF QueryInv, Answerable
    <3>2. PICK r \in files[o] : r.key = k /\ query[q].due[k] <= r.seq
      BY <1>2, <3>1 DEF Holds
    <3>3. r.seq \in SeqsIn(k, view.objs) BY <1>2, <3>1, <3>2 DEF SeqsIn, RowsOf
    <3>4. r.seq <= found[k] BY <1>3, <1>4, <3>3
    <3>5. r.seq \in Nat BY <1>2, <3>1, <3>2, RowTypes
    <3>. QED BY <2>1, <3>2, <3>4, <3>5
  <2>. QED BY <2>2, <2>3
<1>5. found \in [Key -> 0..MaxSeq] BY <1>3
<1>. HIDE DEF found
<1>6. /\ next \in QueryType /\ next.pc = "hot" /\ next.due = query[q].due
      /\ next.answer = found
  BY <1>1, <1>5 DEF QueryType
<1>. HIDE DEF next
<1>. QED BY <1>1, <1>2, <1>4, <1>6, QueryStep

(* A statement that raises leaves everything but the request as it was.    *)
LEMMA FailSound ==
    ASSUME FederationTypeOK, OneQueryAtATime, NEW q \in Queries,
           RegisterFails(q) \/ ReadFails(q)
    PROVE  FederationTypeOK' /\ QueryInv'
<1>. DEFINE next == [query[q] EXCEPT !.pc = "failed"]
<1>1. query[q] \in QueryType /\ view \in Refs BY QueryTypes
<1>2. /\ query' = [query EXCEPT ![q] = next] /\ UNCHANGED vars /\ view' = view
  BY DEF RegisterFails, ReadFails
<1>3. next \in QueryType /\ next.pc = "failed" BY <1>1 DEF QueryType
<1>. HIDE DEF next
<1>. QED BY <1>1, <1>2, <1>3, QueryStep

LEMMA ReadHotSound ==
    ASSUME TypeOK, QueryInv, FederationTypeOK, OneQueryAtATime, NEW q \in Queries, ReadHot(q)
    PROVE  FederationTypeOK' /\ QueryInv'
<1>. DEFINE both == [k \in Key |-> IF query[q].refs.hot
                                   THEN TopSeq({query[q].answer[k], hot[k]})
                                   ELSE query[q].answer[k]]
            next == [query[q] EXCEPT !.pc = "done", !.answer = both]
<1>1. query[q] \in QueryType /\ view \in Refs BY QueryTypes
<1>2. /\ query' = [query EXCEPT ![q] = next] /\ UNCHANGED vars /\ view' = view
      /\ query[q].pc = "hot"
  BY DEF ReadHot
<1>3. ASSUME NEW k \in Key
      PROVE  both[k] \in 0..MaxSeq /\ query[q].answer[k] <= both[k]
  <2>1. query[q].answer[k] \in 0..MaxSeq /\ hot[k] \in 0..MaxSeq
    BY <1>1, <1>3 DEF QueryType, TypeOK
  <2>2. LET top == TopSeq({query[q].answer[k], hot[k]})
        IN  top \in 0..MaxSeq /\ query[q].answer[k] <= top
    BY <2>1, TopSeqIsHighest DEF IsHighest
  <2>3. query[q].answer[k] <= query[q].answer[k] BY <2>1, SizesAssumption
  <2>. QED BY <1>3, <2>1, <2>2, <2>3
<1>4. ASSUME NEW k \in Key PROVE query[q].due[k] <= both[k]
  <2>1. query[q].due[k] <= query[q].answer[k] BY <1>2, <1>4 DEF QueryInv
  <2>2. /\ query[q].due[k] \in Nat /\ query[q].answer[k] \in Nat /\ both[k] \in Nat
    BY <1>1, <1>3, <1>4, SizesAssumption DEF QueryType
  <2>. QED BY <1>3, <1>4, <2>1, <2>2
<1>5. both \in [Key -> 0..MaxSeq] BY <1>3
<1>. HIDE DEF both
<1>6. /\ next \in QueryType /\ next.pc = "done" /\ next.due = query[q].due
      /\ next.answer = both
  BY <1>1, <1>5 DEF QueryType
<1>. HIDE DEF next
<1>. QED BY <1>1, <1>2, <1>4, <1>6, QueryStep

-----------------------------------------------------------------------------
(* The theorems                                                            *)

(* Steps of the store, seen by a query that waits.                         *)
LEMMA WaitingQuerySound ==
    ASSUME Sound, TypeOK', QueryInv, FederationTypeOK, UNCHANGED <<view, query>>
    PROVE  FederationTypeOK' /\ QueryInv'
<1>1. view \in Refs /\ query \in [Queries -> QueryType] BY QueryTypes
<1>2. FederationTypeOK' BY DEF FederationTypeOK
<1>3. view.objs \in SUBSET Object /\ \A q \in Queries : query[q].refs.objs \in SUBSET Object
  BY <1>1 DEF Refs, QueryType
<1>4. ASSUME NEW q \in Queries, NEW k \in Key, query[q].due[k] # 0
      PROVE  /\ query[q].pc = "register" => AnswerableNext(k, query[q].due[k], query[q].refs.objs)
             /\ query[q].pc = "cold" => AnswerableNext(k, query[q].due[k], view.objs)
  BY <1>3, <1>4, AnswerableKept DEF QueryInv
<1>5. QueryInv'
  BY <1>4 DEF QueryInv, Answerable, AnswerableNext, Holds
<1>. QED BY <1>2, <1>5

LEMMA FedInvInit == FedInit => FedInv
<1>. SUFFICES ASSUME FedInit PROVE FedInv OBVIOUS
<1>1. FederationTypeOK BY IdleQueryType, QueryTypes DEF FedInit
<1>2. QueryInv BY DEF FedInit, QueryInv, IdleQuery
<1>3. \A p \in Passes : pass[p].pc = "idle" BY DEF FedInit, Init, IdlePass
<1>4. manifest = {} BY DEF FedInit, Init
<1>5. MergedOnce /\ RangeSound BY <1>3, <1>4 DEF MergedOnce, RangeSound, Listed
<1>. QED BY <1>1, <1>2, <1>5 DEF FedInv

LEMMA FedStepStore == FedNext => [Next]_vars
BY DEF FedNext, QueryNext, SelectObjects, RegisterViews, RegisterFails, ReadCold, ReadFails,
       ReadHot

LEMMA FedInvNext ==
    ASSUME SafeRegime, OneQueryAtATime, StoreInv, StoreInv', FedInv, [FedNext]_fedVars
    PROVE  FedInv'
<1>. USE DEF FedInv
<1>1. [Next]_vars BY FedStepStore DEF fedVars
<1>2. Sound BY <1>1, StoreStepSound DEF StoreInv
<1>3. MergedOnce' /\ RangeSound' BY <1>2, RangeSoundNext DEF Sound, StoreInv
<1>4. TypeOK /\ TypeOK' BY DEF StoreInv, IInv
<1>5. CASE UNCHANGED <<view, query>>
  BY <1>2, <1>3, <1>4, <1>5, WaitingQuerySound
<1>6. ASSUME NEW q \in Queries, QueryNext(q) PROVE FederationTypeOK' /\ QueryInv'
  BY <1>4, <1>6, SelectObjectsSound, RegisterViewsSound, ReadColdSound, FailSound,
     ReadHotSound DEF QueryNext
<1>. QED BY <1>3, <1>5, <1>6 DEF FedNext, fedVars

(* The store under federated queries is the store: queries change nothing  *)
(* in it, so all it promises holds while they run.                         *)
THEOREM QueriesLeaveStore == FedSpec => Spec
<1>1. FedInit => Init BY DEF FedInit
<1>2. [FedNext]_fedVars => [Next]_vars BY FedStepStore DEF fedVars
<1>. QED BY <1>1, <1>2, PTL DEF FedSpec, Spec

(* With write-through on, one pass and one query at a time and no pass     *)
(* ended while it deletes merged objects: what a query still has to find   *)
(* is in an object of its view that nothing writes again, and pruning by   *)
(* the recorded ranges does not skip it.                                   *)
THEOREM QueriesInvariant ==
    ASSUME SafeRegime, OneQueryAtATime PROVE FedSpec => []FedInv
<1>1. StoreInv /\ StoreInv' /\ FedInv /\ [FedNext]_fedVars => FedInv' BY FedInvNext
<1>2. Spec => []StoreInv BY StoreInvariant
<1>. QED BY FedInvInit, <1>1, <1>2, QueriesLeaveStore, PTL DEF FedSpec

(* Views and queries keep their shape.                                     *)
THEOREM QueriesTypeCorrect ==
    ASSUME SafeRegime, OneQueryAtATime PROVE FedSpec => []FederationTypeOK
<1>1. FedInv => FederationTypeOK BY DEF FedInv
<1>. QED BY <1>1, QueriesInvariant, PTL

(* An answer has, for every row in the window, the version that was        *)
(* visible when the request came in or a newer one, whatever was written,  *)
(* merged, overwritten and evicted between its steps.                      *)
THEOREM AnswersLackNothing ==
    ASSUME SafeRegime, OneQueryAtATime PROVE FedSpec => []AnswerComplete
<1>1. FedInv => AnswerComplete BY DEF FedInv, QueryInv, AnswerComplete
<1>. QED BY <1>1, QueriesInvariant, PTL
====
