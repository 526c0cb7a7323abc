---- MODULE SchemaProofs ----
(***************************************************************************)
(* Theorems about Schema: while clients spell names as the catalog does    *)
(* and deletes stay apart from batches, the cached schema tells the truth  *)
(* unless a rollback has changed it, columns never narrow, and no value is *)
(* rounded under a truthful cache.                                         *)
(***************************************************************************)
EXTENDS SchemaInv, TLAPS

-----------------------------------------------------------------------------
(* The order of types                                                      *)

LEMMA RankNat == \A t \in MaybeType : TYPE_RANK[t] \in Nat
BY DEF MaybeType, Type, TYPE_RANK

LEMMA WiderTotal == \A t, u \in MaybeType : ~ Wider(t, u) /\ ~ Wider(u, t) => t = u
BY DEF MaybeType, Type, TYPE_RANK, Wider

LEMMA WiderTransitive ==
    \A t, u, v \in MaybeType : ~ Wider(t, u) /\ ~ Wider(u, v) => ~ Wider(t, v)
BY RankNat DEF Wider

LEMMA WiderIrreflexive == \A t \in MaybeType : ~ Wider(t, t)
BY RankNat DEF Wider

LEMMA NoneIsNarrowest ==
    \A t \in MaybeType : ~ Wider("none", t) /\ (~ Wider(t, "none") => t = "none")
BY DEF MaybeType, Type, TYPE_RANK, Wider

(* Widening keeps or raises both the current type and the observed one.    *)
LEMMA WidenedBounds ==
    \A t, u \in MaybeType :
        /\ Widened(t, u) \in MaybeType
        /\ ~ Wider(t, Widened(t, u)) /\ ~ Wider(u, Widened(t, u))
        /\ u # "none" => Widened(t, u) # "none"
<1>. SUFFICES ASSUME NEW t \in MaybeType, NEW u \in MaybeType
     PROVE  /\ Widened(t, u) \in MaybeType
            /\ ~ Wider(t, Widened(t, u)) /\ ~ Wider(u, Widened(t, u))
            /\ u # "none" => Widened(t, u) # "none"
  OBVIOUS
<1>1. CASE Wider(u, t)
  <2>1. Widened(t, u) = u BY <1>1 DEF Widened
  <2>2. ~ Wider(t, u) BY <1>1, RankNat DEF Wider
  <2>. QED BY <2>1, <2>2, WiderIrreflexive
<1>2. CASE ~ Wider(u, t)
  <2>1. Widened(t, u) = t BY <1>2 DEF Widened
  <2>2. u # "none" => t # "none" BY <1>2, NoneIsNarrowest
  <2>. QED BY <1>2, <2>1, <2>2, WiderIrreflexive
<1>. QED BY <1>1, <1>2

(* A schema that fits a batch is wide enough for all its values.           *)
LEMMA FitsBounds ==
    ASSUME NEW schema \in TableSchema, NEW want \in TableSchema,
           Fits(schema, want), NEW n \in Name, want[n] # "none"
    PROVE  schema[n] # "none" /\ ~ Wider(want[n], schema[n])
<1>1. n \in Wanted(want) BY DEF Wanted
<1>2. schema[n] # "none" /\ schema[n] = Widened(schema[n], want[n])
  BY <1>1 DEF Fits, Missing, Narrow
<1>. QED BY <1>2, WidenedBounds DEF TableSchema

(* A nonempty set of types has a widest member, so that samples are types. *)
LEMMA SampleTyped ==
    ASSUME NEW batch \in Batches, NEW n \in Name
    PROVE  SampleOf(batch, n) \in MaybeType
<1>. DEFINE seen == {_infer_field_type[p[n]] : p \in {q \in batch : n \in DOMAIN q}}
<1>1. seen \subseteq Type BY SchemaBatches DEF _infer_field_type, Type
<1>2. CASE seen = {} BY <1>2 DEF SampleOf, MaybeType
<1>3. CASE seen # {}
  <2>1. \E t \in seen : \A u \in seen : ~ Wider(u, t)
    <3>. HIDE DEF seen
    <3>1. CASE "TEXT" \in seen BY <1>1, <3>1 DEF Type, Wider, TYPE_RANK
    <3>2. CASE "TEXT" \notin seen /\ "DOUBLE" \in seen BY <1>1, <3>2 DEF Type, Wider, TYPE_RANK
    <3>3. CASE "TEXT" \notin seen /\ "DOUBLE" \notin seen /\ "BIGINT" \in seen
      BY <1>1, <3>3 DEF Type, Wider, TYPE_RANK
    <3>4. CASE seen \subseteq {"BOOLEAN"}
      <4>1. PICK t \in seen : TRUE BY <1>3
      <4>2. \A u \in seen : u = "BOOLEAN" /\ ~ Wider("BOOLEAN", "BOOLEAN")
        BY <3>4 DEF Wider, TYPE_RANK
      <4>. QED BY <4>1, <4>2
    <3>. QED BY <1>1, <3>1, <3>2, <3>3, <3>4 DEF Type
  <2>. DEFINE widest == CHOOSE t \in seen : \A u \in seen : ~ Wider(u, t)
  <2>2. widest \in seen
    <3>. HIDE DEF seen
    <3>. QED BY <2>1
  <2>3. SampleOf(batch, n) = widest BY <1>3 DEF SampleOf
  <2>. QED BY <1>1, <2>2, <2>3 DEF MaybeType
<1>. QED BY <1>2, <1>3

LEMMA SamplesTyped ==
    ASSUME NEW batch \in Batches
    PROVE  Samples(batch) \in TableSchema
BY SampleTyped DEF Samples, TableSchema

LEMMA CoercedTyped ==
    ASSUME NEW schema \in TableSchema, NEW want \in TableSchema
    PROVE  Coerced(schema, want) \in TableSchema
BY DEF Coerced, TableSchema, MaybeType

LEMMA NoTypesTyped == NoTypes \in TableSchema
BY DEF NoTypes, TableSchema, MaybeType

LEMMA IdleTyped ==
    Idle \in WriterState
BY NoTypesTyped DEF Idle, WriterState, WriterPc, Ended

LEMMA NoDeleteTyped ==
    NoDelete \in DeleterState
BY NoTypesTyped DEF NoDelete, DeleterState, DeleterPc, Answered

LEMMA WriterExcept ==
    ASSUME NEW s \in WriterState, NEW p \in WriterPc,
           NEW o \in Writers \cup Deleters \cup {None}, NEW r \in TableSchema
    PROVE  /\ [s EXCEPT !.pc = p] \in WriterState
           /\ [s EXCEPT !.pc = p, !.obj = o] \in WriterState
           /\ [s EXCEPT !.pc = p, !.rows = r] \in WriterState
           /\ [s EXCEPT !.pc = p, !.obj = o, !.rows = r] \in WriterState
           /\ [s EXCEPT !.pc = p, !.want = r] \in WriterState
           /\ [s EXCEPT !.pc = p, !.want = r].want = r
BY DEF WriterState

LEMMA PcFields ==
    ASSUME NEW s \in WriterState, NEW p
    PROVE  /\ [s EXCEPT !.pc = p].pc = p /\ [s EXCEPT !.pc = p].want = s.want
           /\ [s EXCEPT !.pc = p].obj = s.obj
BY DEF WriterState

(* A draft has every column, so it is not the empty function unless there  *)
(* are no names either.                                                    *)
LEMMA DraftNotEmpty ==
    ASSUME NEW f \in [Column -> MaybeType], NEW c \in Column
    PROVE  f # <<>>
OBVIOUS

-----------------------------------------------------------------------------
(* Loads                                                                   *)

LEMMA IntrospectedTyped ==
    ASSUME table \in [Column -> MaybeType] PROVE Introspected \in TableSchema
BY SchemaNames DEF Introspected, TableSchema, MaybeType

LEMMA IntrospectedTruthful ==
    ASSUME PlainRegime, NEW n \in Name PROVE Introspected[n] = table[ColOf[n]]
BY DEF Introspected, PlainRegime

LEMMA OneColumnEach ==
    ASSUME PlainRegime, NEW m \in Name, NEW n \in Name, ColOf[m] = ColOf[n] PROVE m = n
BY DEF PlainRegime

-----------------------------------------------------------------------------
LEMMA InitInv == Init => SInv
<1>. SUFFICES ASSUME Init PROVE SInv OBVIOUS
<1>. USE DEF Init
<1>1. TypeOK BY IdleTyped, NoDeleteTyped, NoTypesTyped DEF TypeOK, MaybeType
<1>2. InUse = {} BY SchemaActors DEF InUse, None, Altering, Idle
<1>3. LockHeld /\ Apart /\ RightObject /\ Unaltered /\ PoisonCached
  BY DEF LockHeld, Apart, RightObject, Unaltered, PoisonCached, Idle, NoDelete, Ended, Answered, Altering
<1>4. Truthful /\ NotNarrower BY <1>2 DEF Truthful, NotNarrower
<1>5. DraftWider BY WiderIrreflexive DEF DraftWider, Columns, MaybeType
<1>6. ReadTruthful /\ TrueCacheRoundsNothing
  BY DEF ReadTruthful, TrueCacheRoundsNothing, StoredUnrounded, NoDelete, Idle
<1>. QED BY <1>1, <1>3, <1>4, <1>5, <1>6 DEF SInv

-----------------------------------------------------------------------------
(* Steps of a batch that change neither the table nor any object           *)

(* Under a truthful cache, a batch that fits the cached object has columns *)
(* as wide as its values.                                                  *)
LEMMA FitsTable ==
    ASSUME SInv, ~ poisoned, draft = <<>>, cache # None,
           NEW want \in TableSchema, Fits(objects[cache], want),
           NEW n \in Wanted(want)
    PROVE  ~ Wider(want[n], table[ColOf[n]])
<1>1. cache \in InUse /\ objects[cache] \in TableSchema
  BY DEF SInv, TypeOK, InUse
<1>2. n \in Name /\ want[n] # "none" BY DEF Wanted
<1>3. objects[cache][n] = table[ColOf[n]] BY <1>1, <1>2 DEF SInv, Truthful, Columns
<1>. QED BY <1>1, <1>2, <1>3, FitsBounds

LEMMA QuietStep ==
    ASSUME SInv,
           NEW w \in Writers,
           NEW x \in WriterState,
           writer' = [writer EXCEPT ![w] = x],
           UNCHANGED <<table, draft, objects, cache, deleter, poisoned>>,
           ~ Altering(w), x.pc # "altering",
           \/ lock' = lock /\ x.pc # "loading" /\ writer[w].pc # "loading"
           \/ lock = None /\ lock' = w /\ x.pc = "loading" /\ cache = None,
           x.pc \in {"encoded", "staged"} =>
               cache # None /\ x.obj = cache /\ Fits(objects[cache], x.want),
           x.pc \in Ended \/ \A d \in Deleters : deleter[d].pc \in Answered,
           x.pc = "stored" /\ ~ poisoned =>
               \A n \in Wanted(x.want) : ~ Wider(x.want[n], table[ColOf[n]])
    PROVE  SInv'
<1>1. writer'[w] = x /\ \A v \in Writers : v # w => writer'[v] = writer[v]
  BY DEF SInv, TypeOK
<1>2. TypeOK'
  <2>1. writer' \in [Writers -> WriterState]
    BY DEF SInv, TypeOK
  <2>2. (lock # None => lock \in Writers /\ writer[lock].pc \in {"loading", "altering"})'
    BY <1>1, SchemaActors DEF SInv, TypeOK, Altering, None
  <2>3. (draft # <<>> => lock \in Writers /\ writer[lock].pc = "altering")'
    BY <1>1, SchemaActors DEF SInv, TypeOK, Altering, None
  <2>. QED BY <2>1, <2>2, <2>3 DEF SInv, TypeOK
<1>3. InUse' = InUse
  BY <1>1 DEF InUse, Altering
<1>4. LockHeld' BY <1>1, SchemaActors DEF SInv, LockHeld, Altering, None
<1>5. Apart' BY <1>1 DEF SInv, Apart
<1>6. RightObject' BY <1>1 DEF SInv, RightObject, Altering
<1>7. Unaltered' BY <1>1 DEF SInv, Unaltered, Altering
<1>8. Truthful' /\ NotNarrower' /\ DraftWider'
  BY <1>3 DEF SInv, Truthful, NotNarrower, DraftWider, Columns
<1>9. PoisonCached' /\ ReadTruthful' BY DEF SInv, PoisonCached, ReadTruthful
<1>10. TrueCacheRoundsNothing'
  BY <1>1 DEF SInv, TrueCacheRoundsNothing, StoredUnrounded
<1>. QED BY <1>2, <1>4, <1>5, <1>6, <1>7, <1>8, <1>9, <1>10 DEF SInv

LEMMA BeginInv ==
    ASSUME SInv, PlainRegime, NEW w \in Writers, NEW batch \in Batches, Begin(w, batch)
    PROVE  SInv'
<1>. DEFINE want == Samples(batch)
            fresh == [Idle EXCEPT !.pc = "locking", !.want = want]
            x == IF cache # None /\ Fits(objects[cache], want)
                 THEN [fresh EXCEPT !.pc = "encoded", !.obj = cache,
                                    !.rows = Coerced(objects[cache], want)]
                 ELSE fresh
<1>1. want \in TableSchema BY SamplesTyped
<1>2. cache # None => Coerced(objects[cache], want) \in TableSchema
  BY <1>1, CoercedTyped DEF SInv, TypeOK
<1>3. x \in WriterState
  <2>1. fresh \in WriterState BY <1>1, IdleTyped, WriterExcept DEF WriterPc
  <2>2. fresh = [Idle EXCEPT !.pc = "locking", !.want = want] OBVIOUS
  <2>. HIDE DEF fresh, want
  <2>3. CASE cache # None /\ Fits(objects[cache], want)
    <3>1. x = [fresh EXCEPT !.pc = "encoded", !.obj = cache,
                            !.rows = Coerced(objects[cache], want)]
      BY <2>3
    <3>. QED BY <2>1, <3>1, <2>3, <1>2, WriterExcept DEF WriterPc, SInv, TypeOK
  <2>4. CASE ~ (cache # None /\ Fits(objects[cache], want)) BY <2>1, <2>4
  <2>. QED BY <2>3, <2>4
<1>4. /\ x.pc \in {"encoded", "locking"}
      /\ x.pc = "encoded" => cache # None /\ x.obj = cache /\ Fits(objects[cache], x.want)
  BY DEF Idle
<1>5. /\ writer' = [writer EXCEPT ![w] = x]
      /\ UNCHANGED <<table, draft, objects, cache, lock, deleter, poisoned>>
      /\ writer[w].pc \in Ended
      /\ \A d \in Deleters : deleter[d].pc \in Answered
  BY DEF Begin, PlainRegime
<1>. HIDE DEF x
<1>6. ~ Altering(w) /\ writer[w].pc # "loading" BY <1>5 DEF Altering, Ended
<1>. QED BY <1>3, <1>4, <1>5, <1>6, QuietStep

(* A batch in flight keeps deletes away.                                   *)
LEMMA InFlightApart ==
    ASSUME SInv, NEW w \in Writers, writer[w].pc \notin Ended
    PROVE  \A d \in Deleters : deleter[d].pc \in Answered
BY DEF SInv, Apart

LEMMA LockAndLoadInv ==
    ASSUME SInv, NEW w \in Writers, LockAndLoad(w) PROVE SInv'
<1>. DEFINE x == [writer[w] EXCEPT !.pc = "loading"]
<1>0. writer[w] \in WriterState BY DEF SInv, TypeOK
<1>1. x \in WriterState /\ x.pc = "loading"
  BY <1>0, PcFields DEF WriterPc, WriterState
<1>2. writer' = [writer EXCEPT ![w] = x]
  BY DEF LockAndLoad, SInv, TypeOK
<1>3. \A d \in Deleters : deleter[d].pc \in Answered
  BY InFlightApart DEF LockAndLoad, Ended
<1>. HIDE DEF x
<1>. QED BY <1>1, <1>2, <1>3, QuietStep DEF LockAndLoad, Altering

LEMMA StageInv ==
    ASSUME SInv, NEW w \in Writers, Stage(w) PROVE SInv'
<1>. DEFINE now == Coerced(objects[writer[w].obj], writer[w].want)
            x == writer'[w]
<1>1. /\ writer[w].pc = "encoded" /\ cache # None /\ writer[w].obj = cache
      /\ Fits(objects[cache], writer[w].want)
  BY DEF Stage, SInv, RightObject
<1>2. now \in TableSchema
  <2>1. objects[writer[w].obj] \in TableSchema BY <1>1 DEF SInv, TypeOK
  <2>2. writer[w].want \in TableSchema BY DEF SInv, TypeOK, WriterState
  <2>. QED BY <2>1, <2>2, CoercedTyped
<1>3. /\ writer' = [writer EXCEPT ![w] = x]
      /\ x = [writer[w] EXCEPT !.pc = "staged", !.rows = now]
         \/ x = [writer[w] EXCEPT !.pc = "refused"]
  BY DEF Stage, SInv, TypeOK
<1>. HIDE DEF now, x
<1>0. writer[w] \in WriterState BY DEF SInv, TypeOK
<1>4. x \in WriterState
  BY <1>0, <1>2, <1>3 DEF WriterState, WriterPc, Ended
<1>5. /\ x.pc \in {"staged", "refused"} /\ x.obj = cache /\ x.want = writer[w].want
  BY <1>0, <1>1, <1>3 DEF WriterState
<1>6. \A d \in Deleters : deleter[d].pc \in Answered BY <1>1, InFlightApart DEF Ended
<1>. QED BY <1>1, <1>3, <1>4, <1>5, <1>6, QuietStep DEF Stage, Altering

LEMMA InsertInv ==
    ASSUME SInv, NEW w \in Writers, Insert(w) PROVE SInv'
<1>. DEFINE x == writer'[w]
<1>1. /\ writer[w].pc = "staged" /\ draft = <<>> /\ cache # None
      /\ Fits(objects[cache], writer[w].want)
  BY DEF Insert, SInv, RightObject
<1>2. /\ writer' = [writer EXCEPT ![w] = x]
      /\ x = [Idle EXCEPT !.pc = "stored", !.want = writer[w].want]
         \/ x = [writer[w] EXCEPT !.pc = "refused"]
  BY DEF Insert, SInv, TypeOK
<1>. HIDE DEF x
<1>0. writer[w] \in WriterState BY DEF SInv, TypeOK
<1>3. writer[w].want \in TableSchema BY <1>0 DEF WriterState
<1>4. x \in WriterState /\ x.pc \in {"stored", "refused"} /\ x.want = writer[w].want
  BY <1>0, <1>2, <1>3, IdleTyped DEF WriterState, WriterPc, Ended
<1>5. x.pc \in {"stored", "refused"} /\ x.want = writer[w].want BY <1>4
<1>6. ~ poisoned => \A n \in Wanted(x.want) : ~ Wider(x.want[n], table[ColOf[n]])
  BY <1>1, <1>3, <1>5, FitsTable
<1>7. x.pc \in Ended BY <1>5 DEF Ended
<1>. QED BY <1>1, <1>2, <1>4, <1>5, <1>6, <1>7, QuietStep DEF Insert, Altering

-----------------------------------------------------------------------------
(* Under the lock                                                          *)

LEMMA ResolveInv ==
    ASSUME SInv, NEW w \in Writers, NEW objs \in [Writers \cup Deleters -> TableSchema],
           NEW o \in Writers \cup Deleters,
           Resolve(w, objs, o),
           draft = <<>>,
           \A v \in Writers : writer[v].pc \in {"loading", "altering"} => v = w,
           writer[w].pc \in {"locking", "loading"},
           (o = cache /\ objs = objects) \/ (o = w /\ cache = None),
           ~ poisoned => \A n \in Name : objs[o][n] = table[ColOf[n]],
           \A n \in Name : ~ Wider(table[ColOf[n]], objs[o][n])
    PROVE  SInv'
<1>0. /\ writer[w] \in WriterState /\ objs[o] \in TableSchema /\ o # None
      /\ writer[w].want \in TableSchema
  BY SchemaActors DEF SInv, TypeOK, WriterState, None
<1>. DEFINE fits == Fits(objs[o], writer[w].want)
            rows == Coerced(objs[o], writer[w].want)
            x == IF fits THEN [writer[w] EXCEPT !.pc = "encoded", !.obj = o, !.rows = rows]
                 ELSE [writer[w] EXCEPT !.pc = "altering", !.obj = o]
<1>1. /\ objects' = objs /\ writer' = [writer EXCEPT ![w] = x]
      /\ UNCHANGED <<table, draft, deleter, poisoned>>
      /\ fits => cache' = o /\ lock' = None
      /\ ~ fits => cache' = cache /\ lock' = w
  BY DEF Resolve, Encoded, SInv, TypeOK
<1>2. rows \in TableSchema BY <1>0, CoercedTyped
<1>3. x \in WriterState
  <2>. HIDE DEF fits, rows
  <2>. QED BY <1>0, <1>2, WriterExcept DEF WriterPc
<1>4. /\ x.obj = o /\ x.want = writer[w].want
      /\ x.pc = IF fits THEN "encoded" ELSE "altering"
  <2>. HIDE DEF fits, rows
  <2>. QED BY <1>0 DEF WriterState
<1>. HIDE DEF x, rows
<1>5. writer'[w] = x /\ \A v \in Writers : v # w => writer'[v] = writer[v]
  BY <1>1 DEF SInv, TypeOK
<1>6. cache' \in {o, cache} /\ (cache # None => cache' = o)
  BY <1>1
<1>7. TypeOK'
  <2>1. writer' \in [Writers -> WriterState] BY <1>1, <1>3 DEF SInv, TypeOK
  <2>2. (lock # None => lock \in Writers /\ writer[lock].pc \in {"loading", "altering"})'
    BY <1>1, <1>4, <1>5 DEF None
  <2>3. (draft # <<>> => lock \in Writers /\ writer[lock].pc = "altering")'
    BY <1>1
  <2>. QED BY <1>1, <1>6, <2>1, <2>2, <2>3 DEF SInv, TypeOK
<1>8. InUse' = {o}
  <2>1. \A v \in Writers : v # w => ~ Altering(v)' BY <1>5 DEF Altering
  <2>2. Altering(w)' => ~ fits BY <1>4, <1>5 DEF Altering
  <2>3. fits => cache' = o BY <1>1
  <2>4. ~ fits => Altering(w)' /\ writer'[w].obj = o BY <1>4, <1>5 DEF Altering
  <2>5. cache' = o \/ cache' = None BY <1>1, <1>6
  <2>6. None \notin Writers \cup Deleters BY SchemaActors DEF None
  <2>. HIDE DEF fits
  <2>. QED BY <1>5, <1>4, <2>1, <2>2, <2>3, <2>4, <2>5, <2>6 DEF InUse
<1>9. LockHeld' BY <1>1, <1>4, <1>5 DEF SInv, LockHeld
<1>10. Apart'
  <2>1. \A d \in Deleters : deleter[d].pc \in Answered BY InFlightApart DEF Ended
  <2>. QED BY <1>1, <2>1 DEF Apart
<1>11. RightObject'
  <2>1. ASSUME NEW v \in Writers, v # w, writer[v].pc \in {"encoded", "staged"}
        PROVE  /\ cache' # None /\ writer[v].obj = cache'
               /\ Fits(objects'[cache'], writer[v].want)
    <3>1. cache # None /\ writer[v].obj = cache /\ Fits(objects[cache], writer[v].want)
      BY <2>1 DEF SInv, RightObject
    <3>. QED BY <1>0, <1>1, <1>6, <3>1
  <2>2. \A v \in Writers : v # w => writer'[v].pc \notin {"loading", "altering"} BY <1>5
  <2>3. writer'[w].pc = "altering" =>
            writer'[w].obj # None
            /\ (writer'[w].obj = cache' \/ (cache' = None /\ writer'[w].obj = w))
    BY <1>0, <1>1, <1>4, <1>5
  <2>4. writer'[w].pc \in {"encoded", "staged"} =>
            cache' # None /\ writer'[w].obj = cache' /\ Fits(objects'[cache'], writer'[w].want)
    BY <1>0, <1>1, <1>4, <1>5
  <2>5. writer'[w].pc # "loading" BY <1>4, <1>5
  <2>. QED BY <1>5, <2>1, <2>2, <2>3, <2>4, <2>5 DEF RightObject, Altering
<1>12. Unaltered'
  BY <1>1, <1>4, <1>5 DEF Unaltered, Altering
<1>13. Truthful' /\ NotNarrower'
  BY <1>1, <1>8 DEF Truthful, NotNarrower, Columns
<1>14. DraftWider' /\ PoisonCached' /\ ReadTruthful'
  BY <1>0, <1>1, <1>6 DEF SInv, DraftWider, Columns, PoisonCached, ReadTruthful
<1>15. TrueCacheRoundsNothing'
  <2>1. x.pc # "stored" BY <1>4
  <2>. QED BY <1>1, <1>5, <2>1 DEF SInv, TrueCacheRoundsNothing, StoredUnrounded
<1>. QED BY <1>7, <1>9, <1>10, <1>11, <1>12, <1>13, <1>14, <1>15 DEF SInv

(* No transaction is open unless somebody is altering.                     *)
LEMMA ClosedIfFree ==
    ASSUME SInv, lock = None \/ (lock \in Writers /\ writer[lock].pc # "altering")
    PROVE  draft = <<>>
BY SchemaActors DEF SInv, TypeOK, None

LEMMA LockInv ==
    ASSUME SInv, NEW w \in Writers, Lock(w) PROVE SInv'
<1>1. /\ writer[w].pc = "locking" /\ lock = None /\ cache # None
      /\ Resolve(w, objects, cache)
  BY DEF Lock
<1>2. draft = <<>> BY <1>1, ClosedIfFree
<1>3. \A v \in Writers : writer[v].pc \notin {"loading", "altering"}
  BY <1>1, SchemaActors DEF SInv, LockHeld, None
<1>4. cache \in InUse /\ objects \in [Writers \cup Deleters -> TableSchema]
  BY <1>1 DEF InUse, SInv, TypeOK
<1>5. cache \in Writers \cup Deleters BY <1>1 DEF SInv, TypeOK
<1>6. ~ poisoned => \A n \in Name : objects[cache][n] = table[ColOf[n]]
  BY <1>2, <1>4 DEF SInv, Truthful, Columns
<1>7. \A n \in Name : ~ Wider(table[ColOf[n]], objects[cache][n])
  BY <1>2, <1>4 DEF SInv, NotNarrower, Columns
<1>. QED BY <1>1, <1>2, <1>3, <1>4, <1>5, <1>6, <1>7, ResolveInv

LEMMA LoadInv ==
    ASSUME SInv, PlainRegime, NEW w \in Writers, Load(w) PROVE SInv'
<1>. DEFINE objs == [objects EXCEPT ![w] = Introspected]
<1>1. writer[w].pc = "loading" /\ Resolve(w, objs, w) BY DEF Load
<1>2. lock = w /\ cache = None BY <1>1 DEF SInv, LockHeld, RightObject
<1>3. draft = <<>> BY <1>1, <1>2, ClosedIfFree
<1>4. \A v \in Writers : writer[v].pc \in {"loading", "altering"} => v = w
  BY <1>2 DEF SInv, LockHeld
<1>5. objs \in [Writers \cup Deleters -> TableSchema] /\ objs[w] = Introspected
  BY IntrospectedTyped DEF SInv, TypeOK
<1>. HIDE DEF objs
<1>6. \A n \in Name : objs[w][n] = table[ColOf[n]]
  BY <1>5, IntrospectedTruthful
<1>7. \A n \in Name : table[ColOf[n]] \in MaybeType BY SchemaNames DEF SInv, TypeOK
<1>8. \A n \in Name : ~ Wider(table[ColOf[n]], objs[w][n])
  BY <1>6, <1>7, WiderIrreflexive
<1>. QED BY <1>1, <1>2, <1>3, <1>4, <1>5, <1>6, <1>8, ResolveInv

-----------------------------------------------------------------------------
(* The ALTER transaction                                                   *)

LEMMA ColumnsTyped ==
    ASSUME SInv PROVE Columns \in [Column -> MaybeType]
BY DEF SInv, TypeOK, Columns

(* A batch that alters the schema holds the lock, and its object is the    *)
(* only one in use.                                                        *)
LEMMA AlteringAlone ==
    ASSUME SInv, NEW w \in Writers, Altering(w)
    PROVE  /\ lock = w /\ InUse = {writer[w].obj}
           /\ writer[w].obj \in Writers \cup Deleters
           /\ cache \in {writer[w].obj, None}
           /\ \A v \in Writers : Altering(v) => v = w
           /\ \A v \in Writers : writer[v].pc # "loading"
<1>1. lock = w /\ \A v \in Writers : writer[v].pc \in {"loading", "altering"} => v = w
  BY DEF SInv, LockHeld, Altering
<1>2. /\ writer[w].obj # None
      /\ writer[w].obj = cache \/ (cache = None /\ writer[w].obj = w)
  BY DEF SInv, RightObject
<1>3. writer[w].obj \in Writers \cup Deleters
  BY <1>2 DEF SInv, TypeOK, WriterState
<1>4. None \notin Writers \cup Deleters BY SchemaActors DEF None
<1>. QED BY <1>1, <1>2, <1>3, <1>4 DEF InUse, Altering

(* A schema that a type has been raised in still fits what it fitted.      *)
LEMMA FitsRaised ==
    ASSUME NEW schema \in TableSchema, NEW want \in TableSchema, Fits(schema, want),
           NEW n \in Name, NEW t \in MaybeType, t # "none", ~ Wider(schema[n], t)
    PROVE  Fits([schema EXCEPT ![n] = t], want)
<1>. DEFINE raised == [schema EXCEPT ![n] = t]
<1>1. \A m \in Name : raised[m] = IF m = n THEN t ELSE schema[m] BY DEF TableSchema
<1>2. ASSUME NEW m \in Wanted(want) PROVE raised[m] # "none" /\ ~ Wider(want[m], raised[m])
  <2>1. m \in Name /\ want[m] # "none" BY DEF Wanted
  <2>2. schema[m] # "none" /\ ~ Wider(want[m], schema[m]) BY <2>1, FitsBounds
  <2>3. want[m] \in MaybeType /\ schema[m] \in MaybeType BY <2>1 DEF TableSchema
  <2>. HIDE DEF raised
  <2>. QED BY <1>1, <2>1, <2>2, <2>3, WiderTransitive
<1>3. Wanted(want) \subseteq Name BY DEF Wanted
<1>. HIDE DEF raised
<1>4. Missing(raised, want) = {} BY <1>2 DEF Missing
<1>5. Narrow(raised, want) = {} BY <1>2 DEF Narrow, Widened
<1>6. Fits(raised, want) BY <1>4, <1>5 DEF Fits
<1>. QED BY <1>6 DEF raised

(* One statement of the transaction: a column is raised to u, the object   *)
(* altered learns a type t that is not narrower.                           *)
LEMMA AlterStep ==
    ASSUME SInv, PlainRegime, NEW w \in Writers, Altering(w),
           NEW n \in Name, NEW t \in MaybeType, NEW u \in MaybeType,
           draft' = [Columns EXCEPT ![ColOf[n]] = u],
           objects' = [objects EXCEPT ![writer[w].obj][n] = t],
           UNCHANGED <<table, cache, lock, writer, deleter, poisoned>>,
           ~ Wider(Columns[ColOf[n]], u), ~ Wider(u, t), ~ poisoned => u = t,
           t # "none", ~ Wider(objects[writer[w].obj][n], t)
    PROVE  SInv'
<1>. DEFINE o == writer[w].obj
            c == ColOf[n]
<1>1. /\ lock = w /\ InUse = {o} /\ o \in Writers \cup Deleters
      /\ cache \in {o, None}
  BY AlteringAlone
<1>2. c \in Column /\ Columns \in [Column -> MaybeType] BY SchemaNames, ColumnsTyped
<1>3. objects[o] \in TableSchema BY <1>1 DEF SInv, TypeOK
<1>4. /\ objects'[o] = [objects[o] EXCEPT ![n] = t]
      /\ \A a \in Writers \cup Deleters : a # o => objects'[a] = objects[a]
      /\ objects' \in [Writers \cup Deleters -> TableSchema]
  BY <1>1, <1>3 DEF SInv, TypeOK, TableSchema
<1>5. draft' \in [Column -> MaybeType] BY <1>2
<1>6. draft' # <<>> BY <1>2, <1>5, DraftNotEmpty
<1>7. Columns' = draft' BY <1>6 DEF Columns
<1>8. \A m \in Name : objects'[o][m] = IF m = n THEN t ELSE objects[o][m]
  BY <1>3, <1>4 DEF TableSchema
<1>9. \A d \in Column : Columns'[d] = IF d = c THEN u ELSE Columns[d]
  BY <1>2, <1>7
<1>10. InUse' = {o} BY <1>1 DEF InUse, Altering
<1>11. writer[w].pc = "altering" BY DEF Altering
<1>. HIDE DEF o, c
<1>12. TypeOK'
  BY <1>1, <1>4, <1>5, <1>11 DEF SInv, TypeOK
<1>13. LockHeld' /\ Apart' /\ PoisonCached' /\ ReadTruthful' /\ TrueCacheRoundsNothing'
  BY DEF SInv, LockHeld, Apart, PoisonCached, ReadTruthful, TrueCacheRoundsNothing, StoredUnrounded
<1>14. RightObject'
  <2>1. ASSUME NEW v \in Writers, writer[v].pc \in {"encoded", "staged"}
        PROVE  Fits(objects'[cache], writer[v].want)
    <3>1. cache # None /\ Fits(objects[cache], writer[v].want)
      BY <2>1 DEF SInv, RightObject
    <3>2. cache = o BY <1>1, <3>1
    <3>3. writer[v].want \in TableSchema BY DEF SInv, TypeOK, WriterState
    <3>. QED BY <1>3, <1>4, <3>1, <3>2, <3>3, FitsRaised DEF o
  <2>. QED BY <2>1 DEF SInv, RightObject, Altering
<1>15. Unaltered' BY <1>6 DEF Unaltered
<1>16. ASSUME NEW m \in Name
       PROVE  /\ ~ poisoned => objects'[o][m] = Columns'[ColOf[m]]
              /\ ~ Wider(Columns'[ColOf[m]], objects'[o][m])
  <2>1. CASE m = n BY <1>2, <1>8, <1>9, <2>1 DEF c
  <2>2. CASE m # n
    <3>1. ColOf[m] # c BY <2>2, OneColumnEach DEF c
    <3>2. ColOf[m] \in Column BY SchemaNames
    <3>3. Columns'[ColOf[m]] = Columns[ColOf[m]] /\ objects'[o][m] = objects[o][m]
      BY <1>8, <1>9, <2>2, <3>1, <3>2
    <3>. QED BY <1>1, <3>3 DEF SInv, Truthful, NotNarrower
  <2>. QED BY <2>1, <2>2
<1>17. Truthful' /\ NotNarrower' BY <1>10, <1>16 DEF Truthful, NotNarrower
<1>18. DraftWider'
  <2>1. ASSUME NEW d \in Column PROVE ~ Wider(table[d], Columns'[d])
    <3>1. ~ Wider(table[d], Columns[d]) /\ table[d] \in MaybeType /\ Columns[d] \in MaybeType
      BY <1>2 DEF SInv, DraftWider, TypeOK
    <3>. QED BY <1>9, <3>1, WiderTransitive DEF c
  <2>. QED BY <2>1 DEF DraftWider
<1>. QED BY <1>12, <1>13, <1>14, <1>15, <1>17, <1>18 DEF SInv

LEMMA AddColumnInv ==
    ASSUME SInv, PlainRegime, NEW w \in Writers, NEW n \in Name, AddColumn(w, n)
    PROVE  SInv'
<1>. DEFINE o == writer[w].obj
            c == ColOf[n]
            t == writer[w].want[n]
            u == IF Columns[c] = "none" THEN t ELSE Columns[c]
<1>1. Altering(w) /\ objects[o][n] = "none" /\ t # "none"
  BY DEF AddColumn, Altering, Missing, Wanted
<1>2. o \in InUse /\ objects[o] \in TableSchema BY <1>1, AlteringAlone DEF SInv, TypeOK
<1>3. t \in MaybeType BY DEF SInv, TypeOK, WriterState, TableSchema
<1>4. c \in Column /\ Columns[c] \in MaybeType BY SchemaNames, ColumnsTyped
<1>5. Columns[c] = "none"
  <2>1. ~ Wider(Columns[c], "none") BY <1>1, <1>2 DEF SInv, NotNarrower
  <2>. QED BY <1>4, <2>1, NoneIsNarrowest
<1>6. u = t BY <1>5
<1>7. /\ draft' = [Columns EXCEPT ![c] = t]
      /\ objects' = [objects EXCEPT ![o][n] = t]
      /\ UNCHANGED <<table, cache, lock, writer, deleter, poisoned>>
  BY <1>5, ColumnsTyped, <1>4 DEF AddColumn
<1>8. ~ Wider(Columns[c], t) /\ ~ Wider(t, t) /\ ~ Wider(objects[o][n], t)
  BY <1>1, <1>3, <1>5, WiderIrreflexive, NoneIsNarrowest
<1>. QED BY <1>1, <1>3, <1>7, <1>8, AlterStep

LEMMA WidenColumnInv ==
    ASSUME SInv, PlainRegime, NEW w \in Writers, NEW n \in Name, WidenColumn(w, n)
    PROVE  SInv'
<1>. DEFINE o == writer[w].obj
            c == ColOf[n]
            want == writer[w].want[n]
            t == Widened(objects[o][n], want)
<1>1. Altering(w) /\ want # "none" BY DEF WidenColumn, Altering, Narrow, Wanted
<1>2. o \in InUse /\ objects[o] \in TableSchema BY <1>1, AlteringAlone DEF SInv, TypeOK
<1>3. want \in MaybeType /\ objects[o][n] \in MaybeType
  BY <1>2 DEF SInv, TypeOK, WriterState, TableSchema
<1>4. c \in Column /\ Columns[c] \in MaybeType BY SchemaNames, ColumnsTyped
<1>5. t \in MaybeType /\ t # "none" /\ ~ Wider(objects[o][n], t)
  BY <1>1, <1>3, WidenedBounds
<1>6. ~ Wider(Columns[c], objects[o][n]) BY <1>2 DEF SInv, NotNarrower
<1>7. /\ draft' = [Columns EXCEPT ![c] = t]
      /\ objects' = [objects EXCEPT ![o][n] = t]
      /\ UNCHANGED <<table, cache, lock, writer, deleter, poisoned>>
  BY DEF WidenColumn
<1>. HIDE DEF t
<1>8. ~ Wider(Columns[c], t) BY <1>3, <1>4, <1>5, <1>6, WiderTransitive
<1>9. ~ Wider(t, t) BY <1>5, WiderIrreflexive
<1>. QED BY <1>1, <1>5, <1>7, <1>8, <1>9, AlterStep

LEMMA CommitAlterInv ==
    ASSUME SInv, PlainRegime, NEW w \in Writers, CommitAlter(w)
    PROVE  SInv'
<1>. DEFINE o == writer[w].obj
            want == writer[w].want
            rows == Coerced(objects[o], want)
            x == [writer[w] EXCEPT !.pc = "encoded", !.obj = o, !.rows = rows]
<1>1. Altering(w) /\ Fits(objects[o], want) BY DEF CommitAlter, Altering
<1>2. /\ lock = w /\ InUse = {o} /\ o \in Writers \cup Deleters /\ cache \in {o, None}
      /\ \A v \in Writers : Altering(v) => v = w
      /\ \A v \in Writers : writer[v].pc # "loading"
  BY <1>1, AlteringAlone
<1>3. draft # <<>> BY <1>1 DEF SInv, Unaltered
<1>4. draft \in [Column -> MaybeType] /\ Columns = draft BY <1>3 DEF SInv, TypeOK, Columns
<1>5. /\ table' = draft /\ draft' = <<>> /\ cache' = o /\ lock' = None
      /\ writer' = [writer EXCEPT ![w] = x]
      /\ UNCHANGED <<objects, deleter, poisoned>>
  BY DEF CommitAlter, Committed, Encoded
<1>6. x \in WriterState
  <2>1. writer[w] \in WriterState /\ want \in TableSchema /\ objects[o] \in TableSchema
    BY <1>2 DEF SInv, TypeOK, WriterState
  <2>2. rows \in TableSchema BY <2>1, CoercedTyped
  <2>3. o \in Writers \cup Deleters \cup {None} BY <1>2
  <2>. HIDE DEF rows, o
  <2>. QED BY <2>1, <2>2, <2>3, WriterExcept DEF WriterPc
<1>7. x.pc = "encoded" /\ x.obj = o /\ x.want = want BY DEF SInv, TypeOK, WriterState
<1>. HIDE DEF x, o, want
<1>8. writer'[w] = x /\ \A v \in Writers : v # w => writer'[v] = writer[v]
  BY <1>5 DEF SInv, TypeOK
<1>9. TypeOK'
  <2>1. writer' \in [Writers -> WriterState] BY <1>5, <1>6 DEF SInv, TypeOK
  <2>. QED BY <1>2, <1>4, <1>5, <2>1 DEF SInv, TypeOK
<1>10. \A v \in Writers : writer'[v].pc \notin {"loading", "altering"}
  BY <1>2, <1>7, <1>8 DEF Altering
<1>11. InUse' = {o} BY <1>2, <1>5, <1>10 DEF InUse, Altering
<1>12. Columns' = draft BY <1>4, <1>5 DEF Columns
<1>13. \A d \in Deleters : deleter[d].pc \in Answered
  BY <1>1, InFlightApart DEF Altering, Ended
<1>14. LockHeld' /\ Unaltered' BY <1>10 DEF LockHeld, Unaltered, Altering
<1>15. Apart' /\ ReadTruthful' BY <1>5, <1>13 DEF Apart, ReadTruthful, Answered
<1>16. PoisonCached' BY <1>2, <1>5, SchemaActors DEF PoisonCached, None
<1>17. RightObject'
  <2>0. o # None BY <1>2, SchemaActors DEF None
  <2>1. ASSUME NEW v \in Writers, v # w, writer[v].pc \in {"encoded", "staged"}
        PROVE  writer[v].obj = o /\ Fits(objects[o], writer[v].want)
    <3>1. cache # None /\ writer[v].obj = cache /\ Fits(objects[cache], writer[v].want)
      BY <2>1 DEF SInv, RightObject
    <3>. QED BY <1>2, <3>1
  <2>. QED BY <1>1, <1>5, <1>7, <1>8, <1>10, <2>0, <2>1 DEF RightObject, Altering, o, want
<1>18. Truthful' /\ NotNarrower'
  BY <1>2, <1>4, <1>5, <1>11, <1>12 DEF SInv, Truthful, NotNarrower
<1>19. DraftWider' BY <1>4, <1>5, <1>12, WiderIrreflexive DEF DraftWider
<1>20. TrueCacheRoundsNothing'
  <2>1. ASSUME ~ poisoned, NEW v \in Writers, writer'[v].pc = "stored",
               NEW n \in Wanted(writer'[v].want)
        PROVE  ~ Wider(writer'[v].want[n], table'[ColOf[n]])
    <3>1. v # w /\ writer'[v] = writer[v] BY <1>7, <1>8, <2>1
    <3>2. ~ Wider(writer[v].want[n], table[ColOf[n]])
      BY <2>1, <3>1 DEF SInv, TrueCacheRoundsNothing, StoredUnrounded
    <3>3. n \in Name BY DEF Wanted
    <3>4. writer[v].want[n] \in MaybeType BY <3>3 DEF SInv, TypeOK, WriterState, TableSchema
    <3>5. ColOf[n] \in Column BY <3>3, SchemaNames
    <3>6. ~ Wider(table[ColOf[n]], draft[ColOf[n]]) BY <1>4, <3>5 DEF SInv, DraftWider
    <3>7. table[ColOf[n]] \in MaybeType /\ draft[ColOf[n]] \in MaybeType
      BY <1>4, <3>5 DEF SInv, TypeOK
    <3>. QED BY <1>5, <3>1, <3>2, <3>4, <3>6, <3>7, WiderTransitive
  <2>. QED BY <1>5, <2>1 DEF TrueCacheRoundsNothing, StoredUnrounded
<1>. QED BY <1>9, <1>14, <1>15, <1>16, <1>17, <1>18, <1>19, <1>20 DEF SInv

-----------------------------------------------------------------------------
(* Failures                                                                *)

LEMMA FailInv ==
    ASSUME SInv, NEW w \in Writers, Fail(w) PROVE SInv'
<1>1. /\ writer[w].pc \in {"loading", "altering", "encoded", "staged"}
      /\ writer' = [writer EXCEPT ![w] = Idle]
      /\ draft' = IF writer[w].pc = "altering" THEN <<>> ELSE draft
      /\ poisoned' = (poisoned \/ (/\ writer[w].pc = "altering" /\ draft # <<>>
                                   /\ writer[w].obj = cache))
      /\ lock' = Released(w)
      /\ objects' = [objects EXCEPT ![w] = IF Referenced(w) THEN @ ELSE NoTypes]
      /\ UNCHANGED <<table, cache, deleter>>
  BY DEF Fail
<1>2. writer'[w] = Idle /\ \A v \in Writers : v # w => writer'[v] = writer[v]
  BY <1>1 DEF SInv, TypeOK
<1>3. /\ objects' \in [Writers \cup Deleters -> TableSchema]
      /\ \A a \in Writers \cup Deleters :
            a # w \/ Referenced(w) => objects'[a] = objects[a]
  BY <1>1, NoTypesTyped DEF SInv, TypeOK
<1>4. \A v \in Writers : v # w /\ Altering(v) => objects'[writer[v].obj] = objects[writer[v].obj]
  <2>1. ASSUME NEW v \in Writers, v # w, Altering(v)
        PROVE  objects'[writer[v].obj] = objects[writer[v].obj]
    <3>1. writer[v].obj \in Writers \cup Deleters BY <2>1, AlteringAlone
    <3>2. writer[v].obj = w => Referenced(w) BY <2>1 DEF Referenced
    <3>. QED BY <1>3, <3>1, <3>2
  <2>. QED BY <2>1
<1>5. cache # None => objects'[cache] = objects[cache]
  BY <1>3 DEF Referenced, SInv, TypeOK
<1>6. Idle.pc = "idle" BY DEF Idle
<1>7. \A v \in Writers : Altering(v)' => v # w /\ Altering(v) /\ writer'[v].obj = writer[v].obj
  BY <1>2, <1>6 DEF Altering
<1>8. \A o \in InUse' : o \in InUse /\ objects'[o] = objects[o]
  <2>0. None \notin Writers \cup Deleters BY SchemaActors DEF None
  <2>1. ASSUME NEW o \in InUse' PROVE o \in InUse /\ objects'[o] = objects[o]
    <3>1. o \in Writers \cup Deleters BY DEF InUse
    <3>2. CASE o = cache' BY <1>1, <1>5, <2>0, <3>1, <3>2 DEF InUse
    <3>3. CASE \E v \in Writers : Altering(v)' /\ writer'[v].obj = o
      BY <1>4, <1>7, <3>1, <3>3 DEF InUse
    <3>. QED BY <3>2, <3>3 DEF InUse
  <2>. QED BY <2>1
<1>9. /\ \A v \in Writers : writer[v].pc \in {"loading", "altering"} => lock = v
      /\ lock # None => lock \in Writers /\ writer[lock].pc \in {"loading", "altering"}
      /\ draft # <<>> => lock \in Writers /\ writer[lock].pc = "altering"
  BY DEF SInv, LockHeld, TypeOK
<1>10. TypeOK'
  <2>1. writer' \in [Writers -> WriterState] BY <1>1, IdleTyped DEF SInv, TypeOK
  <2>2. (lock # None => lock \in Writers /\ writer[lock].pc \in {"loading", "altering"})'
    BY <1>1, <1>2, <1>9 DEF Released
  <2>3. (draft # <<>> => lock \in Writers /\ writer[lock].pc = "altering")'
    BY <1>1, <1>2, <1>9 DEF Released
  <2>. QED BY <1>1, <1>3, <2>1, <2>2, <2>3 DEF SInv, TypeOK
<1>11. LockHeld' BY <1>1, <1>2, <1>6, <1>9 DEF LockHeld, Released
<1>12. Apart' BY <1>1, <1>2, <1>6 DEF SInv, Apart, Ended
<1>13. RightObject'
  BY <1>1, <1>2, <1>5, <1>6 DEF SInv, RightObject, Altering
<1>14. Unaltered'
  <2>1. ASSUME NEW v \in Writers, Altering(v)', draft' = <<>>
        PROVE  ~ Fits(objects'[writer'[v].obj], writer'[v].want)
    <3>1. v # w /\ Altering(v) /\ writer'[v] = writer[v] BY <1>2, <1>7, <2>1
    <3>2. writer[w].pc # "altering" BY <3>1, <1>9 DEF Altering
    <3>. QED BY <1>1, <1>4, <2>1, <3>1, <3>2 DEF SInv, Unaltered
  <2>. QED BY <2>1 DEF Unaltered
<1>15. Truthful' /\ NotNarrower' /\ DraftWider' /\ PoisonCached'
  <2>1. CASE Altering(w)
    <3>1. /\ InUse = {writer[w].obj} /\ \A v \in Writers : Altering(v) => v = w
          /\ writer[w].obj \in Writers \cup Deleters
      BY <2>1, AlteringAlone
    <3>2. draft' = <<>> /\ Columns' = table BY <1>1, <2>1 DEF Columns, Altering
    <3>3. Truthful'
      <4>1. ASSUME ~ poisoned', NEW o \in InUse' PROVE ~ poisoned /\ draft = <<>> /\ o \in InUse
        <5>1. o = cache BY <1>1, <1>7, <3>1 DEF InUse
        <5>2. o = writer[w].obj BY <1>8, <3>1
        <5>. QED BY <1>1, <1>8, <2>1, <4>1, <5>1, <5>2 DEF Altering
      <4>2. draft = <<>> => Columns = table BY DEF Columns
      <4>. QED BY <1>8, <3>2, <4>1, <4>2 DEF SInv, Truthful
    <3>4. NotNarrower'
      <4>1. ASSUME NEW o \in InUse', NEW n \in Name PROVE ~ Wider(table[ColOf[n]], objects[o][n])
        <5>1. ~ Wider(Columns[ColOf[n]], objects[o][n]) BY <1>8 DEF SInv, NotNarrower
        <5>2. ColOf[n] \in Column BY SchemaNames
        <5>3. ~ Wider(table[ColOf[n]], Columns[ColOf[n]]) BY <5>2 DEF SInv, DraftWider
        <5>4. table[ColOf[n]] \in MaybeType /\ Columns[ColOf[n]] \in MaybeType
          BY <5>2, ColumnsTyped DEF SInv, TypeOK
        <5>5. objects[o][n] \in MaybeType
          BY <1>8 DEF SInv, TypeOK, InUse, TableSchema
        <5>. QED BY <5>1, <5>3, <5>4, <5>5, WiderTransitive
      <4>. QED BY <1>8, <3>2, <4>1 DEF NotNarrower
    <3>5. DraftWider' BY <1>1, <3>2, WiderIrreflexive DEF SInv, TypeOK, DraftWider
    <3>6. PoisonCached' BY <1>1, <3>1, SchemaActors DEF SInv, PoisonCached, None
    <3>. QED BY <3>3, <3>4, <3>5, <3>6
  <2>2. CASE ~ Altering(w)
    <3>0. writer[w].pc # "altering" BY <2>2 DEF Altering
    <3>1. UNCHANGED <<table, draft>> /\ poisoned' = poisoned
      BY <1>1, <3>0 DEF SInv, TypeOK
    <3>2. Columns' = Columns BY <3>1 DEF Columns
    <3>3. Truthful' /\ NotNarrower' BY <1>8, <3>1, <3>2 DEF SInv, Truthful, NotNarrower
    <3>. QED BY <1>1, <3>1, <3>2, <3>3 DEF SInv, DraftWider, PoisonCached
  <2>. QED BY <2>1, <2>2
<1>16. ReadTruthful' BY <1>1 DEF SInv, ReadTruthful
<1>17. TrueCacheRoundsNothing'
  BY <1>1, <1>2, <1>6 DEF SInv, TrueCacheRoundsNothing, StoredUnrounded
<1>. QED BY <1>10, <1>11, <1>12, <1>13, <1>14, <1>15, <1>16, <1>17 DEF SInv

LEMMA RestartInv ==
    ASSUME SInv, Restart PROVE SInv'
<1>. USE DEF Restart
<1>1. TypeOK' BY IdleTyped, NoDeleteTyped, NoTypesTyped DEF SInv, TypeOK
<1>2. InUse' = {} BY SchemaActors DEF InUse, None, Altering, Idle
<1>3. LockHeld' /\ Apart' /\ RightObject' /\ Unaltered' /\ PoisonCached'
  BY DEF LockHeld, Apart, RightObject, Unaltered, PoisonCached, Idle, NoDelete, Ended, Answered, Altering
<1>4. Truthful' /\ NotNarrower' BY <1>2 DEF Truthful, NotNarrower
<1>5. Columns' = table BY DEF Columns
<1>6. DraftWider' BY <1>5, WiderIrreflexive DEF DraftWider, SInv, TypeOK
<1>7. ReadTruthful' /\ TrueCacheRoundsNothing'
  BY DEF ReadTruthful, TrueCacheRoundsNothing, StoredUnrounded, NoDelete, Idle
<1>. QED BY <1>1, <1>3, <1>4, <1>6, <1>7 DEF SInv

-----------------------------------------------------------------------------
(* Deletes                                                                 *)

LEMMA QuietDelete ==
    ASSUME SInv, NEW d \in Deleters, NEW x \in DeleterState,
           deleter' = [deleter EXCEPT ![d] = x],
           UNCHANGED <<table, draft, objects, cache, lock, writer, poisoned>>,
           x.pc \in Answered \/ \A w \in Writers : writer[w].pc \in Ended,
           x.pc = "read" => \A n \in Name : x.read[n] = table[ColOf[n]]
    PROVE  SInv'
<1>1. deleter'[d] = x /\ \A e \in Deleters : e # d => deleter'[e] = deleter[e]
  BY DEF SInv, TypeOK
<1>2. TypeOK' BY DEF SInv, TypeOK
<1>3. InUse' = InUse BY DEF InUse, Altering
<1>4. LockHeld' /\ RightObject' /\ Unaltered' /\ DraftWider' /\ PoisonCached'
  BY DEF SInv, LockHeld, RightObject, Unaltered, DraftWider, Columns, PoisonCached, Altering
<1>5. Truthful' /\ NotNarrower' BY <1>3 DEF SInv, Truthful, NotNarrower, Columns
<1>6. Apart' BY <1>1 DEF SInv, Apart
<1>7. ReadTruthful' BY <1>1 DEF SInv, ReadTruthful
<1>8. TrueCacheRoundsNothing' BY DEF SInv, TrueCacheRoundsNothing, StoredUnrounded
<1>. QED BY <1>2, <1>4, <1>5, <1>6, <1>7, <1>8 DEF SInv

(* A delete in flight keeps batches away.                                  *)
LEMMA WritersEnded ==
    ASSUME SInv, NEW d \in Deleters, deleter[d].pc \notin Answered
    PROVE  /\ \A w \in Writers : writer[w].pc \in Ended
           /\ lock = None /\ draft = <<>>
<1>1. \A w \in Writers : writer[w].pc \in Ended BY DEF SInv, Apart
<1>2. \A w \in Writers : writer[w].pc \notin {"loading", "altering"} BY <1>1 DEF Ended
<1>. QED BY <1>1, <1>2 DEF SInv, TypeOK

LEMMA BeginDeleteInv ==
    ASSUME SInv, PlainRegime, NEW d \in Deleters, NEW n \in Tags, BeginDelete(d, n)
    PROVE  SInv'
<1>. DEFINE fresh == [NoDelete EXCEPT !.pc = "loading", !.tag = n,
                                      !.knew = (table[ColOf[n]] # "none")]
            x == IF cache = None THEN fresh
                 ELSE [fresh EXCEPT !.pc = IF objects[cache][n] = "none" THEN "skipped" ELSE "run"]
<1>1. fresh \in DeleterState BY NoDeleteTyped DEF DeleterState, DeleterPc
<1>2. x \in DeleterState /\ x.pc # "read"
  <2>1. CASE cache = None
    <3>1. fresh.pc = "loading" BY DEF NoDelete
    <3>. HIDE DEF fresh
    <3>. QED BY <1>1, <2>1, <3>1
  <2>2. CASE cache # None
    <3>1. PICK p \in {"skipped", "run"} : x = [fresh EXCEPT !.pc = p] BY <2>2
    <3>. HIDE DEF fresh, x
    <3>. QED BY <1>1, <3>1 DEF DeleterState, DeleterPc, Answered
  <2>. QED BY <2>1, <2>2
<1>3. /\ deleter' = [deleter EXCEPT ![d] = x]
      /\ UNCHANGED <<table, draft, objects, cache, lock, writer, poisoned>>
      /\ \A w \in Writers : writer[w].pc \in Ended
  BY DEF BeginDelete, PlainRegime
<1>. HIDE DEF x
<1>. QED BY <1>2, <1>3, QuietDelete

LEMMA ReadCatalogInv ==
    ASSUME SInv, PlainRegime, NEW d \in Deleters, ReadCatalog(d) PROVE SInv'
<1>. DEFINE x == [deleter[d] EXCEPT !.pc = "read", !.read = Introspected]
<1>1. deleter[d] \in DeleterState /\ Introspected \in TableSchema
  BY IntrospectedTyped DEF SInv, TypeOK
<1>2. x \in DeleterState /\ x.read = Introspected BY <1>1 DEF DeleterState, DeleterPc
<1>3. /\ deleter' = [deleter EXCEPT ![d] = x]
      /\ UNCHANGED <<table, draft, objects, cache, lock, writer, poisoned>>
      /\ deleter[d].pc = "loading"
  BY DEF ReadCatalog, SInv, TypeOK
<1>4. \A w \in Writers : writer[w].pc \in Ended BY <1>3, WritersEnded DEF Answered
<1>5. \A n \in Name : x.read[n] = table[ColOf[n]] BY <1>2, IntrospectedTruthful
<1>. HIDE DEF x
<1>. QED BY <1>2, <1>3, <1>4, <1>5, QuietDelete

(* The loaded object is cached while no batch is in flight, so it is the   *)
(* only one in use and says what the table is.                             *)
LEMMA StoreLoadedInv ==
    ASSUME SInv, NEW d \in Deleters, StoreLoaded(d) PROVE SInv'
<1>. DEFINE x == Looked(d, deleter[d].read)
<1>1. /\ deleter[d].pc = "read"
      /\ objects' = [objects EXCEPT ![d] = deleter[d].read]
      /\ cache' = d
      /\ deleter' = [deleter EXCEPT ![d] = x]
      /\ UNCHANGED <<table, draft, lock, writer, poisoned>>
  BY DEF StoreLoaded
<1>2. \A w \in Writers : writer[w].pc \in Ended /\ lock = None /\ draft = <<>>
  BY <1>1, WritersEnded DEF Answered
<1>3. \A w \in Writers :
        writer[w].pc \notin {"loading", "altering", "encoded", "staged"}
  BY <1>2 DEF Ended
<1>4. draft = <<>> BY <1>1, WritersEnded DEF Answered
<1>5. deleter[d] \in DeleterState /\ deleter[d].read \in TableSchema
  BY DEF SInv, TypeOK, DeleterState
<1>6. x \in DeleterState /\ x.pc \in {"skipped", "run"}
  <2>1. PICK p \in {"skipped", "run"} : x = [deleter[d] EXCEPT !.pc = p, !.read = NoTypes]
    BY DEF Looked
  <2>. HIDE DEF x
  <2>. QED BY <1>5, <2>1, NoTypesTyped DEF DeleterState, DeleterPc, Answered
<1>. HIDE DEF x
<1>7. deleter'[d] = x /\ \A e \in Deleters : e # d => deleter'[e] = deleter[e]
  BY <1>1 DEF SInv, TypeOK
<1>8. TypeOK' BY <1>1, <1>5, <1>6 DEF SInv, TypeOK
<1>9. InUse' = {d} BY <1>1, <1>3 DEF InUse, Altering
<1>10. \A n \in Name : objects'[d][n] = table[ColOf[n]]
  BY <1>1 DEF SInv, TypeOK, ReadTruthful
<1>11. Columns' = table BY <1>1, <1>4 DEF Columns
<1>12. \A n \in Name : table[ColOf[n]] \in MaybeType BY SchemaNames DEF SInv, TypeOK
<1>13. Truthful' /\ NotNarrower'
  BY <1>9, <1>10, <1>11, <1>12, WiderIrreflexive DEF Truthful, NotNarrower
<1>14. LockHeld' /\ RightObject' /\ Unaltered'
  BY <1>1, <1>3 DEF LockHeld, RightObject, Unaltered, Altering
<1>15. Apart' BY <1>1, <1>2 DEF Apart
<1>16. DraftWider' BY <1>1, <1>11, WiderIrreflexive DEF DraftWider, SInv, TypeOK
<1>17. PoisonCached' BY <1>1, SchemaActors DEF PoisonCached, None
<1>18. ReadTruthful' BY <1>1, <1>6, <1>7 DEF SInv, ReadTruthful
<1>19. TrueCacheRoundsNothing' BY <1>1 DEF SInv, TrueCacheRoundsNothing, StoredUnrounded
<1>. QED BY <1>8, <1>13, <1>14, <1>15, <1>16, <1>17, <1>18, <1>19 DEF SInv

LEMMA DeleteEndsInv ==
    ASSUME SInv, NEW d \in Deleters, RunDelete(d) \/ DeleteFails(d) PROVE SInv'
<1>1. NoDelete.pc = "idle" BY DEF NoDelete
<1>2. deleter' = [deleter EXCEPT ![d] = NoDelete]
      /\ UNCHANGED <<table, draft, objects, cache, lock, writer, poisoned>>
  BY DEF RunDelete, DeleteFails
<1>. QED BY <1>1, <1>2, NoDeleteTyped, QuietDelete DEF Answered

-----------------------------------------------------------------------------
LEMMA NextInv ==
    ASSUME SInv, PlainRegime, [Next]_vars PROVE SInv'
<1>1. CASE UNCHANGED vars
  BY <1>1 DEF vars, SInv, TypeOK, LockHeld, Apart, RightObject, Unaltered, Truthful, NotNarrower,
              DraftWider, PoisonCached, ReadTruthful, TrueCacheRoundsNothing, StoredUnrounded,
              InUse, Altering, Columns
<1>2. ASSUME NEW w \in Writers, NEW batch \in Batches, Begin(w, batch) PROVE SInv'
  BY <1>2, BeginInv
<1>3. ASSUME NEW w \in Writers, BatchStep(w) PROVE SInv'
  BY <1>3, LockInv, LockAndLoadInv, LoadInv, AddColumnInv, WidenColumnInv, CommitAlterInv,
     StageInv, InsertInv DEF BatchStep, Alter
<1>4. ASSUME NEW w \in Writers, Fail(w) PROVE SInv' BY <1>4, FailInv
<1>5. ASSUME NEW d \in Deleters, NEW n \in Tags, BeginDelete(d, n) PROVE SInv'
  BY <1>5, BeginDeleteInv
<1>6. ASSUME NEW d \in Deleters, DeleteStep(d) \/ DeleteFails(d) PROVE SInv'
  BY <1>6, ReadCatalogInv, StoreLoadedInv, DeleteEndsInv DEF DeleteStep
<1>7. CASE Restart BY <1>7, RestartInv
<1>. QED BY <1>1, <1>2, <1>3, <1>4, <1>5, <1>6, <1>7 DEF Next

(* No step narrows or drops a column of the table.                         *)
LEMMA TableRises ==
    ASSUME SInv, [Next]_vars
    PROVE  \A c \in Column : ~ Wider(table[c], table'[c])
<1>1. CASE UNCHANGED table
  BY <1>1, WiderIrreflexive DEF SInv, TypeOK
<1>2. ASSUME NEW w \in Writers, CommitAlter(w)
      PROVE  \A c \in Column : ~ Wider(table[c], table'[c])
  <2>1. draft # <<>> BY <1>2 DEF CommitAlter, SInv, Unaltered, Altering
  <2>2. table' = Columns BY <1>2, <2>1 DEF CommitAlter, Committed, Columns
  <2>. QED BY <2>2 DEF SInv, DraftWider
<1>3. UNCHANGED table \/ \E w \in Writers : CommitAlter(w)
  BY DEF Next, vars, BatchStep, DeleteStep, Alter, Begin, Lock, LockAndLoad, Load, Resolve,
         AddColumn, WidenColumn, Stage, Insert, Fail, BeginDelete, ReadCatalog,
         StoreLoaded, RunDelete, DeleteFails, Restart
<1>. QED BY <1>1, <1>2, <1>3

(* Whatever batches, deletes, failures and restarts come, the objects in   *)
(* use compare with the table and the open transaction as SInv says, if    *)
(* names are spelled as the catalog spells them and deletes keep apart     *)
(* from batches (_ensure_schema, _create_or_load, _write_measurement).     *)
THEOREM SchemaInductive == PlainRegime /\ Spec => []SInv
<1>. SUFFICES ASSUME PlainRegime PROVE Spec => []SInv OBVIOUS
<1>1. SInv /\ [Next]_vars => SInv' BY NextInv
<1>. QED BY InitInv, <1>1, PTL DEF Spec

(* Unless a rollback has poisoned it, the cached schema names exactly the  *)
(* columns and types the table has whenever no ALTER is open: what         *)
(* _ensure_schema's fast path and delete_lp rely on.                       *)
THEOREM CacheIsTruthful == PlainRegime /\ Spec => []CacheMatchesTable
<1>1. ASSUME SInv PROVE CacheMatchesTable
  <2>1. SUFFICES ASSUME cache # None, draft = <<>>, ~ poisoned, NEW n \in Name
                 PROVE  objects[cache][n] \in {"none", table[ColOf[n]]}
    BY DEF CacheMatchesTable
  <2>2. cache \in InUse BY <1>1, <2>1 DEF SInv, TypeOK, InUse
  <2>. QED BY <1>1, <2>1, <2>2 DEF SInv, Truthful, Columns
<1>. QED BY <1>1, SchemaInductive, PTL

(* A batch accepted under such a cache is stored in columns as wide as its *)
(* values, so that INSERT's assignment casts round nothing                 *)
(* (_write_measurement).                                                   *)
THEOREM RoundsNothing == PlainRegime /\ Spec => []TrueCacheRoundsNothing
<1>1. SInv => TrueCacheRoundsNothing BY DEF SInv
<1>. QED BY <1>1, SchemaInductive, PTL

(* No statement of _ensure_schema ever narrows or drops a column, rolled   *)
(* back or not.                                                            *)
THEOREM ColumnsOnlyWiden == PlainRegime /\ Spec => NeverDemoted
<1>. SUFFICES ASSUME PlainRegime PROVE Spec => NeverDemoted OBVIOUS
<1>1. SInv /\ [Next]_vars => [\A c \in Column : ~ Wider(table[c], table'[c])]_table
  BY TableRises
<1>. QED BY <1>1, SchemaInductive, PTL DEF NeverDemoted, Spec

-----------------------------------------------------------------------------
(* What requests are told                                                  *)

LEMMA ColumnTyped ==
    ASSUME SInv, NEW n \in Name
    PROVE  ColOf[n] \in Column /\ table[ColOf[n]] \in MaybeType
BY SchemaNames DEF SInv, TypeOK

(* A cached object stays cached and its types only widen, unless the       *)
(* process restarts or a delete replaces it.                               *)
LEMMA CacheRises ==
    ASSUME SInv, PlainRegime, [Next]_vars, ~ Restart, cache # None,
           \A d \in Deleters : deleter[d].pc # "read"
    PROVE  /\ cache' = cache
           /\ \A n \in Name : ~ Wider(objects[cache][n], objects'[cache][n])
<1>0. cache \in Writers \cup Deleters /\ objects \in [Writers \cup Deleters -> TableSchema]
      /\ \A n \in Name : objects[cache][n] \in MaybeType
  BY DEF SInv, TypeOK, TableSchema
<1>1. ASSUME cache' = cache, objects'[cache] = objects[cache]
      PROVE  /\ cache' = cache
             /\ \A n \in Name : ~ Wider(objects[cache][n], objects'[cache][n])
  BY <1>0, <1>1, WiderIrreflexive
<1>2. ASSUME NEW w \in Writers, NEW n \in Name, NEW t \in MaybeType, Altering(w),
             objects' = [objects EXCEPT ![writer[w].obj][n] = t], cache' = cache,
             ~ Wider(objects[writer[w].obj][n], t)
      PROVE  \A m \in Name : ~ Wider(objects[cache][m], objects'[cache][m])
  <2>1. writer[w].obj = cache BY <1>2, AlteringAlone
  <2>2. objects[cache] \in [Name -> MaybeType] BY <1>0 DEF TableSchema
  <2>3. \A m \in Name : objects'[cache][m] = IF m = n THEN t ELSE objects[cache][m]
    BY <1>0, <1>2, <2>1, <2>2
  <2>. QED BY <1>0, <1>2, <2>1, <2>3, WiderIrreflexive
<1>3. ASSUME NEW w \in Writers, NEW n \in Name, AddColumn(w, n)
      PROVE  /\ cache' = cache
             /\ \A m \in Name : ~ Wider(objects[cache][m], objects'[cache][m])
  <2>1. Altering(w) /\ objects[writer[w].obj][n] = "none" /\ cache' = cache
        /\ objects' = [objects EXCEPT ![writer[w].obj][n] = writer[w].want[n]]
    BY <1>3 DEF AddColumn, Altering, Missing
  <2>2. writer[w].want[n] \in MaybeType BY DEF SInv, TypeOK, WriterState, TableSchema
  <2>3. ~ Wider("none", writer[w].want[n]) BY <2>2, NoneIsNarrowest
  <2>. QED BY <1>2, <2>1, <2>2, <2>3
<1>4. ASSUME NEW w \in Writers, NEW n \in Name, WidenColumn(w, n)
      PROVE  /\ cache' = cache
             /\ \A m \in Name : ~ Wider(objects[cache][m], objects'[cache][m])
  <2>. DEFINE now == objects[writer[w].obj][n]
              t == Widened(now, writer[w].want[n])
  <2>1. Altering(w) /\ cache' = cache
        /\ objects' = [objects EXCEPT ![writer[w].obj][n] = t]
    BY <1>4 DEF WidenColumn, Altering
  <2>2. writer[w].want[n] \in MaybeType BY DEF SInv, TypeOK, WriterState, TableSchema
  <2>3. now \in MaybeType BY <1>0, <2>1, AlteringAlone
  <2>. HIDE DEF now
  <2>4. t \in MaybeType /\ ~ Wider(now, t) BY <2>2, <2>3, WidenedBounds
  <2>. HIDE DEF t
  <2>. QED BY <1>2, <2>1, <2>4 DEF now
<1>5. ASSUME NEW w \in Writers, Lock(w) \/ LockAndLoad(w) \/ Load(w) \/ CommitAlter(w)
      PROVE  cache' = cache /\ objects' = objects
  <2>1. CASE Lock(w) BY <2>1 DEF Lock, Resolve
  <2>2. CASE LockAndLoad(w) BY <2>2 DEF LockAndLoad
  <2>3. CASE Load(w) BY <2>3 DEF Load, SInv, RightObject
  <2>4. CASE CommitAlter(w)
    <3>1. Altering(w) BY <2>4 DEF CommitAlter, Altering
    <3>. QED BY <2>4, <3>1, AlteringAlone DEF CommitAlter
  <2>. QED BY <1>5, <2>1, <2>2, <2>3, <2>4
<1>6. ASSUME NEW w \in Writers, Fail(w)
      PROVE  cache' = cache /\ objects'[cache] = objects[cache]
  BY <1>0, <1>6 DEF Fail, Referenced
<1>7. \/ UNCHANGED <<cache, objects>>
      \/ \E w \in Writers : Lock(w) \/ LockAndLoad(w) \/ Load(w) \/ CommitAlter(w)
      \/ \E w \in Writers : Fail(w)
      \/ \E w \in Writers, n \in Name : AddColumn(w, n) \/ WidenColumn(w, n)
  BY DEF Next, vars, BatchStep, DeleteStep, Alter, Begin, Stage, Insert,
         BeginDelete, ReadCatalog, StoreLoaded, RunDelete, DeleteFails
<1>. QED BY <1>1, <1>3, <1>4, <1>5, <1>6, <1>7

(* What a delete met is still there, whatever another actor does.          *)
LEMMA DeleterKept ==
    ASSUME SInv, [Next]_vars, NEW d \in Deleters, DeleterTold(d), deleter'[d] = deleter[d]
    PROVE  DeleterTold(d)'
<1>1. CASE deleter[d].pc \notin {"loading", "read"} BY <1>1 DEF DeleterTold
<1>2. CASE deleter[d].pc \in {"loading", "read"} /\ deleter[d].knew
  <2>. DEFINE c == ColOf[deleter[d].tag]
  <2>1. deleter[d].tag \in Name BY <1>2, SchemaNames DEF DeleterTold
  <2>2. c \in Column /\ table[c] \in MaybeType /\ table[c] # "none"
    BY <1>2, <2>1, ColumnTyped DEF DeleterTold
  <2>3. ~ Wider(table[c], table'[c]) BY <2>2, TableRises
  <2>. HIDE DEF c
  <2>4. table'[c] # "none" BY <2>2, <2>3, NoneIsNarrowest
  <2>. QED BY <1>2, <2>4 DEF DeleterTold, c
<1>3. CASE deleter[d].pc \in {"loading", "read"} /\ ~ deleter[d].knew
  BY <1>3 DEF DeleterTold
<1>. QED BY <1>1, <1>2, <1>3

LEMMA BeginDeleteTold ==
    ASSUME SInv, PlainRegime, NEW d \in Deleters, NEW n \in Tags, BeginDelete(d, n)
    PROVE  DeleterTold(d)'
<1>. DEFINE fresh == [NoDelete EXCEPT !.pc = "loading", !.tag = n,
                                      !.knew = (table[ColOf[n]] # "none")]
            x == IF cache = None THEN fresh
                 ELSE [fresh EXCEPT !.pc = IF objects[cache][n] = "none" THEN "skipped" ELSE "run"]
<1>1. /\ deleter' = [deleter EXCEPT ![d] = x] /\ UNCHANGED <<table, draft, objects, cache>>
      /\ \A w \in Writers : writer[w].pc \in Ended
  BY DEF BeginDelete, PlainRegime
<1>2. deleter'[d] = x BY <1>1 DEF SInv, TypeOK
<1>3. n \in Name BY SchemaNames
<1>4. CASE cache = None
  <2>1. x.pc = "loading" /\ x.tag = n /\ x.knew = (table[ColOf[n]] # "none")
    BY <1>4 DEF NoDelete
  <2>. QED BY <1>1, <1>2, <2>1 DEF DeleterTold
<1>5. CASE cache # None
  <2>1. x.knew = (table[ColOf[n]] # "none")
        /\ x.pc = (IF objects[cache][n] = "none" THEN "skipped" ELSE "run")
    BY <1>5 DEF NoDelete
  <2>2. objects[cache][n] = "none" => table[ColOf[n]] = "none"
    <3>1. draft = <<>> BY <1>1 DEF SInv, TypeOK, Ended
    <3>2. cache \in InUse BY <1>5 DEF SInv, TypeOK, InUse
    <3>3. ~ Wider(table[ColOf[n]], objects[cache][n])
      BY <1>3, <3>1, <3>2 DEF SInv, NotNarrower, Columns
    <3>. QED BY <1>3, <3>3, ColumnTyped, NoneIsNarrowest
  <2>. HIDE DEF x
  <2>. QED BY <1>1, <1>2, <2>1, <2>2 DEF DeleterTold
<1>. QED BY <1>4, <1>5

LEMMA DeleterStepTold ==
    ASSUME SInv, PlainRegime, NEW d \in Deleters, DeleterTold(d),
           DeleteStep(d) \/ DeleteFails(d)
    PROVE  DeleterTold(d)'
<1>0. deleter[d] \in DeleterState BY DEF SInv, TypeOK
<1>1. CASE ReadCatalog(d)
  <2>. DEFINE x == [deleter[d] EXCEPT !.pc = "read", !.read = Introspected]
  <2>1. deleter'[d] = x /\ table' = table /\ deleter[d].pc = "loading"
    BY <1>1 DEF ReadCatalog, SInv, TypeOK
  <2>2. x.pc = "read" /\ x.tag = deleter[d].tag /\ x.knew = deleter[d].knew
    BY <1>0 DEF DeleterState
  <2>. HIDE DEF x
  <2>. QED BY <2>1, <2>2 DEF DeleterTold
<1>2. CASE StoreLoaded(d)
  <2>. DEFINE x == Looked(d, deleter[d].read)
              n == deleter[d].tag
  <2>1. deleter'[d] = x /\ table' = table /\ deleter[d].pc = "read"
    BY <1>2 DEF StoreLoaded, SInv, TypeOK
  <2>2. /\ x.knew = deleter[d].knew
        /\ x.pc = (IF deleter[d].read[n] = "none" THEN "skipped" ELSE "run")
    BY <1>0 DEF DeleterState, Looked
  <2>3. n \in Name BY <2>1, SchemaNames DEF DeleterTold
  <2>4. deleter[d].read[n] = table[ColOf[n]] BY <2>1, <2>3 DEF SInv, ReadTruthful
  <2>. HIDE DEF x
  <2>. QED BY <2>1, <2>2, <2>4 DEF DeleterTold
<1>3. CASE RunDelete(d) \/ DeleteFails(d)
  <2>1. deleter'[d] = NoDelete BY <1>3 DEF RunDelete, DeleteFails, SInv, TypeOK
  <2>. QED BY <2>1 DEF DeleterTold, NoDelete
<1>. QED BY <1>1, <1>2, <1>3 DEF DeleteStep

LEMMA DeletersTold ==
    ASSUME SInv, PlainRegime, [Next]_vars, NEW d \in Deleters, DeleterTold(d)
    PROVE  DeleterTold(d)'
<1>1. CASE deleter'[d] = deleter[d] BY <1>1, DeleterKept
<1>2. CASE Restart
  <2>1. deleter'[d] = NoDelete BY <1>2 DEF Restart
  <2>. QED BY <2>1 DEF DeleterTold, NoDelete
<1>3. CASE \E n \in Tags : BeginDelete(d, n) BY <1>3, BeginDeleteTold
<1>4. CASE DeleteStep(d) \/ DeleteFails(d) BY <1>4, DeleterStepTold
<1>5. \/ deleter'[d] = deleter[d] \/ Restart
      \/ \E n \in Tags : BeginDelete(d, n)
      \/ DeleteStep(d) \/ DeleteFails(d)
  <2>1. ASSUME NEW e \in Deleters, e # d,
               DeleteStep(e) \/ DeleteFails(e) \/ \E n \in Tags : BeginDelete(e, n)
        PROVE  deleter'[d] = deleter[d]
    BY <2>1 DEF DeleteStep, BeginDelete, ReadCatalog, StoreLoaded, RunDelete, DeleteFails,
                SInv, TypeOK
  <2>2. ASSUME NEW w \in Writers, BatchStep(w) \/ Fail(w) \/ \E b \in Batches : Begin(w, b)
        PROVE  deleter' = deleter
    BY <2>2 DEF BatchStep, Alter, Begin, Lock, LockAndLoad, Load, Resolve, AddColumn,
                WidenColumn, CommitAlter, Stage, Insert, Fail
  <2>. QED BY <2>1, <2>2 DEF Next, vars
<1>. QED BY <1>1, <1>2, <1>3, <1>4, <1>5

(* No delete begins to load while something is cached.                     *)
LEMMA NoLoads ==
    ASSUME [Next]_vars, SInv, cache # None,
           \A d \in Deleters : deleter[d].pc \notin {"loading", "read"}
    PROVE  \A d \in Deleters : deleter'[d].pc \notin {"loading", "read"}
<1>1. CASE deleter' = deleter BY <1>1
<1>2. ASSUME NEW d \in Deleters, NEW n \in Tags, BeginDelete(d, n)
      PROVE  \A e \in Deleters : deleter'[e].pc \notin {"loading", "read"}
  <2>. DEFINE fresh == [NoDelete EXCEPT !.pc = "loading", !.tag = n,
                                        !.knew = (table[ColOf[n]] # "none")]
              x == [fresh EXCEPT !.pc = IF objects[cache][n] = "none" THEN "skipped" ELSE "run"]
  <2>1. deleter' = [deleter EXCEPT ![d] = x] BY <1>2 DEF BeginDelete
  <2>2. x.pc \in {"skipped", "run"} BY DEF NoDelete
  <2>. HIDE DEF x
  <2>. QED BY <2>1, <2>2 DEF SInv, TypeOK
<1>3. ASSUME NEW d \in Deleters, RunDelete(d) \/ DeleteFails(d)
      PROVE  \A e \in Deleters : deleter'[e].pc \notin {"loading", "read"}
  <2>1. deleter' = [deleter EXCEPT ![d] = NoDelete] /\ NoDelete.pc = "idle"
    BY <1>3 DEF RunDelete, DeleteFails, NoDelete
  <2>. QED BY <2>1 DEF SInv, TypeOK
<1>4. CASE Restart
  <2>1. \A d \in Deleters : deleter'[d] = NoDelete BY <1>4 DEF Restart
  <2>. QED BY <2>1 DEF NoDelete
<1>5. \/ deleter' = deleter \/ Restart
      \/ \E d \in Deleters, n \in Tags : BeginDelete(d, n)
      \/ \E d \in Deleters : RunDelete(d) \/ DeleteFails(d)
  BY DEF Next, vars, BatchStep, Alter, Begin, Lock, LockAndLoad, Load, Resolve, AddColumn,
         WidenColumn, CommitAlter, Stage, Insert, Fail, DeleteStep, ReadCatalog, StoreLoaded
<1>. QED BY <1>1, <1>2, <1>3, <1>4, <1>5

WriterTold(w) == RowsWithin(w) /\ RefusedByCache(w) /\ RefusedForCause(w)

(* What holds of a batch survives the steps of the others.                 *)
LEMMA WriterKept ==
    ASSUME SInv, PlainRegime, [Next]_vars, ~ Restart,
           NEW w \in Writers, WriterTold(w), writer'[w] = writer[w]
    PROVE  WriterTold(w)'
<1>0. writer[w] \in WriterState BY DEF SInv, TypeOK
<1>1. CASE writer[w].pc \in {"encoded", "staged"}
  <2>1. cache # None /\ cache \in Writers \cup Deleters
    BY <1>1 DEF SInv, RightObject, TypeOK
  <2>2. \A d \in Deleters : deleter[d].pc # "read"
    BY <1>1, InFlightApart DEF Ended, Answered
  <2>3. cache' = cache /\ \A n \in Name : ~ Wider(objects[cache][n], objects'[cache][n])
    BY <2>1, <2>2, CacheRises
  <2>4. ASSUME NEW n \in Wanted(writer[w].want)
        PROVE  writer[w].rows[n] # "none" /\ ~ Wider(writer[w].rows[n], objects'[cache][n])
    <3>1. n \in Name BY DEF Wanted
    <3>2. writer[w].rows[n] \in MaybeType /\ objects[cache][n] \in MaybeType
      BY <1>0, <2>1, <3>1 DEF SInv, TypeOK, WriterState, TableSchema
    <3>3. objects'[cache][n] \in MaybeType
      <4>1. SInv' BY NextInv
      <4>2. objects'[cache] \in TableSchema BY <2>1, <4>1 DEF SInv, TypeOK
      <4>. QED BY <3>1, <4>2 DEF TableSchema
    <3>4. writer[w].rows[n] # "none" /\ ~ Wider(writer[w].rows[n], objects[cache][n])
      BY <1>1 DEF WriterTold, RowsWithin
    <3>. QED BY <2>3, <3>1, <3>2, <3>3, <3>4, WiderTransitive
  <2>. QED BY <1>1, <2>3, <2>4 DEF WriterTold, RowsWithin, RefusedByCache, RefusedForCause, Wanted
<1>2. CASE writer[w].pc = "refused"
  <2>1. /\ cache # None /\ writer[w].obj = cache /\ cache \in Writers \cup Deleters
        /\ \A d \in Deleters : deleter[d].pc \notin {"loading", "read"}
    BY <1>2 DEF WriterTold, RefusedByCache, SInv, TypeOK
  <2>2. cache' = cache /\ \A n \in Name : ~ Wider(objects[cache][n], objects'[cache][n])
    BY <2>1, CacheRises
  <2>3. RefusedByCache(w)'
    BY <2>1, <2>2, NoLoads DEF RefusedByCache
  <2>4. ASSUME ~ poisoned' PROVE \E n \in Wanted(writer[w].want) : Overtaken(w, n)'
    <3>1. ~ poisoned
      BY <2>4 DEF Next, vars, BatchStep, Alter, Begin, Lock, LockAndLoad, Load, Resolve,
                  AddColumn, WidenColumn, CommitAlter, Stage, Insert, Fail, DeleteStep,
                  BeginDelete, ReadCatalog, StoreLoaded, RunDelete, DeleteFails
    <3>2. PICK n \in Wanted(writer[w].want) : Overtaken(w, n)
      BY <1>2, <3>1 DEF WriterTold, RefusedForCause
    <3>3. n \in Name BY DEF Wanted
    <3>4. objects[cache][n] \in MaybeType /\ objects'[cache][n] \in MaybeType
          /\ table[ColOf[n]] \in MaybeType /\ table'[ColOf[n]] \in MaybeType
      <4>1. SInv' BY NextInv
      <4>2. objects'[cache] \in TableSchema /\ table' \in [Column -> MaybeType]
        BY <2>1, <4>1 DEF SInv, TypeOK
      <4>3. objects[cache] \in TableSchema BY <2>1 DEF SInv, TypeOK
      <4>. QED BY <3>3, <4>2, <4>3, ColumnTyped DEF TableSchema
    <3>5. ~ Wider(objects[cache][n], objects'[cache][n])
          /\ ~ Wider(table[ColOf[n]], table'[ColOf[n]])
      BY <2>2, <3>3, ColumnTyped, TableRises
    <3>6. objects[cache][n] = "TEXT" => objects'[cache][n] = "TEXT"
      BY <3>4, <3>5 DEF Wider, TYPE_RANK, MaybeType, Type
    <3>7. Wider(table[ColOf[n]], "BOOLEAN") => Wider(table'[ColOf[n]], "BOOLEAN")
      BY <3>4, <3>5 DEF Wider, TYPE_RANK, MaybeType, Type
    <3>. QED BY <2>2, <3>2, <3>6, <3>7 DEF Overtaken
  <2>5. RefusedForCause(w)' BY <2>4 DEF RefusedForCause, Wanted
  <2>. QED BY <1>2, <2>3, <2>5 DEF WriterTold, RowsWithin
<1>3. CASE writer[w].pc \notin {"encoded", "staged", "refused"}
  BY <1>3 DEF WriterTold, RowsWithin, RefusedByCache, RefusedForCause
<1>. QED BY <1>1, <1>2, <1>3

(* Rows just coerced have the types of the cached object.                  *)
LEMMA FreshRows ==
    ASSUME SInv', NEW w \in Writers, writer'[w].pc \in {"encoded", "staged"},
           writer'[w].rows = Coerced(objects'[cache'], writer'[w].want)
    PROVE  WriterTold(w)'
<1>1. /\ cache' # None /\ cache' \in Writers \cup Deleters
      /\ Fits(objects'[cache'], writer'[w].want)
      /\ objects'[cache'] \in TableSchema /\ writer'[w].want \in TableSchema
  BY DEF SInv, RightObject, TypeOK, WriterState, Fits, Missing, Narrow, Wanted
<1>2. ASSUME NEW n \in Wanted(writer'[w].want)
      PROVE  /\ writer'[w].rows[n] # "none"
             /\ ~ Wider(writer'[w].rows[n], objects'[cache'][n])
  <2>1. n \in Name /\ writer'[w].want[n] # "none" BY DEF Wanted
  <2>2. writer'[w].rows[n] = objects'[cache'][n] BY <2>1 DEF Coerced
  <2>3. objects'[cache'][n] # "none" BY <1>1, <2>1, FitsBounds
  <2>4. objects'[cache'][n] \in MaybeType BY <1>1, <2>1 DEF TableSchema
  <2>. QED BY <2>2, <2>3, <2>4, WiderIrreflexive
<1>. QED BY <1>2 DEF WriterTold, RowsWithin, RefusedByCache, RefusedForCause, Wanted

(* A batch that is neither coerced nor refused has been told nothing.      *)
LEMMA NothingTold ==
    ASSUME NEW w \in Writers, writer'[w].pc \notin {"encoded", "staged", "refused"}
    PROVE  WriterTold(w)'
BY DEF WriterTold, RowsWithin, RefusedByCache, RefusedForCause

LEMMA BeginTold ==
    ASSUME SInv, SInv', NEW w \in Writers, NEW batch \in Batches, Begin(w, batch)
    PROVE  WriterTold(w)'
<1>. DEFINE want == Samples(batch)
            fresh == [Idle EXCEPT !.pc = "locking", !.want = want]
            full == [fresh EXCEPT !.pc = "encoded", !.obj = cache,
                                  !.rows = Coerced(objects[cache], want)]
<1>1. /\ writer'[w] = IF cache # None /\ Fits(objects[cache], want) THEN full ELSE fresh
      /\ UNCHANGED <<objects, cache>>
  BY DEF Begin, SInv, TypeOK
<1>2. fresh.pc = "locking" BY DEF Idle
<1>3. full.pc = "encoded" /\ full.want = want /\ full.rows = Coerced(objects[cache], want)
  BY DEF Idle
<1>. HIDE DEF fresh, full, want
<1>4. CASE writer'[w] = fresh BY <1>2, <1>4, NothingTold
<1>5. CASE writer'[w] = full BY <1>1, <1>3, <1>5, FreshRows
<1>. QED BY <1>1, <1>4, <1>5

LEMMA EncodedTold ==
    ASSUME SInv, SInv', NEW w \in Writers, NEW o,
           cache' = o, writer' = [writer EXCEPT ![w] = Encoded(w, objects'[o], o)]
    PROVE  WriterTold(w)'
<1>. DEFINE x == Encoded(w, objects'[o], o)
<1>1. writer[w] \in WriterState /\ writer'[w] = x BY DEF SInv, TypeOK
<1>2. x.pc = "encoded" /\ x.want = writer[w].want
      /\ x.rows = Coerced(objects'[o], writer[w].want)
  BY <1>1 DEF WriterState, Encoded
<1>. HIDE DEF x
<1>. QED BY <1>1, <1>2, FreshRows

LEMMA UnderLockTold ==
    ASSUME SInv, SInv', NEW w \in Writers,
           Lock(w) \/ LockAndLoad(w) \/ Load(w) \/ CommitAlter(w)
    PROVE  WriterTold(w)'
<1>1. ASSUME NEW objs, NEW o, Resolve(w, objs, o)
      PROVE  WriterTold(w)'
  <2>1. objects' = objs BY <1>1 DEF Resolve
  <2>2. CASE Fits(objs[o], writer[w].want)
    BY <1>1, <2>1, <2>2, EncodedTold DEF Resolve
  <2>3. CASE ~ Fits(objs[o], writer[w].want)
    <3>1. writer' = [writer EXCEPT ![w].pc = "altering", ![w].obj = o]
      BY <1>1, <2>3 DEF Resolve
    <3>2. writer'[w].pc = "altering" BY <3>1 DEF SInv, TypeOK, WriterState
    <3>. QED BY <3>2, NothingTold
  <2>. QED BY <2>2, <2>3
<1>2. CASE LockAndLoad(w)
  <2>1. writer'[w].pc = "loading" BY <1>2 DEF LockAndLoad, SInv, TypeOK, WriterState
  <2>. QED BY <2>1, NothingTold
<1>3. CASE CommitAlter(w) BY <1>3, EncodedTold DEF CommitAlter
<1>. QED BY <1>1, <1>2, <1>3 DEF Lock, Load

(* Staging takes the types the object has now; it refuses rows only for a  *)
(* column that has become TEXT meanwhile.                                  *)
LEMMA StageTold ==
    ASSUME SInv, SInv', PlainRegime, NEW w \in Writers, WriterTold(w), Stage(w)
    PROVE  WriterTold(w)'
<1>. DEFINE want == writer[w].want
            now == Coerced(objects[writer[w].obj], want)
            accepted == /\ OneNamePerColumn(want)
                        /\ \A n \in Wanted(want) : CanEncode(writer[w].rows[n], now[n])
<1>0. writer[w] \in WriterState BY DEF SInv, TypeOK
<1>1. /\ writer[w].pc = "encoded" /\ cache # None /\ writer[w].obj = cache
      /\ cache \in Writers \cup Deleters
      /\ writer'[w] = IF accepted THEN [writer[w] EXCEPT !.pc = "staged", !.rows = now]
                      ELSE [writer[w] EXCEPT !.pc = "refused"]
      /\ UNCHANGED <<table, objects, cache, deleter>>
  BY DEF Stage, SInv, RightObject, TypeOK
<1>2. CASE accepted
  <2>1. writer'[w].pc = "staged" /\ writer'[w].want = want /\ writer'[w].rows = now
    BY <1>0, <1>1, <1>2 DEF WriterState
  <2>2. now = Coerced(objects'[cache'], want) BY <1>1
  <2>. QED BY <2>1, <2>2, FreshRows
<1>3. CASE ~ accepted
  <2>1. /\ writer'[w].pc = "refused" /\ writer'[w].obj = cache
        /\ writer'[w].want = want /\ writer'[w].rows = writer[w].rows
    BY <1>0, <1>1, <1>3 DEF WriterState
  <2>2. OneNamePerColumn(want) BY OneColumnEach DEF OneNamePerColumn, Wanted
  <2>3. PICK n \in Wanted(want) : ~ CanEncode(writer[w].rows[n], now[n])
    BY <1>3, <2>2
  <2>4. n \in Name /\ now[n] = objects[cache][n] BY <1>1 DEF Wanted, Coerced
  <2>5. writer[w].rows[n] \in MaybeType /\ objects[cache][n] \in MaybeType
    BY <1>0, <1>1, <2>4 DEF SInv, TypeOK, WriterState, TableSchema
  <2>6. ~ Wider(writer[w].rows[n], objects[cache][n])
    BY <1>1 DEF WriterTold, RowsWithin
  <2>7. objects[cache][n] = "TEXT" /\ writer[w].rows[n] # "TEXT"
    BY <2>3, <2>4, <2>6 DEF CanEncode
  <2>8. \A d \in Deleters : deleter[d].pc \notin {"loading", "read"}
    BY <1>1, InFlightApart DEF Ended, Answered
  <2>9. RefusedByCache(w)' BY <1>1, <2>1, <2>8 DEF RefusedByCache
  <2>10. RefusedForCause(w)'
    <3>1. Overtaken(w, n)' BY <1>1, <2>1, <2>7 DEF Overtaken
    <3>. QED BY <2>1, <3>1 DEF RefusedForCause, Wanted
  <2>. QED BY <2>1, <2>9, <2>10 DEF WriterTold, RowsWithin
<1>. QED BY <1>2, <1>3

(* The INSERT's casts refuse rows only for a column that was widened from  *)
(* BOOLEAN meanwhile.                                                      *)
LEMMA InsertTold ==
    ASSUME SInv, SInv', NEW w \in Writers, WriterTold(w), Insert(w)
    PROVE  WriterTold(w)'
<1>. DEFINE want == writer[w].want
            accepted == \A n \in Wanted(want) : CanAssign(writer[w].rows[n], table[ColOf[n]])
<1>0. writer[w] \in WriterState BY DEF SInv, TypeOK
<1>1. /\ writer[w].pc = "staged" /\ draft = <<>> /\ cache # None /\ writer[w].obj = cache
      /\ cache \in Writers \cup Deleters
      /\ writer'[w] = IF accepted THEN [Idle EXCEPT !.pc = "stored", !.want = want]
                      ELSE [writer[w] EXCEPT !.pc = "refused"]
      /\ UNCHANGED <<table, objects, cache, deleter, poisoned>>
  BY DEF Insert, SInv, RightObject, TypeOK
<1>2. CASE accepted
  <2>1. writer'[w].pc = "stored" BY <1>1, <1>2 DEF Idle
  <2>. QED BY <2>1, NothingTold
<1>3. CASE ~ accepted
  <2>1. /\ writer'[w].pc = "refused" /\ writer'[w].obj = cache
        /\ writer'[w].want = want /\ writer'[w].rows = writer[w].rows
    BY <1>0, <1>1, <1>3 DEF WriterState
  <2>2. PICK n \in Wanted(want) : ~ CanAssign(writer[w].rows[n], table[ColOf[n]])
    BY <1>3
  <2>3. n \in Name BY DEF Wanted
  <2>4. writer[w].rows[n] \in MaybeType /\ table[ColOf[n]] \in MaybeType
    BY <1>0, <2>3, ColumnTyped DEF WriterState, TableSchema
  <2>5. writer[w].rows[n] # "none" /\ ~ Wider(writer[w].rows[n], objects[cache][n])
    BY <1>1 DEF WriterTold, RowsWithin
  <2>6. \A d \in Deleters : deleter[d].pc \notin {"loading", "read"}
    BY <1>1, InFlightApart DEF Ended, Answered
  <2>7. RefusedByCache(w)' BY <1>1, <2>1, <2>6 DEF RefusedByCache
  <2>8. ASSUME ~ poisoned PROVE Overtaken(w, n)
    <3>1. objects[cache][n] = table[ColOf[n]]
      BY <1>1, <2>3, <2>8 DEF SInv, Truthful, InUse, Columns
    <3>2. ~ Wider(writer[w].rows[n], table[ColOf[n]]) BY <2>5, <3>1
    <3>3. writer[w].rows[n] = "BOOLEAN" /\ Wider(table[ColOf[n]], "BOOLEAN")
      BY <2>2, <2>4, <2>5, <3>2 DEF CanAssign, Wider, TYPE_RANK, MaybeType, Type
    <3>. QED BY <3>3 DEF Overtaken
  <2>9. RefusedForCause(w)'
    BY <1>1, <2>1, <2>8 DEF RefusedForCause, Overtaken, Wanted
  <2>. QED BY <2>1, <2>7, <2>9 DEF WriterTold, RowsWithin
<1>. QED BY <1>2, <1>3

LEMMA WritersTold ==
    ASSUME SInv, PlainRegime, [Next]_vars, NEW w \in Writers, WriterTold(w)
    PROVE  WriterTold(w)'
<1>0. SInv' BY NextInv
<1>1. CASE Restart
  <2>1. writer'[w].pc = "idle" BY <1>1 DEF Restart, Idle
  <2>. QED BY <2>1, NothingTold
<1>2. CASE writer'[w] = writer[w] /\ ~ Restart BY <1>2, WriterKept
<1>3. CASE \E batch \in Batches : Begin(w, batch) BY <1>0, <1>3, BeginTold
<1>4. CASE Lock(w) \/ LockAndLoad(w) \/ Load(w) \/ CommitAlter(w)
  BY <1>0, <1>4, UnderLockTold
<1>5. CASE Stage(w) BY <1>0, <1>5, StageTold
<1>6. CASE Insert(w) BY <1>0, <1>6, InsertTold
<1>7. CASE Fail(w)
  <2>1. writer'[w].pc = "idle" BY <1>7 DEF Fail, Idle, SInv, TypeOK
  <2>. QED BY <2>1, NothingTold
<1>8. \/ writer'[w] = writer[w] \/ \E batch \in Batches : Begin(w, batch)
      \/ Lock(w) \/ LockAndLoad(w) \/ Load(w) \/ CommitAlter(w) \/ Stage(w) \/ Insert(w)
      \/ Fail(w) \/ Restart
  <2>1. ASSUME NEW v \in Writers, v # w, BatchStep(v) \/ Fail(v) \/ \E b \in Batches : Begin(v, b)
        PROVE  writer'[w] = writer[w]
    BY <2>1 DEF BatchStep, Alter, Begin, Lock, LockAndLoad, Load, Resolve, AddColumn,
                WidenColumn, CommitAlter, Stage, Insert, Fail, SInv, TypeOK
  <2>2. ASSUME NEW n \in Name, AddColumn(w, n) \/ WidenColumn(w, n)
        PROVE  writer'[w] = writer[w]
    BY <2>2 DEF AddColumn, WidenColumn
  <2>3. ASSUME NEW d \in Deleters, DeleteStep(d) \/ DeleteFails(d) \/ \E n \in Tags : BeginDelete(d, n)
        PROVE  writer'[w] = writer[w]
    BY <2>3 DEF DeleteStep, BeginDelete, ReadCatalog, StoreLoaded, RunDelete, DeleteFails
  <2>. QED BY <2>1, <2>2, <2>3 DEF Next, vars, BatchStep, Alter
<1>. QED BY <1>1, <1>2, <1>3, <1>4, <1>5, <1>6, <1>7, <1>8

LEMMA InitTold ==
    Init => AnswersInv
<1>. SUFFICES ASSUME Init PROVE AnswersInv OBVIOUS
<1>1. \A d \in Deleters : deleter[d].pc = "idle" BY DEF Init, NoDelete
<1>2. \A w \in Writers : writer[w].pc = "idle" BY DEF Init, Idle
<1>. QED BY <1>1, <1>2 DEF AnswersInv, DeleterTold, RowsWithin, RefusedByCache, RefusedForCause

(* What batches in flight hold and what requests were answered keeps its   *)
(* ground through every later step: rows stay within the cached types, a   *)
(* refusal keeps its cause, a delete what it met (_write_measurement,      *)
(* delete_lp).                                                             *)
THEOREM AnswersInvariant == PlainRegime /\ Spec => []AnswersInv
<1>. SUFFICES ASSUME PlainRegime PROVE Spec => []AnswersInv OBVIOUS
<1>1. SInv /\ AnswersInv /\ [Next]_vars => AnswersInv'
  <2>. SUFFICES ASSUME SInv, AnswersInv, [Next]_vars PROVE AnswersInv' OBVIOUS
  <2>1. \A d \in Deleters : DeleterTold(d)' BY DeletersTold DEF AnswersInv
  <2>2. \A w \in Writers : WriterTold(w)' BY WritersTold DEF AnswersInv, WriterTold
  <2>. QED BY <2>1, <2>2 DEF AnswersInv, WriterTold
<1>2. Spec => []SInv BY SchemaInductive
<1>. QED BY InitTold, <1>1, <1>2, PTL DEF Spec

(* Every state has the types of the model, and the lock is held only by a  *)
(* batch that loads or alters (_ensure_schema).                            *)
THEOREM SchemaTypeCorrect == PlainRegime /\ Spec => []TypeOK
<1>1. SInv => TypeOK BY DEF SInv
<1>. QED BY <1>1, SchemaInductive, PTL

(* A delete answers 0 without looking only if the table had no column for  *)
(* its tag when it came in, whichever schema it found cached (delete_lp).  *)
THEOREM SkippedWithCause == PlainRegime /\ Spec => []SkippedOnlyIfUnknown
<1>1. AnswersInv => SkippedOnlyIfUnknown
  BY DEF AnswersInv, DeleterTold, SkippedOnlyIfUnknown
<1>. QED BY <1>1, AnswersInvariant, PTL

(* A batch is refused for its types only if another batch widened one of   *)
(* its columns to TEXT or from BOOLEAN after its rows were coerced         *)
(* (_write_measurement's COPY and INSERT).                                 *)
THEOREM RefusedWithCause == PlainRegime /\ Spec => []RefusedOnlyIfOvertaken
<1>1. ASSUME AnswersInv PROVE RefusedOnlyIfOvertaken
  <2>1. SUFFICES ASSUME NEW w \in Writers, writer[w].pc = "refused", ~ poisoned
                 PROVE  \E n \in Wanted(writer[w].want) :
                            \E now \in {objects[writer[w].obj][n], table[ColOf[n]]} :
                                now # writer[w].rows[n]
                                /\ (now = "TEXT" \/ writer[w].rows[n] = "BOOLEAN")
    BY DEF RefusedOnlyIfOvertaken
  <2>2. PICK n \in Wanted(writer[w].want) : Overtaken(w, n)
    BY <1>1, <2>1 DEF AnswersInv, RefusedForCause
  <2>3. writer[w].obj = cache BY <1>1, <2>1 DEF AnswersInv, RefusedByCache
  <2>4. Wider(table[ColOf[n]], "BOOLEAN") => table[ColOf[n]] # "BOOLEAN"
    BY WiderIrreflexive DEF MaybeType, Type
  <2>. QED BY <2>2, <2>3, <2>4 DEF Overtaken
<1>. QED BY <1>1, AnswersInvariant, PTL
====
