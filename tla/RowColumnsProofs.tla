---- MODULE RowColumnsProofs ----
(***************************************************************************)
(* Which fields of a row survive, for any number of rows, fields, batches  *)
(* and points: a field read from either tier is its last value or NULL,    *)
(* and when every point carries every field the tiers agree.  The          *)
(* argument: a batch's numbers are above all numbers in use, so its        *)
(* records are the newest versions of their rows; of each row the batch    *)
(* keeps the last point, which is the last to set the fields it carries.   *)
(***************************************************************************)
EXTENDS RowColumns, Integers, SequenceTheorems, WellFoundedInduction, TLAPS

-----------------------------------------------------------------------------
(* The last of a set of numbers, the newest of a set of versions           *)

LEMMA HighestExists ==
    ASSUME NEW N \in Nat, NEW S \in SUBSET (0..N), S # {}
    PROVE  \E m \in S : \A x \in S : x <= m
<1>. DEFINE R == OpToRel(<, Nat)
            T == {N - x : x \in S}
<1>1. IsWellFoundedOn(R, Nat) BY NatLessThanWellFounded
<1>2. T \in SUBSET Nat /\ T # {}
  <2>1. ASSUME NEW x \in S PROVE N - x \in Nat BY <2>1
  <2>. QED BY <2>1
<1>3. PICK y \in T : \A z \in T : ~ (<<z, y>> \in R)
  <2>. HIDE DEF R, T
  <2>. QED BY <1>1, <1>2, WFMin
<1>4. PICK m \in S : y = N - m OBVIOUS
<1>5. ASSUME NEW x \in S PROVE x <= m
  <2>1. N - x \in T OBVIOUS
  <2>2. ~ (N - x < N - m) BY <1>2, <1>3, <1>4, <2>1 DEF OpToRel
  <2>. QED BY <2>2
<1>. QED BY <1>5

LEMMA NewestExists ==
    ASSUME NEW V \in SUBSET Version, NEW v \in V
    PROVE  \E n \in NewestOf(V) : n.key = v.key /\ v.seq <= n.seq
<1>. DEFINE Same == {u \in V : u.key = v.key}
            S == {u.seq : u \in Same}
<1>1. S \in SUBSET (0..MaxPoints) /\ S # {} BY RowBounds DEF Version
<1>2. PICK m \in S : \A x \in S : x <= m
  <2>. HIDE DEF S
  <2>. QED BY <1>1, HighestExists, RowBounds
<1>3. PICK n \in Same : n.seq = m OBVIOUS
<1>4. \A u \in Same : u.seq <= n.seq BY <1>2, <1>3
<1>. QED BY <1>3, <1>4 DEF NewestOf

-----------------------------------------------------------------------------
(* A batch                                                                 *)

LEMMA BatchShape ==
    ASSUME NEW batch \in Batches
    PROVE  /\ Len(batch) \in Nat \ {0}
           /\ Places(batch) = 1..Len(batch)
           /\ \A j \in Places(batch) : batch[j] \in Point /\ j \in Nat /\ j # 0
<1>1. PICK n \in 1..MaxBatch : batch \in [1..n -> Point] BY DEF Batches
<1>2. n \in Nat BY <1>1, RowBounds
<1>3. batch \in Seq(Point) BY <1>1, <1>2, SeqDef
<1>4. Len(batch) = n BY <1>1, <1>2, <1>3, LenProperties
<1>. QED BY <1>1, <1>2, <1>4 DEF Places

Occurs(batch, k) == \E j \in Places(batch) : batch[j].key = k
IsLast(batch, k, j) == j \in Places(batch) /\ batch[j].key = k /\ Survives(batch, j)

(* The dedup keeps a point of each row of the batch.                       *)
LEMMA LastExists ==
    ASSUME NEW batch \in Batches, NEW k, Occurs(batch, k)
    PROVE  \E j : IsLast(batch, k, j)
<1>. DEFINE S == {j \in Places(batch) : batch[j].key = k}
<1>1. S \in SUBSET (0..Len(batch)) /\ S # {} /\ Len(batch) \in Nat BY BatchShape DEF Occurs
<1>2. PICK m \in S : \A x \in S : x <= m
  <2>. HIDE DEF S
  <2>. QED BY <1>1, HighestExists
<1>. QED BY <1>2 DEF IsLast, Survives

(* Its record is the only one of the row.                                  *)
LEMMA OneRecord ==
    ASSUME NEW batch \in Batches, NEW k, NEW j, IsLast(batch, k, j)
    PROVE  /\ Record(batch, j) \in Records(batch) /\ Record(batch, j).key = k
           /\ \A r \in Records(batch) : r.key = k => r = Record(batch, j)
<1>1. j \in Places(batch) /\ batch[j].key = k /\ Survives(batch, j) BY DEF IsLast
<1>2. Record(batch, j) \in Records(batch) /\ Record(batch, j).key = k
  BY <1>1 DEF Records, Record
<1>3. ASSUME NEW r \in Records(batch), r.key = k PROVE r = Record(batch, j)
  <2>1. PICK i \in Places(batch) : Survives(batch, i) /\ r = Record(batch, i)
    BY <1>3 DEF Records
  <2>2. batch[i].key = k BY <1>3, <2>1 DEF Record
  <2>3. i <= j /\ j <= i BY <1>1, <2>1, <2>2 DEF Survives
  <2>4. i \in Nat /\ j \in Nat BY <1>1, <2>1, BatchShape
  <2>5. i = j BY <2>3, <2>4
  <2>. QED BY <2>1, <2>5
<1>. QED BY <1>2, <1>3

LEMMA NoRecord ==
    ASSUME NEW batch, NEW k, ~ Occurs(batch, k)
    PROVE  \A r \in Records(batch) : r.key # k
BY DEF Records, Record, Occurs

LEMMA RecordTypes ==
    ASSUME TypeOK, NEW batch \in Batches, count + Len(batch) <= MaxPoints
    PROVE  /\ Records(batch) \subseteq Version
           /\ \A r \in Records(batch) : r.seq > count /\ r.seq <= count + Len(batch)
<1>1. ASSUME NEW j \in Places(batch)
      PROVE  /\ Record(batch, j) \in Version
             /\ Record(batch, j).seq > count /\ Record(batch, j).seq <= count + Len(batch)
  <2>1. /\ batch[j].key \in Keys /\ j \in 1..Len(batch) /\ Len(batch) \in Nat
        /\ count \in Nat /\ MaxPoints \in Nat
    BY BatchShape, RowBounds DEF Point, TypeOK
  <2>2. count + j \in 1..MaxPoints /\ count + j > count /\ count + j <= count + Len(batch)
    BY <2>1
  <2>3. [f \in Fields |-> IF f \in batch[j].fields THEN count + j ELSE Null] \in Values
    BY <2>2, RowBounds DEF Values, Null
  <2>. QED BY <2>1, <2>2, <2>3 DEF Record, Version
<1>. QED BY <1>1 DEF Records

(* The field values the batch asks for.                                    *)
LEMMA AskedNothing ==
    ASSUME TypeOK, NEW batch, NEW k \in Keys, ~ Occurs(batch, k)
    PROVE  Asked(batch)[k] = latest[k]
<1>1. \A f \in Fields : SetBy(batch, k, f) = {} BY DEF SetBy, Occurs
<1>2. latest[k] \in Values BY DEF TypeOK
<1>. QED BY <1>1, <1>2 DEF Asked, Values

LEMMA AskedUnset ==
    ASSUME NEW batch, NEW k \in Keys, NEW f \in Fields, SetBy(batch, k, f) = {}
    PROVE  Asked(batch)[k][f] = latest[k][f]
BY DEF Asked

LEMMA AskedLast ==
    ASSUME TypeOK, NEW batch \in Batches, NEW k \in Keys, NEW j, IsLast(batch, k, j),
           NEW f \in batch[j].fields, f \in Fields
    PROVE  Asked(batch)[k][f] = count + j
<1>. DEFINE S == SetBy(batch, k, f)
<1>1. j \in S /\ \A i \in S : i <= j /\ i \in Nat
  BY BatchShape DEF IsLast, SetBy, Survives
<1>2. Asked(batch)[k][f] = count + CHOOSE i \in S : \A x \in S : x <= i
  BY <1>1 DEF Asked
<1>. HIDE DEF S
<1>3. (CHOOSE i \in S : \A x \in S : x <= i) = j
  <2>1. \A i \in S : (\A x \in S : x <= i) => i = j
    <3>1. ASSUME NEW i \in S, \A x \in S : x <= i PROVE i = j
      <4>1. i <= j /\ j <= i /\ i \in Nat /\ j \in Nat BY <1>1, <3>1
      <4>. QED BY <4>1
    <3>. QED BY <3>1
  <2>. QED BY <1>1, <2>1
<1>. QED BY <1>2, <1>3

LEMMA AskedTypes ==
    ASSUME TypeOK, NEW batch \in Batches, count + Len(batch) <= MaxPoints
    PROVE  Asked(batch) \in [Keys -> Values]
<1>1. ASSUME NEW k \in Keys, NEW f \in Fields PROVE Asked(batch)[k][f] \in 0..MaxPoints
  <2>. DEFINE S == SetBy(batch, k, f)
  <2>1. CASE S = {}
    <3>1. latest[k][f] \in 0..MaxPoints BY DEF TypeOK, Values
    <3>. QED BY <2>1, <3>1, AskedUnset
  <2>2. CASE S # {}
    <3>1. S \in SUBSET (0..Len(batch)) /\ Len(batch) \in Nat BY BatchShape DEF SetBy
    <3>2. Asked(batch)[k][f] = count + CHOOSE i \in S : \A x \in S : x <= i
      BY <2>2 DEF Asked
    <3>. HIDE DEF S
    <3>3. \E i \in S : \A x \in S : x <= i BY <2>2, <3>1, HighestExists
    <3>4. (CHOOSE i \in S : \A x \in S : x <= i) \in 0..Len(batch) BY <3>1, <3>3
    <3>5. count \in Nat /\ MaxPoints \in Nat BY RowBounds DEF TypeOK
    <3>. QED BY <3>1, <3>2, <3>4, <3>5
  <2>. QED BY <2>1, <2>2
<1>. QED BY <1>1 DEF Asked, Values

-----------------------------------------------------------------------------
(* The row of the hypertable after the batch                               *)

LEMMA UpsertedAbsent ==
    ASSUME NEW batch, NEW k, ~ Occurs(batch, k)
    PROVE  Upserted(k, Records(batch), Columns(batch)) = hot[k]
BY NoRecord DEF Upserted

LEMMA UpsertedLast ==
    ASSUME NEW batch \in Batches, NEW k, NEW j, IsLast(batch, k, j)
    PROVE  Upserted(k, Records(batch), Columns(batch)) =
             [seq |-> count + j,
              val |-> SetColumns(hot[k].val, Record(batch, j), Columns(batch))]
<1>1. /\ Record(batch, j) \in Records(batch) /\ Record(batch, j).key = k
      /\ \A r \in Records(batch) : r.key = k => r = Record(batch, j)
  BY OneRecord
<1>2. (CHOOSE x \in Records(batch) : x.key = k) = Record(batch, j) BY <1>1
<1>3. Record(batch, j).seq = count + j BY DEF Record
<1>. QED BY <1>1, <1>2, <1>3 DEF Upserted

(* A column the batch names becomes the last point's value or NULL; it is  *)
(* the value asked for, or NULL, either way.                               *)
LEMMA UpsertedCurrent ==
    ASSUME TypeOK, NEW batch \in Batches, NEW k \in Keys, Current(hot[k].val, k),
           NEW f \in Fields
    PROVE  Upserted(k, Records(batch), Columns(batch)).val[f]
                \in {Null, Asked(batch)[k][f]}
<1>1. CASE ~ Occurs(batch, k) BY <1>1, UpsertedAbsent, AskedNothing DEF Current
<1>2. CASE Occurs(batch, k)
  <2>1. PICK j : IsLast(batch, k, j) BY <1>2, LastExists
  <2>. DEFINE new == Upserted(k, Records(batch), Columns(batch)).val[f]
  <2>2. new = IF f \in Columns(batch) THEN Record(batch, j).val[f] ELSE hot[k].val[f]
    BY <2>1, UpsertedLast DEF SetColumns
  <2>3. CASE f \in batch[j].fields
    <3>1. f \in Columns(batch) BY <2>1, <2>3 DEF Columns, IsLast
    <3>2. Record(batch, j).val[f] = count + j BY <2>3 DEF Record
    <3>. QED BY <2>1, <2>2, <2>3, <3>1, <3>2, AskedLast
  <2>4. CASE f \notin batch[j].fields /\ f \in Columns(batch)
    BY <2>2, <2>4 DEF Record
  <2>5. CASE f \notin Columns(batch)
    <3>1. SetBy(batch, k, f) = {} BY <2>5 DEF SetBy, Columns
    <3>. QED BY <2>2, <2>5, <3>1, AskedUnset DEF Current
  <2>. QED BY <2>3, <2>4, <2>5
<1>. QED BY <1>1, <1>2

(* When the points carry every field, the row is the last point.           *)
LEMMA WholeLast ==
    ASSUME TypeOK, NEW batch \in Batches, NEW k \in Keys, NEW j, IsLast(batch, k, j),
           \A i \in Places(batch) : batch[i].fields = Fields, count + Len(batch) <= MaxPoints
    PROVE  /\ Record(batch, j).val = Asked(batch)[k]
           /\ Upserted(k, Records(batch), Columns(batch)).val = Asked(batch)[k]
<1>1. j \in Places(batch) /\ batch[j].fields = Fields BY DEF IsLast
<1>2. Record(batch, j).val = [f \in Fields |-> count + j] BY <1>1 DEF Record
<1>3. \A f \in Fields : Asked(batch)[k][f] = count + j BY <1>1, AskedLast
<1>4. Asked(batch)[k] = [f \in Fields |-> count + j] BY <1>3, AskedTypes DEF Values
<1>5. Fields \subseteq Columns(batch) BY <1>1 DEF Columns
<1>6. Upserted(k, Records(batch), Columns(batch)).val = [f \in Fields |-> count + j]
  BY <1>2, <1>5, UpsertedLast DEF SetColumns
<1>. QED BY <1>2, <1>4, <1>6

-----------------------------------------------------------------------------
(* Type correctness                                                        *)

LEMMA WriteTypes ==
    ASSUME TypeOK, NEW batch \in Batches, Write(batch) PROVE TypeOK'
<1>1. count + Len(batch) <= MaxPoints BY DEF Write
<1>2. Records(batch) \subseteq Version BY <1>1, RecordTypes
<1>3. Asked(batch) \in [Keys -> Values] BY <1>1, AskedTypes
<1>4. ASSUME NEW k \in Keys
      PROVE  Upserted(k, Records(batch), Columns(batch)) \in [seq : 0..MaxPoints, val : Values]
  <2>1. hot[k] \in [seq : 0..MaxPoints, val : Values] BY DEF TypeOK
  <2>2. CASE ~ Occurs(batch, k) BY <2>1, <2>2, UpsertedAbsent
  <2>3. CASE Occurs(batch, k)
    <3>1. PICK j : IsLast(batch, k, j) BY <2>3, LastExists
    <3>2. Record(batch, j) \in Version BY <1>2, <3>1, OneRecord
    <3>3. SetColumns(hot[k].val, Record(batch, j), Columns(batch)) \in Values
      BY <2>1, <3>2 DEF SetColumns, Values, Version
    <3>4. Record(batch, j).seq = count + j /\ count + j \in 0..MaxPoints
      BY <3>2 DEF Record, Version
    <3>. QED BY <3>1, <3>3, <3>4, UpsertedLast
  <2>. QED BY <2>2, <2>3
<1>5. hot' \in [Keys -> [seq : 0..MaxPoints, val : Values]] BY <1>4 DEF Write
<1>6. count' \in 0..MaxPoints
  <2>1. Len(batch) \in Nat BY BatchShape
  <2>. QED BY <1>1, <2>1, RowBounds DEF TypeOK, Write
<1>7. whole' \in BOOLEAN BY DEF TypeOK, Write
<1>. QED BY <1>2, <1>3, <1>5, <1>6, <1>7 DEF TypeOK, Write

(* Merging keeps the newest version of each row, and adds none.            *)
LEMMA MergeKeepsNewest ==
    ASSUME TypeOK, Compact
    PROVE  /\ Cold' \subseteq Cold
           /\ NewestOf(Cold') \subseteq NewestOf(Cold)
           /\ \A v \in Cold : \E u \in Cold' : u.key = v.key
<1>1. Cold' = merged \cup NewestOf(staged) BY DEF Compact, Cold
<1>2. NewestOf(staged) \subseteq staged BY DEF NewestOf
<1>3. staged \in SUBSET Version /\ merged \in SUBSET Version BY DEF TypeOK
<1>4. ASSUME NEW v \in Cold PROVE \E u \in Cold' : u.key = v.key /\ v.seq <= u.seq
  <2>1. CASE v \in merged
    <3>1. v.seq <= v.seq BY <1>3, <2>1 DEF Version
    <3>. QED BY <1>1, <2>1, <3>1
  <2>2. CASE v \in staged BY <1>1, <1>3, <2>2, NewestExists
  <2>. QED BY <2>1, <2>2 DEF Cold
<1>5. ASSUME NEW v \in NewestOf(Cold') PROVE v \in NewestOf(Cold)
  <2>1. v \in Cold' /\ \A u \in Cold' : u.key = v.key => u.seq <= v.seq
    BY <1>5 DEF NewestOf
  <2>2. ASSUME NEW x \in Cold, x.key = v.key PROVE x.seq <= v.seq
    <3>1. PICK u \in Cold' : u.key = x.key /\ x.seq <= u.seq BY <1>4
    <3>2. u.seq <= v.seq BY <2>1, <2>2, <3>1
    <3>3. x.seq \in Nat /\ u.seq \in Nat /\ v.seq \in Nat
      BY <1>1, <1>2, <1>3, <2>1 DEF Version, Cold
    <3>. QED BY <3>1, <3>2, <3>3
  <2>. QED BY <1>1, <1>2, <2>1, <2>2 DEF NewestOf, Cold
<1>. QED BY <1>1, <1>2, <1>4, <1>5 DEF Cold

LEMMA TypeNext == TypeOK /\ [Next]_vars => TypeOK'
<1>. SUFFICES ASSUME TypeOK, [Next]_vars PROVE TypeOK' OBVIOUS
<1>1. ASSUME NEW batch \in Batches, Write(batch) PROVE TypeOK' BY <1>1, WriteTypes
<1>2. CASE Compact
  <2>1. staged' \subseteq Version /\ merged' \subseteq Version
    BY <1>2 DEF Compact, NewestOf, TypeOK
  <2>. QED BY <1>2, <2>1 DEF Compact, TypeOK
<1>3. CASE Evict
  <2>1. NoValues \in Values BY RowBounds DEF NoValues, Values, Null
  <2>2. hot' \in [Keys -> [seq : 0..MaxPoints, val : Values]]
    BY <1>3, <2>1, RowBounds DEF Evict
  <2>. QED BY <1>3, <2>2 DEF Evict, TypeOK
<1>4. CASE UNCHANGED vars BY <1>4 DEF vars, TypeOK
<1>. QED BY <1>1, <1>2, <1>3, <1>4 DEF Next

-----------------------------------------------------------------------------
(* The invariant                                                           *)

(* After a batch the newest cold version of a row is the batch's record of *)
(* the row, or what it was when the batch does not mention the row.        *)
LEMMA NewestAfterBatch ==
    ASSUME TypeOK, SeqsBehind, NEW batch \in Batches, count + Len(batch) <= MaxPoints,
           NEW v \in NewestOf(Cold \cup Records(batch))
    PROVE  \/ \E j : IsLast(batch, v.key, j) /\ v = Record(batch, j)
           \/ v \in NewestOf(Cold) /\ ~ Occurs(batch, v.key)
<1>1. /\ v \in Cold \cup Records(batch)
      /\ \A u \in Cold \cup Records(batch) : u.key = v.key => u.seq <= v.seq
  BY DEF NewestOf
<1>2. CASE v \in Records(batch)
  <2>1. PICK j \in Places(batch) : Survives(batch, j) /\ v = Record(batch, j)
    BY <1>2 DEF Records
  <2>2. v.key = batch[j].key BY <2>1 DEF Record
  <2>. QED BY <2>1, <2>2 DEF IsLast
<1>3. CASE v \in Cold
  <2>1. v \in NewestOf(Cold) BY <1>1, <1>3 DEF NewestOf
  <2>2. ASSUME Occurs(batch, v.key) PROVE FALSE
    <3>1. PICK j : IsLast(batch, v.key, j) BY <2>2, LastExists
    <3>2. Record(batch, j) \in Records(batch) /\ Record(batch, j).key = v.key
      BY <3>1, OneRecord
    <3>3. Record(batch, j).seq <= v.seq BY <1>1, <3>2
    <3>4. Record(batch, j).seq > count /\ Record(batch, j) \in Version BY <3>2, RecordTypes
    <3>5. v.seq <= count BY <1>3 DEF SeqsBehind
    <3>6. /\ v.seq \in Nat /\ count \in Nat /\ Record(batch, j).seq \in Nat
      BY <1>3, <3>4, RowBounds DEF TypeOK, Cold, Version
    <3>. QED BY <3>3, <3>4, <3>5, <3>6
  <2>. QED BY <2>1, <2>2
<1>. QED BY <1>1, <1>2, <1>3

LEMMA WriteKeeps ==
    ASSUME RowInv, TypeOK', NEW batch \in Batches, Write(batch) PROVE RowInv'
<1>. USE DEF RowInv
<1>1. /\ count + Len(batch) <= MaxPoints /\ count' = count + Len(batch)
      /\ Cold' = Cold \cup Records(batch) /\ latest' = Asked(batch)
      /\ \A k \in Keys : hot'[k] = Upserted(k, Records(batch), Columns(batch))
      /\ whole' = (whole /\ \A j \in Places(batch) : batch[j].fields = Fields)
  BY DEF Write, Cold
<1>2. Records(batch) \subseteq Version /\ Cold \subseteq Version
  BY <1>1, RecordTypes DEF TypeOK, Cold
<1>3. SeqsBehind'
  <2>1. ASSUME NEW v \in Cold PROVE v.seq <= count + Len(batch)
    <3>1. v.seq <= count /\ v.seq \in Nat /\ count \in Nat /\ Len(batch) \in Nat
      BY <1>2, BatchShape, RowBounds DEF SeqsBehind, TypeOK, Version
    <3>. QED BY <3>1
  <2>. QED BY <1>1, <2>1, RecordTypes DEF SeqsBehind
<1>4. HotCurrent' BY <1>1, UpsertedCurrent DEF HotCurrent, Current
<1>5. ColdCurrent'
  <2>1. ASSUME NEW v \in NewestOf(Cold'), NEW f \in Fields
        PROVE  v.val[f] \in {Null, latest'[v.key][f]}
    <3>1. v.key \in Keys BY <1>1, <1>2, <2>1 DEF NewestOf, Version
    <3>2. ASSUME NEW j, IsLast(batch, v.key, j), v = Record(batch, j)
          PROVE  v.val[f] \in {Null, latest'[v.key][f]}
      <4>1. CASE f \in batch[j].fields
        <5>1. v.val[f] = count + j BY <3>2, <4>1 DEF Record
        <5>. QED BY <1>1, <3>1, <3>2, <4>1, <5>1, AskedLast
      <4>2. CASE f \notin batch[j].fields BY <3>2, <4>2 DEF Record
      <4>. QED BY <4>1, <4>2
    <3>3. CASE v \in NewestOf(Cold) /\ ~ Occurs(batch, v.key)
      BY <1>1, <3>1, <3>3, AskedNothing DEF ColdCurrent, Current
    <3>. QED BY <1>1, <2>1, <3>2, <3>3, NewestAfterBatch
  <2>. QED BY <2>1 DEF ColdCurrent, Current, NewestOf
<1>6. WholeRows'
  <2>. SUFFICES ASSUME whole'
                PROVE  /\ \A k \in Keys : hot'[k].seq # 0 => hot'[k].val = latest'[k]
                       /\ \A v \in NewestOf(Cold') : v.val = latest'[v.key]
                       /\ \A k \in Keys : latest'[k] # NoValues => \E v \in Cold' : v.key = k
    BY DEF WholeRows, NewestOf
  <2>0. whole /\ \A j \in Places(batch) : batch[j].fields = Fields BY <1>1
  <2>1. ASSUME NEW k \in Keys, hot'[k].seq # 0 PROVE hot'[k].val = latest'[k]
    <3>1. CASE ~ Occurs(batch, k)
      BY <1>1, <2>0, <2>1, <3>1, UpsertedAbsent, AskedNothing DEF WholeRows
    <3>2. CASE Occurs(batch, k)
      <4>1. PICK j : IsLast(batch, k, j) BY <3>2, LastExists
      <4>. QED BY <1>1, <2>0, <4>1, WholeLast
    <3>. QED BY <3>1, <3>2
  <2>2. ASSUME NEW v \in NewestOf(Cold') PROVE v.val = latest'[v.key]
    <3>1. v.key \in Keys BY <1>1, <1>2, <2>2 DEF NewestOf, Version
    <3>2. ASSUME NEW j, IsLast(batch, v.key, j), v = Record(batch, j)
          PROVE  v.val = latest'[v.key]
      BY <1>1, <2>0, <3>1, <3>2, WholeLast
    <3>3. CASE v \in NewestOf(Cold) /\ ~ Occurs(batch, v.key)
      BY <1>1, <2>0, <3>1, <3>3, AskedNothing DEF WholeRows
    <3>. QED BY <1>1, <2>2, <3>2, <3>3, NewestAfterBatch
  <2>3. ASSUME NEW k \in Keys, latest'[k] # NoValues PROVE \E v \in Cold' : v.key = k
    <3>1. CASE ~ Occurs(batch, k)
      <4>1. latest[k] # NoValues BY <1>1, <2>3, <3>1, AskedNothing
      <4>. QED BY <1>1, <2>0, <4>1 DEF WholeRows
    <3>2. CASE Occurs(batch, k) BY <1>1, <3>2, LastExists, OneRecord
    <3>. QED BY <3>1, <3>2
  <2>. QED BY <2>1, <2>2, <2>3
<1>. QED BY <1>3, <1>4, <1>5, <1>6

LEMMA CompactKeeps == ASSUME RowInv, TypeOK', Compact PROVE RowInv'
<1>. USE DEF RowInv
<1>1. UNCHANGED <<hot, count, latest, whole>> BY DEF Compact
<1>2. /\ Cold' \subseteq Cold /\ NewestOf(Cold') \subseteq NewestOf(Cold)
      /\ \A v \in Cold : \E u \in Cold' : u.key = v.key
  BY MergeKeepsNewest
<1>3. NewestOf(Cold)' = NewestOf(Cold') BY DEF NewestOf
<1>4. SeqsBehind' BY <1>1, <1>2 DEF SeqsBehind
<1>5. HotCurrent' BY <1>1 DEF HotCurrent, Current
<1>6. ColdCurrent' BY <1>1, <1>2, <1>3 DEF ColdCurrent, Current
<1>7. WholeRows'
  <2>1. ASSUME whole, NEW k \in Keys, latest[k] # NoValues PROVE \E u \in Cold' : u.key = k
    BY <1>2, <2>1 DEF WholeRows
  <2>. QED BY <1>1, <1>2, <1>3, <2>1 DEF WholeRows
<1>. QED BY <1>4, <1>5, <1>6, <1>7

LEMMA EvictKeeps == ASSUME RowInv, TypeOK', Evict PROVE RowInv'
<1>. USE DEF RowInv
<1>1. /\ UNCHANGED <<staged, merged, count, latest, whole>> /\ Cold' = Cold
      /\ NewestOf(Cold)' = NewestOf(Cold)
      /\ \A k \in Keys : hot'[k] = [seq |-> 0, val |-> NoValues]
  BY DEF Evict, Cold, NewestOf
<1>2. SeqsBehind' BY <1>1 DEF SeqsBehind
<1>3. HotCurrent' BY <1>1 DEF HotCurrent, Current, NoValues
<1>4. ColdCurrent' BY <1>1 DEF ColdCurrent, Current
<1>5. WholeRows' BY <1>1 DEF WholeRows
<1>. QED BY <1>2, <1>3, <1>4, <1>5

LEMMA RowInvInit == Init => RowInv
<1>. SUFFICES ASSUME Init PROVE RowInv OBVIOUS
<1>1. TypeOK BY RowBounds DEF Init, TypeOK, Values, NoValues, Null
<1>2. Cold = {} BY DEF Init, Cold
<1>3. SeqsBehind /\ ColdCurrent BY <1>2 DEF SeqsBehind, ColdCurrent, NewestOf
<1>4. HotCurrent BY DEF Init, HotCurrent, Current, NoValues
<1>5. WholeRows BY <1>2 DEF Init, WholeRows, NewestOf
<1>. QED BY <1>1, <1>3, <1>4, <1>5 DEF RowInv

LEMMA RowInvNext == RowInv /\ [Next]_vars => RowInv'
<1>. SUFFICES ASSUME RowInv, [Next]_vars PROVE RowInv' OBVIOUS
<1>0. TypeOK' BY TypeNext DEF RowInv
<1>1. CASE UNCHANGED vars
  <2>1. Cold' = Cold /\ NewestOf(Cold)' = NewestOf(Cold) BY <1>1 DEF vars, Cold, NewestOf
  <2>. QED BY <1>0, <1>1, <2>1
       DEF vars, RowInv, SeqsBehind, HotCurrent, ColdCurrent, WholeRows, Current
<1>. QED BY <1>0, <1>1, WriteKeeps, CompactKeeps, EvictKeeps DEF Next

(* The invariant of both results, for any number of rows and fields and    *)
(* any batches.                                                            *)
THEOREM RowInvariant == Spec => []RowInv
BY RowInvInit, RowInvNext, PTL DEF Spec

(* Rows, versions and field values keep their shape.                       *)
THEOREM RowTypeCorrect == Spec => []TypeOK
<1>1. RowInv => TypeOK BY DEF RowInv
<1>. QED BY RowInvariant, <1>1, PTL

-----------------------------------------------------------------------------
(* What readers see                                                        *)

LEMMA FederatedRow ==
    ASSUME NEW v \in Federated PROVE v \in HotVersions \/ v \in NewestOf(Cold)
BY DEF Federated, NewestOf, Cold

LEMMA HotVersionOf ==
    ASSUME NEW v \in HotVersions
    PROVE  v.key \in Keys /\ hot[v.key].seq # 0 /\ v.val = hot[v.key].val
BY DEF HotVersions

(* No reader gets an old value of a field back, whatever mix of partial    *)
(* points, merges and evictions came before: it is the last value set, or  *)
(* NULL.                                                                   *)
THEOREM FieldsNeverStale == Spec => []NeverStale
<1>1. RowInv => NeverStale
  <2>. SUFFICES ASSUME RowInv, NEW v \in HotVersions \cup Federated, NEW f \in Fields
                PROVE  v.val[f] \in {Null, latest[v.key][f]}
    BY DEF NeverStale
  <2>1. CASE v \in HotVersions BY <2>1, HotVersionOf DEF RowInv, HotCurrent, Current
  <2>2. CASE v \in NewestOf(Cold) BY <2>2 DEF RowInv, ColdCurrent, Current
  <2>. QED BY <2>1, <2>2, FederatedRow
<1>. QED BY RowInvariant, <1>1, PTL

(* A federated query finds a row that cold has.                            *)
LEMMA FederatedFinds ==
    ASSUME TypeOK, NEW v \in Cold PROVE \E u \in Federated : u.key = v.key
<1>. DEFINE V == HotVersions \cup staged \cup merged
<1>1. V \in SUBSET Version
  <2>1. ASSUME NEW k \in Keys, hot[k].seq # 0
        PROVE  [key |-> k, seq |-> hot[k].seq, val |-> hot[k].val] \in Version
    BY <2>1, RowBounds DEF TypeOK, Version
  <2>2. HotVersions \subseteq Version BY <2>1 DEF HotVersions
  <2>. QED BY <2>2 DEF TypeOK
<1>2. v \in V BY DEF Cold
<1>. HIDE DEF V
<1>3. PICK n \in NewestOf(V) : n.key = v.key BY <1>1, <1>2, NewestExists
<1>. QED BY <1>3 DEF Federated, V

(* When every point so far carried every field, hypertable, cold versions  *)
(* and the deduplicated read agree with what the points asked for.         *)
THEOREM WholePointsAgreeAlways == Spec => []WholePointsAgree
<1>1. RowInv => WholePointsAgree
  <2>. SUFFICES ASSUME RowInv, whole
                PROVE  /\ UpdatesMerge
                       /\ ColdHasHotFields
                       /\ \A k \in Keys : latest[k] # NoValues =>
                            \E v \in Federated : v.key = k /\ v.val = latest[k]
    BY DEF WholePointsAgree
  <2>1. /\ \A k \in Keys : hot[k].seq # 0 => hot[k].val = latest[k]
        /\ \A v \in NewestOf(Cold) : v.val = latest[v.key]
        /\ \A k \in Keys : latest[k] # NoValues => \E v \in Cold : v.key = k
    BY DEF RowInv, WholeRows
  <2>2. UpdatesMerge BY <2>1, HotVersionOf DEF UpdatesMerge
  <2>3. ColdHasHotFields BY <2>1 DEF ColdHasHotFields, Cold
  <2>4. ASSUME NEW k \in Keys, latest[k] # NoValues
        PROVE  \E v \in Federated : v.key = k /\ v.val = latest[k]
    <3>1. PICK u \in Cold : u.key = k BY <2>1, <2>4
    <3>2. PICK v \in Federated : v.key = k BY <3>1, FederatedFinds DEF RowInv
    <3>3. v.val = latest[k] BY <2>1, <3>2, FederatedRow, HotVersionOf
    <3>. QED BY <3>2, <3>3
  <2>. QED BY <2>2, <2>3, <2>4
<1>. QED BY RowInvariant, <1>1, PTL
====
