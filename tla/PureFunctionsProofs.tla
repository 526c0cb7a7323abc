---- MODULE PureFunctionsProofs ----
(***************************************************************************)
(* The planners of tiering, for every list of ranges: is_covered answers   *)
(* yes exactly when the ranges leave no instant of the chunk out, and      *)
(* select_overlapping keeps every object with a row in the window.  The    *)
(* parser, for every text, body and point: the scanner cuts exactly where  *)
(* it should, a body is parsed line by line, and a point that a line can   *)
(* carry comes back as it was meant.                                       *)
(*                                                                         *)
(* The loops are recursive functions of the number of turns; what they are *)
(* after n turns is shown by induction over n, in the form of sets of      *)
(* numbers: the library's well-foundedness of < gives a least turn at      *)
(* which an invariant would fail.                                          *)
(***************************************************************************)
EXTENDS PureFunctions, FiniteSetTheorems, WellFoundedInduction, SequenceTheorems, TLAPS

-----------------------------------------------------------------------------
(* Induction and loops                                                     *)

LEMMA LessIsWellFounded ==
    IsWellFoundedOn({p \in Nat \X Nat : p[1] < p[2]}, Nat)
BY NatLessThanWellFounded DEF OpToRel

(* Induction over the naturals, for a set of them.                         *)
LEMMA Induction ==
    ASSUME NEW S, 0 \in S, \A n \in Nat : n \in S => n + 1 \in S
    PROVE  \A n \in Nat : n \in S
<1>. DEFINE R == {p \in Nat \X Nat : p[1] < p[2]}
            T == Nat \ S
<1>1. SUFFICES ASSUME T # {} PROVE FALSE OBVIOUS
<1>2. PICK m \in T : \A x \in T : ~ (<<x, m>> \in R)
  <2>. HIDE DEF R
  <2>1. IsWellFoundedOn(R, Nat) BY LessIsWellFounded DEF R
  <2>2. T \subseteq Nat OBVIOUS
  <2>. HIDE DEF T
  <2>. QED BY <1>1, <2>1, <2>2, WFMin
<1>3. m \in Nat /\ m # 0 /\ m - 1 \in Nat OBVIOUS
<1>4. CASE m - 1 \in S
  <2>1. m - 1 + 1 \in S BY <1>3, <1>4
  <2>. QED BY <1>3, <2>1
<1>5. CASE m - 1 \notin S
  <2>1. m - 1 \in T BY <1>3, <1>5
  <2>2. <<m - 1, m>> \in R BY <1>3
  <2>. QED BY <1>2, <2>1, <2>2
<1>. QED BY <1>4, <1>5

(* The same up to a bound.                                                 *)
LEMMA InductionUpTo ==
    ASSUME NEW N \in Nat, NEW S, 0 \in S, \A n \in 1..N : n - 1 \in S => n \in S
    PROVE  \A n \in 0..N : n \in S
<1>. DEFINE T == {n \in Nat : n <= N => n \in S}
<1>1. 0 \in T OBVIOUS
<1>2. ASSUME NEW n \in Nat, n \in T PROVE n + 1 \in T
  <2>1. CASE n + 1 <= N
    <3>1. n + 1 \in 1..N /\ n <= N /\ n + 1 - 1 = n BY <2>1
    <3>2. n \in S BY <1>2, <3>1
    <3>3. n + 1 \in S BY <3>1, <3>2
    <3>. QED BY <3>3
  <2>2. CASE ~ (n + 1 <= N) BY <2>2
  <2>. QED BY <2>1, <2>2
<1>. HIDE DEF T
<1>3. \A n \in Nat : n \in T BY <1>1, <1>2, Induction
<1>. QED BY <1>3 DEF T

(* f is a loop of N turns over values of D, as a function of the turn.     *)
Steps(N, D) == [D \X (1..N) -> D]
Loops(f, N, D, base, step) ==
    /\ f \in [0..N -> D]
    /\ f[0] = base
    /\ \A n \in 1..N : f[n] = step[<<f[n - 1], n>>]

LEMMA LoopExists ==
    ASSUME NEW N \in Nat, NEW D, NEW base \in D, NEW step \in Steps(N, D)
    PROVE  \E f : Loops(f, N, D, base, step)
<1>. DEFINE Runs(n) == {f \in [0..n -> D] :
                    f[0] = base /\ \A i \in 1..n : f[i] = step[<<f[i - 1], i>>]}
            S == {n \in 0..N : Runs(n) # {}}
<1>. USE DEF Steps
<1>1. 0 \in S
  <2>1. [i \in 0..0 |-> base] \in Runs(0) OBVIOUS
  <2>. QED BY <2>1
<1>2. ASSUME NEW n \in 1..N, n - 1 \in S PROVE n \in S
  <2>1. PICK f : f \in Runs(n - 1) BY <1>2
  <2>2. n - 1 \in 0..N /\ n - 1 \in Nat /\ n \in Nat /\ n - 1 \in 0..(n - 1) OBVIOUS
  <2>. DEFINE g == [i \in 0..n |-> IF i = n THEN step[<<f[n - 1], n>>] ELSE f[i]]
  <2>3. f \in [0..(n - 1) -> D] /\ f[0] = base
        /\ \A i \in 1..(n - 1) : f[i] = step[<<f[i - 1], i>>]
    BY <2>1
  <2>4. step[<<f[n - 1], n>>] \in D
    <3>1. f[n - 1] \in D BY <2>2, <2>3
    <3>. QED BY <3>1
  <2>5. g \in [0..n -> D]
    <3>1. \A i \in 0..n : i = n \/ i \in 0..(n - 1) BY <2>2
    <3>. QED BY <2>3, <2>4, <3>1
  <2>6. g[0] = base /\ g[n] = step[<<f[n - 1], n>>] /\ \A i \in 0..(n - 1) : g[i] = f[i]
    BY <2>2, <2>3
  <2>. HIDE DEF g
  <2>7. ASSUME NEW i \in 1..n PROVE g[i] = step[<<g[i - 1], i>>]
    <3>1. CASE i = n BY <2>2, <2>6, <3>1
    <3>2. CASE i # n
      <4>1. i \in 1..(n - 1) /\ i \in 0..(n - 1) /\ i - 1 \in 0..(n - 1) BY <2>2, <3>2
      <4>. QED BY <2>3, <2>6, <4>1
    <3>. QED BY <3>1, <3>2
  <2>8. g \in Runs(n) BY <2>5, <2>6, <2>7
  <2>. QED BY <2>8
<1>. HIDE DEF S
<1>3. \A n \in 0..N : n \in S BY <1>1, <1>2, InductionUpTo
<1>4. N \in S BY <1>3
<1>5. PICK f : f \in Runs(N) BY <1>4 DEF S
<1>. QED BY <1>5 DEF Loops

-----------------------------------------------------------------------------
(* Sorting                                                                 *)

LEMMA IntervalTypes ==
    ASSUME NEW r \in Interval
    PROVE  r.lo \in Nat /\ r.hi \in Nat /\ r.lo <= r.hi /\ r = [lo |-> r.lo, hi |-> r.hi]
BY CoverageBounds DEF Interval, Time

LEMMA BeforeIsOrder ==
    ASSUME NEW a \in Interval, NEW b \in Interval
    PROVE  /\ Before(a, a)
           /\ Before(a, b) \/ Before(b, a)
           /\ \A c \in Interval : Before(a, b) /\ Before(b, c) => Before(a, c)
BY IntervalTypes DEF Before

(* Of finitely many ranges one is last.                                    *)
LEMMA LastExists ==
    ASSUME NEW n \in Nat, NEW s \in [1..(n + 1) -> Interval]
    PROVE  \E m \in 1..(n + 1) : \A i \in 1..(n + 1) : Before(s[i], s[m])
<1>. DEFINE S == {k \in Nat : \A t \in [1..(k + 1) -> Interval] :
                    \E m \in 1..(k + 1) : \A i \in 1..(k + 1) : Before(t[i], t[m])}
<1>1. 0 \in S
  <2>1. ASSUME NEW t \in [1..(0 + 1) -> Interval]
        PROVE  \E m \in 1..(0 + 1) : \A i \in 1..(0 + 1) : Before(t[i], t[m])
    <3>1. 1 \in 1..(0 + 1) /\ \A i \in 1..(0 + 1) : i = 1 OBVIOUS
    <3>2. Before(t[1], t[1]) BY <3>1, BeforeIsOrder
    <3>. QED BY <3>1, <3>2
  <2>. QED BY <2>1
<1>2. ASSUME NEW k \in Nat, k \in S PROVE k + 1 \in S
  <2>1. ASSUME NEW t \in [1..(k + 1 + 1) -> Interval]
        PROVE  \E m \in 1..(k + 1 + 1) : \A i \in 1..(k + 1 + 1) : Before(t[i], t[m])
    <3>. DEFINE u == [i \in 1..(k + 1) |-> t[i]]
                z == k + 1 + 1
    <3>1. z \in 1..z /\ \A i \in 1..z : i \in 1..(k + 1) \/ i = z OBVIOUS
    <3>2. 1..(k + 1) \subseteq 1..z OBVIOUS
    <3>3. u \in [1..(k + 1) -> Interval] BY <3>2
    <3>4. PICK m \in 1..(k + 1) : \A i \in 1..(k + 1) : Before(u[i], u[m]) BY <1>2, <3>3
    <3>. HIDE DEF z
    <3>5. t \in [1..z -> Interval] BY DEF z
    <3>6. \A i \in 1..(k + 1) : Before(t[i], t[m]) BY <3>4
    <3>. HIDE DEF u
    <3>7. m \in 1..z /\ t[m] \in Interval /\ t[z] \in Interval BY <3>1, <3>2, <3>4, <3>5
    <3>8. CASE Before(t[z], t[m])
      <4>1. \A i \in 1..z : Before(t[i], t[m]) BY <3>1, <3>6, <3>8
      <4>. QED BY <3>7, <4>1 DEF z
    <3>9. CASE Before(t[m], t[z])
      <4>1. ASSUME NEW i \in 1..z PROVE Before(t[i], t[z])
        <5>1. CASE i = z BY <3>7, <5>1, BeforeIsOrder
        <5>2. CASE i \in 1..(k + 1)
          <6>1. Before(t[i], t[m]) /\ t[i] \in Interval BY <3>2, <3>5, <3>6, <5>2
          <6>. QED BY <3>7, <3>9, <6>1, BeforeIsOrder
        <5>. QED BY <3>1, <5>1, <5>2
      <4>. QED BY <3>1, <4>1 DEF z
    <3>. QED BY <3>7, <3>8, <3>9, BeforeIsOrder
  <2>2. k + 1 \in Nat OBVIOUS
  <2>. QED BY <2>1, <2>2
<1>. HIDE DEF S
<1>3. n \in S BY <1>1, <1>2, Induction
<1>. QED BY <1>3 DEF S

(* Every list of ranges can be sorted: put the last one at the end, where  *)
(* it changes places with what is there, and sort the rest.                *)
LEMMA OrderExists ==
    ASSUME NEW n \in Nat, NEW s \in [1..n -> Interval]
    PROVE  \E p \in Orders(n) :
                \A i, j \in 1..n : i < j => Before(s[p[i]], s[p[j]])
<1>. DEFINE S == {k \in Nat : \A t \in [1..k -> Interval] : \E p \in Orders(k) :
                    \A i, j \in 1..k : i < j => Before(t[p[i]], t[p[j]])}
<1>1. 0 \in S
  <2>1. 1..0 = {} OBVIOUS
  <2>2. [i \in 1..0 |-> i] \in Orders(0) BY <2>1 DEF Orders
  <2>. QED BY <2>1, <2>2
<1>2. ASSUME NEW k \in Nat, k \in S PROVE k + 1 \in S
  <2>. DEFINE z == k + 1
  <2>1. /\ z \in Nat /\ z \in 1..z /\ 1..k \subseteq 1..z /\ z \notin 1..k
        /\ \A i \in 1..z : i \in 1..k \/ i = z
        /\ \A i, j \in 1..z : i < j => i \in 1..k
    OBVIOUS
  <2>2. ASSUME NEW t \in [1..z -> Interval]
        PROVE  \E p \in Orders(z) : \A i, j \in 1..z : i < j => Before(t[p[i]], t[p[j]])
    <3>1. PICK m \in 1..z : \A i \in 1..z : Before(t[i], t[m]) BY LastExists
    <3>. HIDE DEF z
    <3>. DEFINE u == [i \in 1..k |-> IF i = m THEN t[z] ELSE t[i]]
    <3>2. u \in [1..k -> Interval] BY <2>1
    <3>3. PICK q \in Orders(k) : \A i, j \in 1..k : i < j => Before(u[q[i]], u[q[j]])
      BY <1>2, <3>2
    <3>4. /\ q \in [1..k -> 1..k] /\ \A j \in 1..k : \E i \in 1..k : q[i] = j
      BY <3>3 DEF Orders
    <3>. DEFINE p == [i \in 1..z |-> IF i = z THEN m ELSE IF q[i] = m THEN z ELSE q[i]]
    <3>5. p \in [1..z -> 1..z] BY <2>1, <3>1, <3>4
    <3>6. /\ p[z] = m
          /\ \A i \in 1..k : q[i] \in 1..k /\ p[i] = IF q[i] = m THEN z ELSE q[i]
      BY <2>1, <3>4
    <3>. HIDE DEF p
    <3>7. ASSUME NEW i \in 1..k PROVE t[p[i]] = u[q[i]]
      <4>1. q[i] \in 1..k /\ p[i] = IF q[i] = m THEN z ELSE q[i] BY <3>6
      <4>2. u[q[i]] = IF q[i] = m THEN t[z] ELSE t[q[i]] BY <4>1
      <4>. QED BY <4>1, <4>2
    <3>. HIDE DEF u
    <3>8. ASSUME NEW j \in 1..z PROVE \E i \in 1..z : p[i] = j
      <4>1. CASE j = m BY <2>1, <3>6, <4>1
      <4>2. CASE j = z /\ j # m
        <5>1. m \in 1..k BY <2>1, <3>1, <4>2
        <5>2. PICK i \in 1..k : q[i] = m BY <3>4, <5>1
        <5>. QED BY <2>1, <3>6, <4>2, <5>2
      <4>3. CASE j # z /\ j # m
        <5>1. j \in 1..k BY <2>1, <4>3
        <5>2. PICK i \in 1..k : q[i] = j BY <3>4, <5>1
        <5>. QED BY <2>1, <3>6, <4>3, <5>2
      <4>. QED BY <4>1, <4>2, <4>3
    <3>9. p \in Orders(z) BY <3>5, <3>8 DEF Orders
    <3>10. ASSUME NEW i \in 1..z, NEW j \in 1..z, i < j PROVE Before(t[p[i]], t[p[j]])
      <4>1. i \in 1..k BY <2>1, <3>10
      <4>2. CASE j = z
        <5>1. p[i] \in 1..z BY <3>5
        <5>. QED BY <3>1, <3>6, <4>2, <5>1
      <4>3. CASE j \in 1..k BY <3>3, <3>7, <3>10, <4>1, <4>3
      <4>. QED BY <2>1, <4>2, <4>3
    <3>. QED BY <3>9, <3>10
  <2>. QED BY <2>1, <2>2
<1>. HIDE DEF S
<1>3. n \in S BY <1>1, <1>2, Induction
<1>. QED BY <1>3 DEF S

LEMMA SortedSorts ==
    ASSUME NEW s \in Seq(Interval)
    PROVE  /\ Sorted(s) \in Seq(Interval) /\ Len(Sorted(s)) = Len(s)
           /\ \A i, j \in 1..Len(s) : i < j => Sorted(s)[i].lo <= Sorted(s)[j].lo
           /\ \A i \in 1..Len(s) : \E j \in 1..Len(s) : Sorted(s)[i] = s[j]
           /\ \A i \in 1..Len(s) : \E j \in 1..Len(s) : Sorted(s)[j] = s[i]
<1>. DEFINE n == Len(s)
            p == CHOOSE q \in Orders(Len(s)) : Sorts(q, s)
            t == [i \in 1..n |-> s[p[i]]]
<1>1. n \in Nat /\ s \in [1..n -> Interval] OBVIOUS
<1>2. p \in Orders(n) /\ Sorts(p, s)
  <2>1. \E q \in Orders(n) : Sorts(q, s) BY <1>1, OrderExists DEF Sorts
  <2>. QED BY <2>1
<1>3. Sorted(s) = t BY DEF Sorted
<1>. HIDE DEF p
<1>4. /\ p \in [1..n -> 1..n] /\ \A j \in 1..n : \E i \in 1..n : p[i] = j
  BY <1>2 DEF Orders
<1>5. \A i, j \in 1..n : i < j => Before(s[p[i]], s[p[j]]) BY <1>2 DEF Sorts
<1>. HIDE DEF n
<1>6. t \in [1..n -> Interval] BY <1>1, <1>4
<1>7. t \in Seq(Interval) /\ Len(t) = n BY <1>1, <1>6
<1>8. \A i \in 1..n : t[i] = s[p[i]] OBVIOUS
<1>. HIDE DEF t
<1>9. ASSUME NEW i \in 1..n, NEW j \in 1..n, i < j PROVE t[i].lo <= t[j].lo
  <2>1. Before(t[i], t[j]) /\ t[i] \in Interval /\ t[j] \in Interval
    BY <1>5, <1>6, <1>8, <1>9
  <2>. QED BY <2>1, IntervalTypes DEF Before
<1>10. \A i \in 1..n : \E j \in 1..n : t[i] = s[j] BY <1>4, <1>8
<1>11. \A i \in 1..n : \E j \in 1..n : t[j] = s[i] BY <1>4, <1>8
<1>. QED BY <1>3, <1>7, <1>9, <1>10, <1>11 DEF n

-----------------------------------------------------------------------------
(* Merging                                                                 *)

(* The instants of the first n ranges of s.                                *)
Within(x, s, n) == \E i \in 1..n : s[i].lo <= x /\ x < s[i].hi

(* The two outcomes of a turn: the last range is widened, or one is added. *)
LEMMA Widened ==
    ASSUME NEW out \in Seq(Interval), out # <<>>, NEW r \in Interval,
           r.lo <= out[Len(out)].hi
    PROVE  /\ Len(out) \in Nat \ {0} /\ out[Len(out)] \in Interval
           /\ MergeInto(out, r) \in Seq(Interval) /\ Len(MergeInto(out, r)) = Len(out)
           /\ \A i \in 1..Len(out) : i # Len(out) => MergeInto(out, r)[i] = out[i]
           /\ MergeInto(out, r)[Len(out)]
                = [lo |-> out[Len(out)].lo, hi |-> Larger(out[Len(out)].hi, r.hi)]
<1>. DEFINE n == Len(out)
            top == [lo |-> out[n].lo, hi |-> Larger(out[n].hi, r.hi)]
            res == [out EXCEPT ![n] = top]
<1>1. n \in Nat \ {0} /\ n \in 1..n /\ out \in [1..n -> Interval] BY EmptySeq
<1>2. MergeInto(out, r) = res BY DEF MergeInto
<1>. HIDE DEF n
<1>3. out[n] \in Interval BY <1>1
<1>4. top \in Interval
  <2>1. out[n].lo \in Time /\ out[n].hi \in Time /\ r.hi \in Time BY <1>3 DEF Interval
  <2>2. Larger(out[n].hi, r.hi) \in Time BY <2>1 DEF Larger
  <2>3. out[n].lo <= Larger(out[n].hi, r.hi) BY <1>3, IntervalTypes DEF Larger
  <2>. QED BY <2>1, <2>2, <2>3 DEF Interval
<1>. HIDE DEF top
<1>5. res \in [1..n -> Interval] BY <1>1, <1>4
<1>6. res \in Seq(Interval) /\ Len(res) = n BY <1>1, <1>5
<1>7. res[n] = top /\ \A i \in 1..n : i # n => res[i] = out[i] BY <1>1
<1>. QED BY <1>1, <1>2, <1>3, <1>6, <1>7 DEF n, top

LEMMA Added ==
    ASSUME NEW out \in Seq(Interval), NEW r \in Interval,
           ~ (out # <<>> /\ r.lo <= out[Len(out)].hi)
    PROVE  /\ Len(out) \in Nat
           /\ MergeInto(out, r) \in Seq(Interval) /\ Len(MergeInto(out, r)) = Len(out) + 1
           /\ \A i \in 1..Len(out) : MergeInto(out, r)[i] = out[i]
           /\ MergeInto(out, r)[Len(out) + 1] = r
<1>1. MergeInto(out, r) = Append(out, r) BY DEF MergeInto
<1>2. Len(out) \in Nat OBVIOUS
<1>. QED BY <1>1, <1>2

LEMMA MergeLoopTurns ==
    ASSUME NEW t \in Seq(Interval)
    PROVE  /\ MergeLoop(t) \in [0..Len(t) -> Seq(Interval)]
           /\ MergeLoop(t)[0] = <<>>
           /\ \A n \in 1..Len(t) : MergeLoop(t)[n] = MergeInto(MergeLoop(t)[n - 1], t[n])
<1>. DEFINE N == Len(t)
            D == Seq(Interval)
            step == [e \in D \X (1..N) |-> MergeInto(e[1], t[e[2]])]
            Next1(g) == [n \in 0..N |-> IF n = 0 THEN <<>> ELSE MergeInto(g[n - 1], t[n])]
<1>1. N \in Nat /\ <<>> \in D /\ t \in [1..N -> Interval] OBVIOUS
<1>. HIDE DEF N
<1>2. ASSUME NEW out \in D, NEW r \in Interval PROVE MergeInto(out, r) \in D
  BY Widened, Added
<1>. HIDE DEF D
<1>3. step \in [D \X (1..N) -> D] BY <1>1, <1>2
<1>4. PICK f \in [0..N -> D] :
            f[0] = <<>> /\ \A n \in 1..N : f[n] = step[<<f[n - 1], n>>]
  <2>. HIDE DEF step
  <2>1. step \in Steps(N, D) BY <1>3 DEF Steps
  <2>2. PICK f : Loops(f, N, D, <<>>, step) BY <1>1, <2>1, LoopExists
  <2>. QED BY <2>2 DEF Loops
<1>5. ASSUME NEW n \in 1..N PROVE f[n] = MergeInto(f[n - 1], t[n])
  <2>1. n - 1 \in 0..N BY <1>1
  <2>2. <<f[n - 1], n>> \in D \X (1..N) BY <2>1
  <2>. QED BY <1>4, <2>2
<1>. HIDE DEF step
<1>6. f = Next1(f)
  <2>1. \A n \in 0..N : f[n] = IF n = 0 THEN <<>> ELSE MergeInto(f[n - 1], t[n])
    <3>1. \A n \in 0..N : n = 0 \/ n \in 1..N BY <1>1
    <3>. QED BY <1>4, <1>5, <3>1
  <2>. QED BY <2>1
<1>7. MergeLoop(t) = CHOOSE g : g = Next1(g) BY DEF MergeLoop, N
<1>. DEFINE m == CHOOSE g : g = Next1(g)
<1>8. m = Next1(m) BY <1>6
<1>. HIDE DEF m
<1>9. m[0] = <<>> /\ \A n \in 1..N : m[n] = MergeInto(m[n - 1], t[n])
  <2>1. 0 \in 0..N /\ \A n \in 1..N : n \in 0..N /\ n # 0 BY <1>1
  <2>. QED BY <1>8, <2>1
<1>10. \A n \in 0..N : m[n] \in D
  <2>. DEFINE S == {n \in 0..N : m[n] \in D}
  <2>1. 0 \in S BY <1>1, <1>9
  <2>2. ASSUME NEW n \in 1..N, n - 1 \in S PROVE n \in S
    <3>1. m[n - 1] \in D /\ t[n] \in Interval BY <1>1, <2>2
    <3>2. m[n] \in D BY <1>2, <1>9, <3>1
    <3>. QED BY <1>1, <3>2
  <2>. HIDE DEF S
  <2>3. \A n \in 0..N : n \in S BY <1>1, <2>1, <2>2, InductionUpTo
  <2>. QED BY <2>3 DEF S
<1>11. m \in [0..N -> D]
  <2>1. m = [n \in 0..N |-> m[n]] BY <1>8
  <2>. QED BY <1>10, <2>1
<1>. QED BY <1>7, <1>9, <1>11 DEF m, N, D

(* After n turns out is what the first n ranges cover, in ranges that do   *)
(* not touch, the last of which begins no later than the n-th.             *)
MergedSoFar(out, t, n) ==
    /\ out \in Seq(Interval)
    /\ \A i, j \in 1..Len(out) : i < j => out[i].hi < out[j].lo
    /\ \A x \in Nat : Within(x, out, Len(out)) <=> Within(x, t, n)
    /\ n = 0 => out = <<>>
    /\ n # 0 => out # <<>> /\ out[Len(out)].lo <= t[n].lo

LEMMA WithinNext ==
    ASSUME NEW n \in Nat \ {0}, NEW x, NEW t
    PROVE  Within(x, t, n) <=> Within(x, t, n - 1) \/ (t[n].lo <= x /\ x < t[n].hi)
<1>1. n \in 1..n /\ \A i \in 1..n : i = n \/ i \in 1..(n - 1) OBVIOUS
<1>2. 1..(n - 1) \subseteq 1..n OBVIOUS
<1>. QED BY <1>1, <1>2 DEF Within

LEMMA MergeTurn ==
    ASSUME NEW t \in Seq(Interval), \A i, j \in 1..Len(t) : i < j => t[i].lo <= t[j].lo,
           NEW n \in 1..Len(t), NEW out, MergedSoFar(out, t, n - 1)
    PROVE  MergedSoFar(MergeInto(out, t[n]), t, n)
<1>. DEFINE r == t[n]
            res == MergeInto(out, r)
            L == Len(out)
<1>1. n \in Nat \ {0} /\ r \in Interval /\ out \in Seq(Interval) BY DEF MergedSoFar
<1>2. r.lo \in Nat /\ r.hi \in Nat /\ r.lo <= r.hi BY <1>1, IntervalTypes
<1>3. ASSUME NEW x \in Nat
      PROVE  Within(x, t, n) <=> Within(x, out, L) \/ (r.lo <= x /\ x < r.hi)
  BY <1>1, WithinNext DEF MergedSoFar
<1>4. L \in Nat /\ \A i \in 1..L : out[i] \in Interval BY <1>1
<1>5. \A i \in 1..L : out[i].lo \in Nat /\ out[i].hi \in Nat /\ out[i].lo <= out[i].hi
  BY <1>4, IntervalTypes
<1>6. \A i, j \in 1..L : i < j => out[i].hi < out[j].lo BY DEF MergedSoFar
<1>. HIDE DEF r
<1>7. CASE out # <<>> /\ r.lo <= out[L].hi
  <2>1. res[L] = [lo |-> out[L].lo, hi |-> Larger(out[L].hi, r.hi)]
    BY <1>1, <1>7, Widened
  <2>2. /\ L \in Nat \ {0} /\ res \in Seq(Interval) /\ Len(res) = L
        /\ \A i \in 1..L : i # L => res[i] = out[i]
        /\ res[L].lo = out[L].lo /\ res[L].hi = Larger(out[L].hi, r.hi)
    BY <1>1, <1>7, <2>1, Widened
  <2>3. out[L].lo <= r.lo
    <3>1. n - 1 # 0 BY <1>7 DEF MergedSoFar
    <3>2. n - 1 \in 1..Len(t) /\ n - 1 < n BY <1>1, <3>1
    <3>3. out[L].lo <= t[n - 1].lo BY <3>1 DEF MergedSoFar
    <3>4. t[n - 1].lo <= r.lo BY <3>2 DEF r
    <3>5. t[n - 1].lo \in Nat /\ out[L].lo \in Nat BY <1>5, <2>2, <3>2, IntervalTypes
    <3>. QED BY <1>2, <3>3, <3>4, <3>5
  <2>. HIDE DEF res, L
  <2>4. L \in 1..L /\ \A i \in 1..L : i = L \/ i \in 1..(L - 1) BY <2>2
  <2>5. ASSUME NEW i \in 1..L, NEW j \in 1..L, i < j PROVE res[i].hi < res[j].lo
    <3>1. i # L /\ out[i].hi < out[j].lo BY <1>6, <2>2, <2>5
    <3>2. res[i] = out[i] /\ res[j].lo = out[j].lo BY <2>2, <3>1
    <3>. QED BY <3>1, <3>2
  <2>6. ASSUME NEW x \in Nat
        PROVE  Within(x, res, L) <=> Within(x, out, L) \/ (r.lo <= x /\ x < r.hi)
    <3>1. /\ Within(x, res, L) <=> Within(x, res, L - 1) \/ (res[L].lo <= x /\ x < res[L].hi)
          /\ Within(x, out, L) <=> Within(x, out, L - 1) \/ (out[L].lo <= x /\ x < out[L].hi)
      BY <2>2, WithinNext
    <3>2. \A i \in 1..(L - 1) : i \in 1..L /\ i # L BY <2>2
    <3>3. Within(x, res, L - 1) <=> Within(x, out, L - 1) BY <2>2, <3>2 DEF Within
    <3>4. out[L].lo \in Nat /\ out[L].hi \in Nat BY <1>5, <2>4
    <3>5. /\ res[L].lo = out[L].lo
          /\ x < res[L].hi <=> x < out[L].hi \/ x < r.hi
      BY <1>2, <2>2, <3>4 DEF Larger
    <3>6. (res[L].lo <= x /\ x < res[L].hi)
            <=> (out[L].lo <= x /\ x < out[L].hi) \/ (r.lo <= x /\ x < r.hi)
      BY <1>2, <1>7, <2>3, <3>4, <3>5
    <3>. QED BY <3>1, <3>3, <3>6
  <2>7. res # <<>> /\ res[L].lo <= r.lo BY <2>2, <2>3
  <2>. QED BY <1>1, <1>3, <2>2, <2>5, <2>6, <2>7 DEF MergedSoFar, r, res, L
<1>8. CASE ~ (out # <<>> /\ r.lo <= out[L].hi)
  <2>1. /\ res \in Seq(Interval) /\ Len(res) = L + 1
        /\ \A i \in 1..L : res[i] = out[i]
        /\ res[L + 1] = r
    BY <1>1, <1>8, Added
  <2>2. L # 0 => out[L].hi < r.lo
    <3>1. ASSUME L # 0 PROVE out[L].hi < r.lo
      <4>1. out # <<>> /\ L \in 1..L BY <1>4, <3>1
      <4>. QED BY <1>2, <1>5, <1>8, <4>1
    <3>. QED BY <3>1
  <2>. HIDE DEF res, L
  <2>3. /\ L + 1 \in Nat \ {0}
        /\ \A i \in 1..(L + 1) : i = L + 1 \/ i \in 1..L
        /\ \A i, j \in 1..(L + 1) : i < j => i \in 1..L
        /\ \A i \in 1..L : i # L => i < L /\ L \in 1..L
    BY <1>4
  <2>4. ASSUME NEW i \in 1..L PROVE out[i].hi < r.lo
    <3>1. CASE i = L BY <1>4, <2>2, <3>1
    <3>2. CASE i # L
      <4>1. i < L /\ L \in 1..L BY <2>3, <3>2
      <4>2. out[i].hi < out[L].lo /\ out[L].lo <= out[L].hi /\ out[L].hi < r.lo
        BY <1>5, <1>6, <2>2, <4>1
      <4>3. out[i].hi \in Nat /\ out[L].lo \in Nat /\ out[L].hi \in Nat BY <1>5, <4>1
      <4>. QED BY <1>2, <4>2, <4>3
    <3>. QED BY <3>1, <3>2
  <2>5. ASSUME NEW i \in 1..(L + 1), NEW j \in 1..(L + 1), i < j
        PROVE  res[i].hi < res[j].lo
    <3>1. i \in 1..L /\ res[i] = out[i] BY <2>1, <2>3, <2>5
    <3>2. CASE j = L + 1 BY <2>1, <2>4, <3>1, <3>2
    <3>3. CASE j \in 1..L BY <1>6, <2>1, <2>5, <3>1, <3>3
    <3>. QED BY <2>3, <3>2, <3>3
  <2>6. ASSUME NEW x \in Nat
        PROVE  Within(x, res, L + 1) <=> Within(x, out, L) \/ (r.lo <= x /\ x < r.hi)
    <3>. DEFINE M == L + 1
    <3>1. M \in Nat \ {0} /\ M - 1 = L BY <1>4
    <3>. HIDE DEF M
    <3>2. Within(x, res, M) <=> Within(x, res, L) \/ (res[M].lo <= x /\ x < res[M].hi)
      BY <3>1, WithinNext
    <3>3. Within(x, res, L + 1)
            <=> Within(x, res, L) \/ (res[L + 1].lo <= x /\ x < res[L + 1].hi)
      BY <3>2 DEF M
    <3>4. Within(x, res, L) <=> Within(x, out, L) BY <2>1 DEF Within
    <3>. QED BY <2>1, <3>3, <3>4
  <2>7. res # <<>> /\ res[L + 1].lo <= r.lo BY <1>2, <2>1, <2>3
  <2>. QED BY <1>1, <1>3, <2>1, <2>5, <2>6, <2>7 DEF MergedSoFar, r, res, L
<1>. QED BY <1>7, <1>8

LEMMA MergeIsExact ==
    ASSUME NEW s \in Seq(Interval)
    PROVE  /\ merge_intervals(s) \in Seq(Interval)
           /\ \A i, j \in 1..Len(merge_intervals(s)) :
                    i < j => merge_intervals(s)[i].hi < merge_intervals(s)[j].lo
           /\ \A x \in Nat : Within(x, merge_intervals(s), Len(merge_intervals(s)))
                                <=> Within(x, s, Len(s))
<1>. DEFINE t == Sorted(s)
            N == Len(s)
            out == MergeLoop(t)
            S == {n \in 0..N : MergedSoFar(out[n], t, n)}
<1>1. /\ t \in Seq(Interval) /\ Len(t) = N /\ N \in Nat
      /\ \A i, j \in 1..N : i < j => t[i].lo <= t[j].lo
      /\ \A i \in 1..N : \E j \in 1..N : t[i] = s[j]
      /\ \A i \in 1..N : \E j \in 1..N : t[j] = s[i]
  BY SortedSorts
<1>. HIDE DEF t, N
<1>2. /\ out \in [0..N -> Seq(Interval)] /\ out[0] = <<>>
      /\ \A n \in 1..N : out[n] = MergeInto(out[n - 1], t[n])
  BY <1>1, MergeLoopTurns
<1>. HIDE DEF out
<1>3. 0 \in S
  <2>1. <<>> \in Seq(Interval) /\ Len(<<>>) = 0 /\ 1..0 = {} OBVIOUS
  <2>2. MergedSoFar(<<>>, t, 0) BY <2>1 DEF MergedSoFar, Within
  <2>. QED BY <1>1, <1>2, <2>2
<1>4. ASSUME NEW n \in 1..N, n - 1 \in S PROVE n \in S
  <2>1. MergedSoFar(out[n - 1], t, n - 1) BY <1>4
  <2>2. MergedSoFar(MergeInto(out[n - 1], t[n]), t, n) BY <1>1, <2>1, MergeTurn
  <2>3. n \in 0..N BY <1>1
  <2>. QED BY <1>2, <2>2, <2>3
<1>. HIDE DEF S
<1>5. N \in S
  <2>1. \A n \in 0..N : n \in S BY <1>1, <1>3, <1>4, InductionUpTo
  <2>. QED BY <1>1, <2>1
<1>6. MergedSoFar(out[N], t, N) BY <1>5 DEF S
<1>7. merge_intervals(s) = out[N] BY DEF merge_intervals, out, t, N
<1>8. \A x : Within(x, t, N) <=> Within(x, s, N) BY <1>1 DEF Within
<1>. QED BY <1>6, <1>7, <1>8 DEF MergedSoFar, N

-----------------------------------------------------------------------------
(* is_covered                                                              *)

State == [cursor : Nat, answer : {"none", "yes", "no"}]

LEMMA AdvanceTyped ==
    ASSUME NEW st \in State, NEW r \in Interval, NEW ce \in Nat
    PROVE  Advance(st, r, ce) \in State
<1>1. st.cursor \in Nat /\ st.answer \in {"none", "yes", "no"} /\ r.hi \in Nat
  BY IntervalTypes DEF State
<1>2. Larger(st.cursor, r.hi) \in Nat BY <1>1 DEF Larger
<1>. QED BY <1>1, <1>2 DEF Advance, State

LEMMA CursorLoopTurns ==
    ASSUME NEW m \in Seq(Interval), NEW cs \in Nat, NEW ce \in Nat
    PROVE  /\ CursorLoop(cs, ce, m) \in [0..Len(m) -> State]
           /\ CursorLoop(cs, ce, m)[0] = [cursor |-> cs, answer |-> "none"]
           /\ \A n \in 1..Len(m) :
                CursorLoop(cs, ce, m)[n] = Advance(CursorLoop(cs, ce, m)[n - 1], m[n], ce)
<1>. DEFINE N == Len(m)
            base == [cursor |-> cs, answer |-> "none"]
            step == [e \in State \X (1..N) |-> Advance(e[1], m[e[2]], ce)]
            Turns(g) == [n \in 0..N |-> IF n = 0 THEN base ELSE Advance(g[n - 1], m[n], ce)]
<1>1. N \in Nat /\ base \in State /\ m \in [1..N -> Interval] BY DEF State
<1>2. CursorLoop(cs, ce, m) = CHOOSE g : g = Turns(g) BY DEF CursorLoop
<1>. HIDE DEF N, base
<1>3. step \in [State \X (1..N) -> State] BY <1>1, AdvanceTyped
<1>4. PICK f \in [0..N -> State] :
            f[0] = base /\ \A n \in 1..N : f[n] = step[<<f[n - 1], n>>]
  <2>. HIDE DEF step
  <2>1. step \in Steps(N, State) BY <1>3 DEF Steps
  <2>2. PICK f : Loops(f, N, State, base, step) BY <1>1, <2>1, LoopExists
  <2>. QED BY <2>2 DEF Loops
<1>5. ASSUME NEW n \in 1..N PROVE f[n] = Advance(f[n - 1], m[n], ce)
  <2>1. n - 1 \in 0..N BY <1>1
  <2>2. <<f[n - 1], n>> \in State \X (1..N) BY <2>1
  <2>. QED BY <1>4, <2>2
<1>. HIDE DEF step
<1>6. f = Turns(f)
  <2>1. \A n \in 0..N : f[n] = IF n = 0 THEN base ELSE Advance(f[n - 1], m[n], ce)
    <3>1. \A n \in 0..N : n = 0 \/ n \in 1..N BY <1>1
    <3>. QED BY <1>4, <1>5, <3>1
  <2>. QED BY <2>1
<1>. DEFINE c == CHOOSE g : g = Turns(g)
<1>7. c = Turns(c) BY <1>6
<1>. HIDE DEF c
<1>8. c[0] = base /\ \A n \in 1..N : c[n] = Advance(c[n - 1], m[n], ce)
  <2>1. 0 \in 0..N /\ \A n \in 1..N : n \in 0..N /\ n # 0 BY <1>1
  <2>. QED BY <1>7, <2>1
<1>9. \A n \in 0..N : c[n] \in State
  <2>. DEFINE S == {n \in 0..N : c[n] \in State}
  <2>1. 0 \in S BY <1>1, <1>8
  <2>2. ASSUME NEW n \in 1..N, n - 1 \in S PROVE n \in S
    <3>1. c[n - 1] \in State /\ m[n] \in Interval BY <1>1, <2>2
    <3>2. c[n] \in State BY <1>8, <3>1, AdvanceTyped
    <3>. QED BY <1>1, <3>2
  <2>. HIDE DEF S
  <2>3. \A n \in 0..N : n \in S BY <1>1, <2>1, <2>2, InductionUpTo
  <2>. QED BY <2>3 DEF S
<1>10. c \in [0..N -> State]
  <2>1. c = [n \in 0..N |-> c[n]] BY <1>7
  <2>. QED BY <1>9, <2>1
<1>. QED BY <1>2, <1>8, <1>10 DEF c, N, base

(* The cursor has passed covered instants only and every range before the  *)
(* n-th; an answer is given for the reason the code gives it for.          *)
CursorSound(st, cs, ce, m, n) ==
    /\ st \in State
    /\ cs <= st.cursor
    /\ \A x \in Nat : cs <= x /\ x < st.cursor => Within(x, m, Len(m))
    /\ st.answer = "none" => st.cursor < ce /\ \A j \in 1..n : m[j].hi <= st.cursor
    /\ st.answer = "yes" => ce <= st.cursor
    /\ st.answer = "no" => st.cursor < ce /\ ~ Within(st.cursor, m, Len(m))

LEMMA CursorTurn ==
    ASSUME NEW m \in Seq(Interval), \A i, j \in 1..Len(m) : i < j => m[i].hi < m[j].lo,
           NEW cs \in Nat, NEW ce \in Nat, NEW n \in 1..Len(m),
           NEW st, CursorSound(st, cs, ce, m, n - 1)
    PROVE  CursorSound(Advance(st, m[n], ce), cs, ce, m, n)
<1>. DEFINE r == m[n]
            res == Advance(st, r, ce)
            c == st.cursor
<1>1. r \in Interval /\ n \in Nat /\ Len(m) \in Nat OBVIOUS
<1>2. r.lo \in Nat /\ r.hi \in Nat /\ r.lo <= r.hi BY <1>1, IntervalTypes
<1>3. st \in State /\ c \in Nat /\ cs <= c BY DEF CursorSound, State
<1>4. res \in State BY <1>1, <1>3, AdvanceTyped
<1>5. \A x \in Nat : cs <= x /\ x < c => Within(x, m, Len(m)) BY DEF CursorSound
<1>6. CASE st.answer # "none"
  <2>1. res = st BY <1>6 DEF Advance
  <2>. QED BY <1>6, <2>1 DEF CursorSound
<1>7. CASE st.answer = "none" /\ r.lo > c
  <2>1. res.cursor = c /\ res.answer = "no" BY <1>3, <1>7 DEF Advance, State
  <2>2. c < ce /\ \A j \in 1..(n - 1) : m[j].hi <= c BY <1>7 DEF CursorSound
  <2>3. ASSUME NEW j \in 1..Len(m), m[j].lo <= c, c < m[j].hi PROVE FALSE
    <3>1. m[j].lo \in Nat /\ m[j].hi \in Nat BY IntervalTypes
    <3>2. CASE j \in 1..(n - 1) BY <1>3, <2>2, <2>3, <3>1, <3>2
    <3>3. CASE j = n BY <1>2, <1>3, <1>7, <2>3, <3>3
    <3>4. CASE n < j
      <4>1. r.hi < m[j].lo BY <3>4
      <4>. QED BY <1>2, <1>3, <1>7, <2>3, <3>1, <4>1
    <3>. QED BY <1>1, <3>2, <3>3, <3>4
  <2>4. ~ Within(c, m, Len(m)) BY <2>3 DEF Within
  <2>. QED BY <1>3, <1>4, <1>5, <2>1, <2>2, <2>4 DEF CursorSound
<1>8. CASE st.answer = "none" /\ ~ (r.lo > c)
  <2>. DEFINE d == Larger(c, r.hi)
  <2>1. res.cursor = d /\ res.answer = IF d >= ce THEN "yes" ELSE "none"
    BY <1>8 DEF Advance
  <2>2. d \in Nat /\ c <= d /\ r.hi <= d /\ (d = c \/ d = r.hi) BY <1>2, <1>3 DEF Larger
  <2>. HIDE DEF d
  <2>3. ASSUME NEW x \in Nat, cs <= x, x < d PROVE Within(x, m, Len(m))
    <3>1. CASE x < c BY <1>5, <2>3, <3>1
    <3>2. CASE ~ (x < c)
      <4>1. r.lo <= x /\ x < r.hi BY <1>2, <1>3, <1>8, <2>2, <2>3, <3>2
      <4>. QED BY <4>1 DEF Within
    <3>. QED BY <3>1, <3>2
  <2>4. ASSUME NEW j \in 1..n PROVE m[j].hi <= d
    <3>1. m[j].hi \in Nat BY <1>1, IntervalTypes
    <3>2. CASE j = n BY <2>2, <3>2
    <3>3. CASE j # n
      <4>1. j \in 1..(n - 1) BY <1>1, <3>3
      <4>2. m[j].hi <= c BY <1>8, <4>1 DEF CursorSound
      <4>. QED BY <1>3, <2>2, <3>1, <4>2
    <3>. QED BY <3>2, <3>3
  <2>5. cs <= d BY <1>3, <2>2
  <2>6. d >= ce <=> ~ (d < ce) BY <2>2
  <2>. HIDE DEF res
  <2>7. CASE d >= ce
    <3>1. res.answer = "yes" BY <2>1, <2>7
    <3>. QED BY <1>4, <2>1, <2>2, <2>3, <2>5, <2>7, <3>1 DEF CursorSound, res
  <2>8. CASE ~ (d >= ce)
    <3>1. res.answer = "none" BY <2>1, <2>8
    <3>. QED BY <1>4, <2>1, <2>3, <2>4, <2>5, <2>6, <2>8, <3>1 DEF CursorSound, res
  <2>. QED BY <2>7, <2>8
<1>. QED BY <1>6, <1>7, <1>8

(* is_covered answers yes exactly when every instant of the chunk is in    *)
(* some range, whatever their order, and however they overlap.             *)
LEMMA IsCoveredIsExact ==
    ASSUME NEW s \in Seq(Interval), NEW cs \in Nat, NEW ce \in Nat, cs < ce
    PROVE  is_covered(cs, ce, s)
                <=> \A x \in Nat : cs <= x /\ x < ce => Within(x, s, Len(s))
<1>. DEFINE m == merge_intervals(s)
            N == Len(m)
            st == CursorLoop(cs, ce, m)
            S == {n \in 0..N : CursorSound(st[n], cs, ce, m, n)}
            end == st[N]
<1>1. /\ m \in Seq(Interval) /\ N \in Nat
      /\ \A i, j \in 1..N : i < j => m[i].hi < m[j].lo
      /\ \A x \in Nat : Within(x, m, N) <=> Within(x, s, Len(s))
  BY MergeIsExact
<1>2. is_covered(cs, ce, s)
        <=> end.answer = "yes" \/ (end.answer = "none" /\ end.cursor >= ce)
  BY DEF is_covered
<1>. HIDE DEF m
<1>3. /\ st[0] = [cursor |-> cs, answer |-> "none"]
      /\ \A n \in 1..N : st[n] = Advance(st[n - 1], m[n], ce)
  BY <1>1, CursorLoopTurns
<1>. HIDE DEF st
<1>4. 0 \in S
  <2>1. CursorSound([cursor |-> cs, answer |-> "none"], cs, ce, m, 0)
    BY DEF CursorSound, State
  <2>. QED BY <1>1, <1>3, <2>1
<1>5. ASSUME NEW n \in 1..N, n - 1 \in S PROVE n \in S
  <2>1. CursorSound(st[n - 1], cs, ce, m, n - 1) BY <1>5
  <2>2. CursorSound(Advance(st[n - 1], m[n], ce), cs, ce, m, n) BY <1>1, <2>1, CursorTurn
  <2>3. n \in 0..N BY <1>1
  <2>. QED BY <1>3, <2>2, <2>3
<1>6. CursorSound(end, cs, ce, m, N)
  <2>. HIDE DEF S
  <2>1. \A n \in 0..N : n \in S BY <1>1, <1>4, <1>5, InductionUpTo
  <2>2. N \in S BY <1>1, <2>1
  <2>. QED BY <2>2 DEF S
<1>. HIDE DEF end
<1>7. end.cursor \in Nat /\ end.answer \in {"none", "yes", "no"} BY <1>6 DEF CursorSound, State
<1>8. CASE end.answer = "yes"
  <2>1. ce <= end.cursor /\ \A x \in Nat : cs <= x /\ x < end.cursor => Within(x, m, N)
    BY <1>6, <1>8 DEF CursorSound
  <2>2. \A x \in Nat : cs <= x /\ x < ce => Within(x, m, N) BY <1>7, <2>1
  <2>. QED BY <1>1, <1>2, <1>8, <2>2
<1>9. CASE end.answer # "yes"
  <2>1. end.cursor < ce /\ cs <= end.cursor /\ ~ Within(end.cursor, m, N)
    <3>1. CASE end.answer = "no" BY <1>6, <3>1 DEF CursorSound
    <3>2. CASE end.answer = "none"
      <4>1. /\ end.cursor < ce /\ cs <= end.cursor
            /\ \A j \in 1..N : m[j].hi <= end.cursor
        BY <1>6, <3>2 DEF CursorSound
      <4>2. \A j \in 1..N : m[j].hi \in Nat BY <1>1, IntervalTypes
      <4>3. ~ Within(end.cursor, m, N) BY <1>7, <4>1, <4>2 DEF Within
      <4>. QED BY <4>1, <4>3
    <3>. QED BY <1>7, <1>9, <3>1, <3>2
  <2>2. ~ (end.cursor >= ce) BY <1>7, <2>1
  <2>. QED BY <1>1, <1>2, <1>7, <1>9, <2>1, <2>2
<1>. QED BY <1>8, <1>9

-----------------------------------------------------------------------------
(* select_overlapping                                                      *)

(* One turn of the loop.                                                   *)
Keep(kept, r, w) == IF Overlaps(r, w) THEN Append(kept, r) ELSE kept

SelectTurns(g, s, w) == [n \in 0..Len(s) |-> IF n = 0 THEN <<>> ELSE Keep(g[n - 1], s[n], w)]

LEMMA SelectLoop ==
    ASSUME NEW s \in Seq(Interval), NEW w
    PROVE  \E c : /\ select_overlapping(s, w) = c[Len(s)]
                 /\ c[0] = <<>>
                 /\ \A n \in 1..Len(s) : c[n] = Keep(c[n - 1], s[n], w)
<1>. DEFINE N == Len(s)
            D == Seq(Interval)
            step == [e \in D \X (1..N) |-> Keep(e[1], s[e[2]], w)]
            c == CHOOSE g : g = SelectTurns(g, s, w)
<1>1. N \in Nat /\ <<>> \in D /\ s \in [1..N -> Interval] OBVIOUS
<1>2. select_overlapping(s, w) = c[N] BY DEF select_overlapping, SelectTurns, Keep
<1>3. ASSUME NEW kept \in D, NEW r \in Interval PROVE Keep(kept, r, w) \in D
  BY DEF Keep
<1>. HIDE DEF N, D
<1>4. step \in [D \X (1..N) -> D] BY <1>1, <1>3
<1>5. PICK f \in [0..N -> D] :
            f[0] = <<>> /\ \A n \in 1..N : f[n] = step[<<f[n - 1], n>>]
  <2>. HIDE DEF step
  <2>1. step \in Steps(N, D) BY <1>4 DEF Steps
  <2>2. PICK f : Loops(f, N, D, <<>>, step) BY <1>1, <2>1, LoopExists
  <2>. QED BY <2>2 DEF Loops
<1>6. ASSUME NEW n \in 1..N PROVE f[n] = Keep(f[n - 1], s[n], w)
  <2>1. n - 1 \in 0..N BY <1>1
  <2>2. <<f[n - 1], n>> \in D \X (1..N) BY <2>1
  <2>. QED BY <1>5, <2>2
<1>. HIDE DEF step
<1>7. f = SelectTurns(f, s, w)
  <2>1. \A n \in 0..N : f[n] = IF n = 0 THEN <<>> ELSE Keep(f[n - 1], s[n], w)
    <3>1. \A n \in 0..N : n = 0 \/ n \in 1..N BY <1>1
    <3>. QED BY <1>5, <1>6, <3>1
  <2>. QED BY <2>1 DEF SelectTurns, N
<1>8. c = SelectTurns(c, s, w) BY <1>7
<1>. HIDE DEF c
<1>9. c[0] = <<>> /\ \A n \in 1..N : c[n] = Keep(c[n - 1], s[n], w)
  <2>1. 0 \in 0..N /\ \A n \in 1..N : n \in 0..N /\ n # 0 BY <1>1
  <2>. QED BY <1>8, <2>1 DEF SelectTurns, N
<1>. QED BY <1>2, <1>9 DEF N

(* Of the first n objects the overlapping ones are kept.                   *)
KeptSound(kept, s, w, n) ==
    /\ kept \in Seq(Interval)
    /\ \A i \in 1..n : Overlaps(s[i], w) => \E j \in 1..Len(kept) : kept[j] = s[i]

LEMMA KeepTurn ==
    ASSUME NEW s \in Seq(Interval), NEW w, NEW n \in 1..Len(s),
           NEW kept, KeptSound(kept, s, w, n - 1)
    PROVE  KeptSound(Keep(kept, s[n], w), s, w, n)
<1>. DEFINE res == Keep(kept, s[n], w)
<1>1. /\ kept \in Seq(Interval) /\ Len(kept) \in Nat /\ s[n] \in Interval
      /\ \A i \in 1..(n - 1) : Overlaps(s[i], w) => \E j \in 1..Len(kept) : kept[j] = s[i]
  BY DEF KeptSound
<1>2. \A i \in 1..n : i = n \/ i \in 1..(n - 1) OBVIOUS
<1>3. CASE Overlaps(s[n], w)
  <2>1. res = Append(kept, s[n]) BY <1>3 DEF Keep
  <2>2. /\ res \in Seq(Interval) /\ Len(res) = Len(kept) + 1
        /\ \A j \in 1..Len(kept) : j \in 1..Len(res) /\ res[j] = kept[j]
        /\ Len(res) \in 1..Len(res) /\ res[Len(res)] = s[n]
    BY <1>1, <2>1
  <2>. HIDE DEF res
  <2>3. \A i \in 1..n : Overlaps(s[i], w) => \E j \in 1..Len(res) : res[j] = s[i]
    BY <1>1, <1>2, <2>2
  <2>. QED BY <2>2, <2>3 DEF KeptSound, res
<1>4. CASE ~ Overlaps(s[n], w)
  <2>1. res = kept BY <1>4 DEF Keep
  <2>. QED BY <1>1, <1>2, <1>4, <2>1 DEF KeptSound
<1>. QED BY <1>3, <1>4

(* Every overlapping object is among those select_overlapping returns.     *)
LEMMA SelectKeeps ==
    ASSUME NEW s \in Seq(Interval), NEW w
    PROVE  KeptSound(select_overlapping(s, w), s, w, Len(s))
<1>1. PICK c : /\ select_overlapping(s, w) = c[Len(s)]
               /\ c[0] = <<>>
               /\ \A n \in 1..Len(s) : c[n] = Keep(c[n - 1], s[n], w)
  BY SelectLoop
<1>. DEFINE N == Len(s)
            S == {n \in 0..N : KeptSound(c[n], s, w, n)}
<1>2. N \in Nat OBVIOUS
<1>3. 0 \in S
  <2>1. KeptSound(<<>>, s, w, 0) BY DEF KeptSound
  <2>. QED BY <1>1, <1>2, <2>1
<1>4. ASSUME NEW n \in 1..N, n - 1 \in S PROVE n \in S
  <2>1. KeptSound(c[n - 1], s, w, n - 1) BY <1>4
  <2>2. KeptSound(Keep(c[n - 1], s[n], w), s, w, n) BY <2>1, KeepTurn
  <2>3. n \in 0..N BY <1>2
  <2>. QED BY <1>1, <2>2, <2>3
<1>5. N \in S
  <2>. HIDE DEF S, N
  <2>1. \A n \in 0..N : n \in S BY <1>2, <1>3, <1>4, InductionUpTo
  <2>. QED BY <1>2, <2>1
<1>. QED BY <1>1, <1>5

-----------------------------------------------------------------------------
(* The two answers, in every reachable state                               *)

VerdictOf(w, s) ==
    [window |-> w, covered |-> is_covered(w.from, w.to, s), kept |-> select_overlapping(s, w)]

(* The recorded ranges are ranges, and the verdict is about all of them.   *)
PlannerInv ==
    /\ objects \in Seq(Interval)
    /\ verdict = <<>> \/ \E w \in Windows : verdict = VerdictOf(w, objects)

LEMMA PlannerStart == CoverageInit => PlannerInv
BY DEF CoverageInit, PlannerInv

LEMMA PlannerStep == PlannerInv /\ [CoverageNext]_coverageVars => PlannerInv'
<1>1. SUFFICES ASSUME PlannerInv, [CoverageNext]_coverageVars PROVE PlannerInv' OBVIOUS
<1>2. ASSUME NEW r \in Interval, Record(r) PROVE PlannerInv'
  BY <1>1, <1>2 DEF PlannerInv, Record
<1>3. ASSUME NEW w \in Windows, Ask(w) PROVE PlannerInv'
  BY <1>1, <1>3 DEF PlannerInv, Ask, VerdictOf
<1>4. CASE UNCHANGED coverageVars BY <1>1, <1>4 DEF PlannerInv, coverageVars
<1>. QED BY <1>1, <1>2, <1>3, <1>4 DEF CoverageNext

LEMMA PlannerInvariant == CoverageSpec => []PlannerInv
BY PlannerStart, PlannerStep, PTL DEF CoverageSpec

LEMMA PlannersAgree == PlannerInv => CoveredIffNoGap /\ PruningKeepsRows
<1>1. SUFFICES ASSUME PlannerInv, verdict # <<>>
               PROVE  CoveredIffNoGap /\ PruningKeepsRows
  BY DEF CoveredIffNoGap, PruningKeepsRows, Asked
<1>2. objects \in Seq(Interval) BY <1>1 DEF PlannerInv
<1>3. PICK w \in Windows : verdict = VerdictOf(w, objects) BY <1>1 DEF PlannerInv
<1>4. /\ window = w
      /\ verdict.covered = is_covered(w.from, w.to, objects)
      /\ verdict.kept = select_overlapping(objects, w)
  BY <1>3 DEF VerdictOf, window
<1>5. w.from \in Nat /\ w.to \in Nat /\ w.from < w.to
  BY CoverageBounds DEF Windows, Time
<1>6. CoveredIffNoGap
  <2>1. is_covered(w.from, w.to, objects)
            <=> \A x \in Nat : w.from <= x /\ x < w.to => Within(x, objects, Len(objects))
    BY <1>2, <1>5, IsCoveredIsExact
  <2>2. CoveredBy(w.from, w.to, Objects)
            <=> \A x \in Nat : w.from <= x /\ x < w.to => Within(x, objects, Len(objects))
    <3>. DEFINE Hit(x) == \E m \in Objects : m.lo <= x /\ x < m.hi
                ce == w.to
    <3>1. \A x : Hit(x) <=> Within(x, objects, Len(objects)) BY DEF Objects, Within
    <3>2. CoveredBy(w.from, w.to, Objects) <=> \A x \in w.from..(ce - 1) : Hit(x)
      BY DEF CoveredBy
    <3>. HIDE DEF Hit, ce
    <3>3. ce \in Nat /\ w.from \in Nat BY <1>5 DEF ce
    <3>4. \A x : x \in w.from..(ce - 1) <=> x \in Nat /\ w.from <= x /\ x < ce BY <3>3
    <3>. QED BY <3>1, <3>2, <3>4 DEF ce
  <2>. QED BY <1>4, <2>1, <2>2 DEF CoveredIffNoGap
<1>7. PruningKeepsRows
  <2>1. ASSUME NEW r \in Objects, NEW t \in Time,
               r.lo <= t, t <= r.hi, w.from <= t, t <= w.to
        PROVE  \E j \in 1..Len(verdict.kept) : verdict.kept[j] = r
    <3>1. PICK i \in 1..Len(objects) : r = objects[i] BY DEF Objects
    <3>2. objects[i] \in Interval /\ t \in Nat BY <1>2, CoverageBounds DEF Time
    <3>3. Overlaps(r, w) BY <1>5, <2>1, <3>1, <3>2, IntervalTypes DEF Overlaps
    <3>4. KeptSound(verdict.kept, objects, w, Len(objects)) BY <1>2, <1>4, SelectKeeps
    <3>. QED BY <3>1, <3>3, <3>4 DEF KeptSound
  <2>. QED BY <1>4, <2>1 DEF PruningKeepsRows
<1>. QED BY <1>6, <1>7

(* is_covered answers yes exactly when the manifest's ranges leave no      *)
(* instant of the chunk out, whatever ranges were recorded in whatever     *)
(* order: eviction neither drops a chunk that cold does not hold nor       *)
(* keeps one that it does.                                                 *)
THEOREM CoverageIsExact == CoverageSpec => []CoveredIffNoGap
BY PlannerInvariant, PlannersAgree, PTL

(* select_overlapping passes every object with a row in the window of the  *)
(* query, however many objects the manifest lists.                         *)
THEOREM PruningIsSafe == CoverageSpec => []PruningKeepsRows
BY PlannerInvariant, PlannersAgree, PTL

(* What satisfies the equations of a typed loop is one.                    *)
LEMMA LoopTyped ==
    ASSUME NEW N \in Nat, NEW D, NEW c,
           c = [n \in 0..N |-> c[n]],
           c[0] \in D,
           \A n \in 1..N : c[n - 1] \in D => c[n] \in D
    PROVE  c \in [0..N -> D]
<1>. DEFINE S == {n \in 0..N : c[n] \in D}
<1>1. 0 \in S OBVIOUS
<1>2. ASSUME NEW n \in 1..N, n - 1 \in S PROVE n \in S BY <1>2
<1>. HIDE DEF S
<1>3. \A n \in 0..N : n \in S BY <1>1, <1>2, InductionUpTo
<1>4. \A n \in 0..N : c[n] \in D BY <1>3 DEF S
<1>. QED BY <1>4

-----------------------------------------------------------------------------
(* The loops of the parser                                                 *)

ScanState(S) ==
    [parts : Seq(Seq(S)), last : Seq(S), pair : BOOLEAN, quoted : BOOLEAN]

LEMMA ScanStepTyped ==
    ASSUME NEW S, NEW s \in Seq(S), NEW sep, NEW quotes, NEW j \in 1..Len(s),
           NEW st \in ScanState(S)
    PROVE  ScanStep(s, sep, quotes, st, j) \in ScanState(S)
<1>1. /\ s[j] \in S /\ st.parts \in Seq(Seq(S)) /\ st.last \in Seq(S)
      /\ st.pair \in BOOLEAN /\ st.quoted \in BOOLEAN
  BY ElementOfSeq DEF ScanState
<1>. DEFINE add == [st EXCEPT !.last = Append(@, s[j]), !.pair = FALSE]
            cut == [st EXCEPT !.parts = Append(@, st.last), !.last = <<>>]
<1>2. add \in ScanState(S)
  <2>1. Append(st.last, s[j]) \in Seq(S) BY <1>1, AppendProperties
  <2>. QED BY <1>1, <2>1 DEF ScanState
<1>3. [add EXCEPT !.quoted = ~ @] \in ScanState(S) /\ [add EXCEPT !.pair = TRUE] \in ScanState(S)
  <2>1. add.quoted \in BOOLEAN BY <1>2 DEF ScanState
  <2>. HIDE DEF add
  <2>. QED BY <1>2, <2>1 DEF ScanState
<1>4. cut \in ScanState(S)
  <2>1. Append(st.parts, st.last) \in Seq(Seq(S)) /\ <<>> \in Seq(S)
    BY <1>1, AppendProperties, EmptySeq
  <2>. QED BY <1>1, <2>1 DEF ScanState
<1>. QED BY <1>2, <1>3, <1>4 DEF ScanStep

LEMMA ScanLoopTurns ==
    ASSUME NEW S, NEW s \in Seq(S), NEW sep, NEW quotes
    PROVE  /\ ScanLoop(s, sep, quotes) \in [0..Len(s) -> ScanState(S)]
           /\ ScanLoop(s, sep, quotes)[0] = Fresh
           /\ \A n \in 1..Len(s) :
                ScanLoop(s, sep, quotes)[n]
                    = ScanStep(s, sep, quotes, ScanLoop(s, sep, quotes)[n - 1], n)
<1>. DEFINE N == Len(s)
            D == ScanState(S)
            Turn(st, n) == ScanStep(s, sep, quotes, st, n)
            step == [e \in D \X (1..N) |-> Turn(e[1], e[2])]
            Turns(g) == [n \in 0..N |-> IF n = 0 THEN Fresh ELSE Turn(g[n - 1], n)]
<1>1. N \in Nat /\ Fresh \in D BY EmptySeq DEF ScanState, Fresh
<1>2. ScanLoop(s, sep, quotes) = CHOOSE g : g = Turns(g) BY DEF ScanLoop
<1>3. \A st \in D, n \in 1..N : Turn(st, n) \in D BY ScanStepTyped
<1>. HIDE DEF N, D, Turn
<1>4. step \in Steps(N, D) BY <1>3 DEF Steps
<1>5. PICK f : Loops(f, N, D, Fresh, step)
  <2>. HIDE DEF step
  <2>. QED BY <1>1, <1>4, LoopExists
<1>6. f = Turns(f)
  <2>1. f \in [0..N -> D] /\ f[0] = Fresh /\ \A n \in 1..N : f[n] = step[<<f[n - 1], n>>]
    BY <1>5 DEF Loops
  <2>2. ASSUME NEW n \in 1..N PROVE f[n] = Turn(f[n - 1], n)
    <3>1. <<f[n - 1], n>> \in D \X (1..N) BY <1>1, <2>1
    <3>. QED BY <2>1, <3>1
  <2>3. \A n \in 0..N : f[n] = IF n = 0 THEN Fresh ELSE Turn(f[n - 1], n)
    <3>1. \A n \in 0..N : n = 0 \/ n \in 1..N BY <1>1
    <3>. QED BY <2>1, <2>2, <3>1
  <2>. QED BY <2>1, <2>3
<1>. DEFINE c == CHOOSE g : g = Turns(g)
<1>7. c = Turns(c) BY <1>6
<1>. HIDE DEF c, step
<1>8. c[0] = Fresh /\ \A n \in 1..N : c[n] = Turn(c[n - 1], n)
  <2>1. 0 \in 0..N /\ \A n \in 1..N : n \in 0..N /\ n # 0 BY <1>1
  <2>. QED BY <1>7, <2>1
<1>9. c \in [0..N -> D]
  <2>1. c = [n \in 0..N |-> c[n]] BY <1>7
  <2>2. \A n \in 1..N : c[n - 1] \in D => c[n] \in D BY <1>3, <1>8
  <2>. QED BY <1>1, <1>8, <2>1, <2>2, LoopTyped
<1>. QED BY <1>2, <1>8, <1>9 DEF c, N, D, Turn

LEMMA EscapesTyped ==
    ASSUME NEW s, NEW delims, NEW j
    PROVE  Escapes(s, delims, j) \in BOOLEAN
BY DEF Escapes

UnescapeState(S) == [out : Seq(S), pair : BOOLEAN]
Unread == [out |-> <<>>, pair |-> FALSE]

LEMMA UnescapeStepTyped ==
    ASSUME NEW S, NEW s \in Seq(S), NEW delims, NEW j \in 1..Len(s), NEW st \in UnescapeState(S)
    PROVE  UnescapeStep(s, delims, st, j) \in UnescapeState(S)
<1>1. st.out \in Seq(S) /\ st.pair \in BOOLEAN BY DEF UnescapeState
<1>2. Append(st.out, s[j]) \in Seq(S) BY <1>1, ElementOfSeq, AppendProperties
<1>3. [st EXCEPT !.pair = TRUE] \in UnescapeState(S) BY <1>1 DEF UnescapeState
<1>4. [out |-> Append(st.out, s[j]), pair |-> FALSE] \in UnescapeState(S)
  BY <1>2 DEF UnescapeState
<1>. QED BY <1>3, <1>4 DEF UnescapeStep

LEMMA UnescapeLoopTurns ==
    ASSUME NEW S, NEW s \in Seq(S), NEW delims
    PROVE  /\ UnescapeLoop(s, delims) \in [0..Len(s) -> UnescapeState(S)]
           /\ UnescapeLoop(s, delims)[0] = Unread
           /\ \A n \in 1..Len(s) :
                UnescapeLoop(s, delims)[n] = UnescapeStep(s, delims, UnescapeLoop(s, delims)[n - 1], n)
<1>. DEFINE N == Len(s)
            D == UnescapeState(S)
            Turn(st, n) == UnescapeStep(s, delims, st, n)
            step == [e \in D \X (1..N) |-> Turn(e[1], e[2])]
            Turns(g) == [n \in 0..N |-> IF n = 0 THEN Unread ELSE Turn(g[n - 1], n)]
<1>1. N \in Nat /\ Unread \in D BY EmptySeq DEF UnescapeState, Unread
<1>2. UnescapeLoop(s, delims) = CHOOSE g : g = Turns(g) BY DEF UnescapeLoop, Unread
<1>3. \A st \in D, n \in 1..N : Turn(st, n) \in D BY UnescapeStepTyped
<1>. HIDE DEF N, D, Turn
<1>4. step \in Steps(N, D) BY <1>3 DEF Steps
<1>5. PICK f : Loops(f, N, D, Unread, step)
  <2>. HIDE DEF step
  <2>. QED BY <1>1, <1>4, LoopExists
<1>6. f = Turns(f)
  <2>1. f \in [0..N -> D] /\ f[0] = Unread /\ \A n \in 1..N : f[n] = step[<<f[n - 1], n>>]
    BY <1>5 DEF Loops
  <2>2. ASSUME NEW n \in 1..N PROVE f[n] = Turn(f[n - 1], n)
    <3>1. <<f[n - 1], n>> \in D \X (1..N) BY <1>1, <2>1
    <3>. QED BY <2>1, <3>1
  <2>3. \A n \in 0..N : f[n] = IF n = 0 THEN Unread ELSE Turn(f[n - 1], n)
    <3>1. \A n \in 0..N : n = 0 \/ n \in 1..N BY <1>1
    <3>. QED BY <2>1, <2>2, <3>1
  <2>. QED BY <2>1, <2>3
<1>. DEFINE c == CHOOSE g : g = Turns(g)
<1>7. c = Turns(c) BY <1>6
<1>. HIDE DEF c, step
<1>8. c[0] = Unread /\ \A n \in 1..N : c[n] = Turn(c[n - 1], n)
  <2>1. 0 \in 0..N /\ \A n \in 1..N : n \in 0..N /\ n # 0 BY <1>1
  <2>. QED BY <1>7, <2>1
<1>9. c \in [0..N -> D]
  <2>1. c = [n \in 0..N |-> c[n]] BY <1>7
  <2>2. \A n \in 1..N : c[n - 1] \in D => c[n] \in D BY <1>3, <1>8
  <2>. QED BY <1>1, <1>8, <2>1, <2>2, LoopTyped
<1>. QED BY <1>2, <1>8, <1>9 DEF c, N, D, Turn

(* What is read of a section: its pairs are among those in W.              *)
PairsState(W) ==
    [status : {"ok", "rejected", "raises"},
     pairs : UNION {[X -> {w.value : w \in W}] : X \in SUBSET {w.key : w \in W}}]
NoPairs == [status |-> "ok", pairs |-> <<>>]

LEMMA WithPairTyped ==
    ASSUME NEW W, NEW w \in W, NEW st \in PairsState(W)
    PROVE  WithPair(st, w) \in PairsState(W)
<1>. DEFINE K == {v.key : v \in W}
            V == {v.value : v \in W}
            F == UNION {[X -> V] : X \in SUBSET K}
            more == [k \in DOMAIN st.pairs \cup {w.key} |->
                        IF k = w.key THEN w.value ELSE st.pairs[k]]
<1>1. st.status \in {"ok", "rejected", "raises"} /\ st.pairs \in F BY DEF PairsState
<1>2. w.key \in K /\ w.value \in V OBVIOUS
<1>. HIDE DEF K, V
<1>3. PICK X \in SUBSET K : st.pairs \in [X -> V] BY <1>1
<1>4. more \in [X \cup {w.key} -> V] /\ X \cup {w.key} \in SUBSET K BY <1>2, <1>3
<1>5. more \in F BY <1>4
<1>. HIDE DEF F, more
<1>6. PairsState(W) = [status : {"ok", "rejected", "raises"}, pairs : F]
  BY DEF PairsState, F, K, V
<1>7. WithPair(st, w) \in {[st EXCEPT !.status = "rejected"], [st EXCEPT !.status = "raises"],
                           [st EXCEPT !.pairs = more]}
  BY DEF WithPair, more
<1>8. \A x \in {"rejected", "raises"} : [st EXCEPT !.status = x] \in PairsState(W)
  BY <1>1, <1>6
<1>9. [st EXCEPT !.pairs = more] \in PairsState(W) BY <1>1, <1>5, <1>6
<1>. QED BY <1>7, <1>8, <1>9

PairOf(part, isField) == Pair(_split_top(part, "=", isField), isField)
PairsOf(parts, isField) == {PairOf(parts[n], isField) : n \in 1..Len(parts)}

LEMMA AddPairTyped ==
    ASSUME NEW W, NEW st \in PairsState(W), NEW part, NEW isField, PairOf(part, isField) \in W
    PROVE  AddPair(st, part, isField) \in PairsState(W)
BY WithPairTyped DEF AddPair, PairOf

LEMMA PairsLoopTurns ==
    ASSUME NEW T, NEW parts \in Seq(T), NEW isField
    PROVE  /\ PairsLoop(parts, isField) \in [0..Len(parts) -> PairsState(PairsOf(parts, isField))]
           /\ PairsLoop(parts, isField)[0] = NoPairs
           /\ \A n \in 1..Len(parts) :
                PairsLoop(parts, isField)[n]
                    = AddPair(PairsLoop(parts, isField)[n - 1], parts[n], isField)
<1>. DEFINE N == Len(parts)
            D == PairsState(PairsOf(parts, isField))
            Turn(st, n) == AddPair(st, parts[n], isField)
            step == [e \in D \X (1..N) |-> Turn(e[1], e[2])]
            Turns(g) == [n \in 0..N |-> IF n = 0 THEN NoPairs ELSE Turn(g[n - 1], n)]
<1>1. N \in Nat /\ NoPairs \in D
  <2>. DEFINE V == {w.value : w \in PairsOf(parts, isField)}
              K == {w.key : w \in PairsOf(parts, isField)}
  <2>1. <<>> \in [{} -> V] /\ {} \in SUBSET K OBVIOUS
  <2>. DEFINE F == UNION {[X -> V] : X \in SUBSET K}
  <2>2. <<>> \in F BY <2>1
  <2>3. D = [status : {"ok", "rejected", "raises"}, pairs : F] BY DEF PairsState
  <2>. HIDE DEF F, D
  <2>4. NoPairs \in D BY <2>2, <2>3 DEF NoPairs
  <2>. QED BY <2>4
<1>2. PairsLoop(parts, isField) = CHOOSE g : g = Turns(g) BY DEF PairsLoop, NoPairs
<1>3. \A st \in D, n \in 1..N : Turn(st, n) \in D
  <2>1. \A n \in 1..N : PairOf(parts[n], isField) \in PairsOf(parts, isField) BY DEF PairsOf
  <2>. QED BY <2>1, AddPairTyped
<1>. HIDE DEF N, D, Turn
<1>4. step \in Steps(N, D) BY <1>3 DEF Steps
<1>5. PICK f : Loops(f, N, D, NoPairs, step)
  <2>. HIDE DEF step
  <2>. QED BY <1>1, <1>4, LoopExists
<1>6. f = Turns(f)
  <2>1. f \in [0..N -> D] /\ f[0] = NoPairs /\ \A n \in 1..N : f[n] = step[<<f[n - 1], n>>]
    BY <1>5 DEF Loops
  <2>2. ASSUME NEW n \in 1..N PROVE f[n] = Turn(f[n - 1], n)
    <3>1. <<f[n - 1], n>> \in D \X (1..N) BY <1>1, <2>1
    <3>. QED BY <2>1, <3>1
  <2>3. \A n \in 0..N : f[n] = IF n = 0 THEN NoPairs ELSE Turn(f[n - 1], n)
    <3>1. \A n \in 0..N : n = 0 \/ n \in 1..N BY <1>1
    <3>. QED BY <2>1, <2>2, <3>1
  <2>. QED BY <2>1, <2>3
<1>. DEFINE c == CHOOSE g : g = Turns(g)
<1>7. c = Turns(c) BY <1>6
<1>. HIDE DEF c, step
<1>8. c[0] = NoPairs /\ \A n \in 1..N : c[n] = Turn(c[n - 1], n)
  <2>1. 0 \in 0..N /\ \A n \in 1..N : n \in 0..N /\ n # 0 BY <1>1
  <2>. QED BY <1>7, <2>1
<1>9. c \in [0..N -> D]
  <2>1. c = [n \in 0..N |-> c[n]] BY <1>7
  <2>2. \A n \in 1..N : c[n - 1] \in D => c[n] \in D BY <1>3, <1>8
  <2>. QED BY <1>1, <1>8, <2>1, <2>2, LoopTyped
<1>. QED BY <1>2, <1>8, <1>9 DEF c, N, D, Turn

LEMMA SplitTyped ==
    ASSUME NEW S, NEW s \in Seq(S), NEW sep, NEW quotes
    PROVE  _split_top(s, sep, quotes) \in Seq(Seq(S)) \ {<<>>}
<1>. DEFINE end == ScanLoop(s, sep, quotes)[Len(s)]
<1>1. end \in ScanState(S)
  <2>1. Len(s) \in 0..Len(s) BY LenProperties
  <2>. QED BY <2>1, ScanLoopTurns
<1>2. end.parts \in Seq(Seq(S)) /\ end.last \in Seq(S) BY <1>1 DEF ScanState
<1>3. _split_top(s, sep, quotes) = Append(end.parts, end.last) BY DEF _split_top
<1>. HIDE DEF end
<1>4. /\ Append(end.parts, end.last) \in Seq(Seq(S))
      /\ Append(end.parts, end.last) # <<>>
  BY <1>2, AppendProperties
<1>. QED BY <1>3, <1>4

Statuses == {"ok", "rejected", "raises"}

LEMMA PairsStatus ==
    ASSUME NEW T, NEW parts \in Seq(T), NEW isField
    PROVE  Pairs(parts, isField).status \in Statuses
<1>1. Len(parts) \in 0..Len(parts) BY LenProperties
<1>2. Pairs(parts, isField) \in PairsState(PairsOf(parts, isField))
  BY <1>1, PairsLoopTurns DEF Pairs
<1>. QED BY <1>2 DEF PairsState, Statuses

LEMMA LeastExists ==
    ASSUME NEW T \in SUBSET Nat, T # {}
    PROVE  \E j \in T : \A k \in T : j <= k
<1>. DEFINE R == {n \in Nat : \A k \in T : ~ (k <= n)}
<1>1. SUFFICES ASSUME \A j \in T : \E k \in T : ~ (j <= k) PROVE FALSE OBVIOUS
<1>2. 0 \in R
  <2>1. 0 \notin T BY <1>1
  <2>. QED BY <2>1
<1>3. ASSUME NEW n \in Nat, n \in R PROVE n + 1 \in R
  <2>1. \A k \in T : k <= n + 1 => k = n + 1 BY <1>3
  <2>2. n + 1 \notin T
    <3>1. ASSUME n + 1 \in T PROVE FALSE
      <4>1. PICK k \in T : ~ (n + 1 <= k) BY <1>1, <3>1
      <4>. QED BY <1>3, <4>1
    <3>. QED BY <3>1
  <2>. QED BY <2>1, <2>2
<1>. HIDE DEF R
<1>4. \A n \in Nat : n \in R BY <1>2, <1>3, Induction
<1>5. PICK n \in T : TRUE OBVIOUS
<1>6. n \in R BY <1>4
<1>. QED BY <1>6 DEF R

LEMMA GreatestExists ==
    ASSUME NEW N \in Nat, NEW T \in SUBSET (1..N), T # {}
    PROVE  \E j \in T : \A k \in T : j >= k
<1>. DEFINE R == {N - k : k \in T}
<1>1. R \in SUBSET Nat /\ R # {}
  <2>1. \A k \in T : N - k \in Nat OBVIOUS
  <2>2. \E k \in T : N - k \in R OBVIOUS
  <2>. QED BY <2>1, <2>2
<1>. HIDE DEF R
<1>2. PICK r \in R : \A x \in R : r <= x BY <1>1, LeastExists
<1>3. PICK j \in T : r = N - j BY DEF R
<1>4. \A k \in T : N - j <= N - k BY <1>2, <1>3 DEF R
<1>. QED BY <1>4

LEMMA StrippedTyped ==
    ASSUME NEW S, NEW s \in Seq(S)
    PROVE  Stripped(s) \in Seq(S)
<1>. DEFINE ink == {j \in DOMAIN s : s[j] # " "}
            a == CHOOSE j \in ink : \A k \in ink : j <= k
            b == CHOOSE j \in ink : \A k \in ink : j >= k
<1>1. CASE ink = {} BY <1>1, EmptySeq DEF Stripped
<1>2. CASE ink # {}
  <2>1. Len(s) \in Nat /\ ink \in SUBSET (1..Len(s)) BY LenProperties
  <2>2. a \in 1..Len(s) /\ b \in 1..Len(s)
    <3>. HIDE DEF ink
    <3>1. ink \in SUBSET Nat BY <2>1
    <3>2. \E j \in ink : \A k \in ink : j <= k BY <1>2, <3>1, LeastExists
    <3>3. \E j \in ink : \A k \in ink : j >= k BY <1>2, <2>1, GreatestExists
    <3>4. a \in ink /\ b \in ink BY <3>2, <3>3
    <3>. QED BY <2>1, <3>4
  <2>3. Stripped(s) = SubSeq(s, a, b) BY <1>2 DEF Stripped
  <2>. HIDE DEF a, b
  <2>4. a \in Int /\ b \in Int /\ \A i \in a..b : i \in 1..Len(s)
    <3>1. Len(s) \in Nat BY LenProperties
    <3>. QED BY <2>2, <3>1
  <2>5. \A i \in a..b : s[i] \in S BY <2>4, ElementOfSeq
  <2>. QED BY <2>3, <2>4, <2>5, SubSeqProperties
<1>. QED BY <1>1, <1>2

LEMMA LineStatus ==
    ASSUME NEW S, NEW line \in Seq(S)
    PROVE  parse_line(line).status \in Statuses
<1>. DEFINE s == Stripped(line)
            sections == _split_top_space(s)
<1>1. s \in Seq(S) BY StrippedTyped
<1>. HIDE DEF s
<1>2. sections \in Seq(Seq(S)) /\ sections # <<>> BY <1>1, SplitTyped DEF _split_top_space
<1>. HIDE DEF sections
<1>3. Failure("rejected").status \in Statuses /\ Failure("raises").status \in Statuses
  BY DEF Failure, Statuses
<1>4. ASSUME NEW m, NEW tags, NEW fields, NEW ts,
             tags.status \in Statuses, fields.status \in Statuses
      PROVE  PointOrError(m, tags, fields, ts).status \in Statuses
  BY <1>4 DEF PointOrError, Failure, Statuses
<1>5. ParsedSections(sections).status \in Statuses
  <2>1. CASE Len(sections) < 2 BY <1>3, <2>1 DEF ParsedSections
  <2>2. CASE ~ (Len(sections) < 2)
    <3>. DEFINE head == _split_top(sections[1], ",", FALSE)
                fields == _split_top(sections[2], ",", TRUE)
    <3>1. sections[1] \in Seq(S) /\ sections[2] \in Seq(S)
      <4>1. 1 \in 1..Len(sections) /\ 2 \in 1..Len(sections) BY <1>2, <2>2, LenProperties
      <4>. QED BY <1>2, <4>1, ElementOfSeq
    <3>2. head \in Seq(Seq(S)) /\ head # <<>> /\ fields \in Seq(Seq(S)) BY <3>1, SplitTyped
    <3>. HIDE DEF head, fields
    <3>3. Tail(head) \in Seq(Seq(S)) BY <3>2, HeadTailProperties
    <3>4. Pairs(Tail(head), FALSE).status \in Statuses /\ Pairs(fields, TRUE).status \in Statuses
      BY <3>2, <3>3, PairsStatus
    <3>5. ParsedSections(sections) = ParsedHead(head, fields, Stamp(sections))
      BY <2>2 DEF ParsedSections, head, fields
    <3>. QED BY <1>4, <3>4, <3>5 DEF ParsedHead
  <2>. QED BY <2>1, <2>2
<1>. QED BY <1>3, <1>5 DEF parse_line, s, sections

-----------------------------------------------------------------------------
(* Bodies of several lines                                                 *)

BatchState(P) == [line : Nat, points : Seq(P), errors : Seq(Nat), aborted : BOOLEAN]
NoLines == [line |-> 0, points |-> <<>>, errors |-> <<>>, aborted |-> FALSE]

LEMMA AddLineTyped ==
    ASSUME NEW P, NEW p \in P, p.status \in Statuses, NEW st \in BatchState(P)
    PROVE  AddLine(st, p) \in BatchState(P)
<1>1. /\ st.line \in Nat /\ st.points \in Seq(P) /\ st.errors \in Seq(Nat)
      /\ st.aborted \in BOOLEAN
  BY DEF BatchState
<1>2. Append(st.points, p) \in Seq(P) /\ Append(st.errors, st.line) \in Seq(Nat)
  BY <1>1, AppendProperties
<1>3. /\ [st EXCEPT !.points = Append(@, p)] \in BatchState(P)
      /\ [st EXCEPT !.errors = Append(@, st.line)] \in BatchState(P)
      /\ [st EXCEPT !.aborted = TRUE] \in BatchState(P)
  BY <1>1, <1>2 DEF BatchState
<1>. QED BY <1>3 DEF AddLine, Statuses

LEMMA NextLineTyped ==
    ASSUME NEW P, NEW line, parse_line(line) \in P, parse_line(line).status \in Statuses,
           NEW st \in BatchState(P)
    PROVE  NextLine(st, line) \in BatchState(P)
<1>. DEFINE counted == [st EXCEPT !.line = Counted(st)]
<1>1. counted \in BatchState(P) BY DEF BatchState, Counted
<1>. HIDE DEF counted
<1>2. AddLine(counted, parse_line(line)) \in BatchState(P) BY <1>1, AddLineTyped
<1>. QED BY <1>1, <1>2 DEF NextLine, counted

ParsedLines(lines) == {parse_line(lines[n]) : n \in 1..Len(lines)}

LEMMA BatchLoopTurns ==
    ASSUME NEW S, NEW lines \in Seq(Seq(S))
    PROVE  /\ BatchLoop(lines) \in [0..Len(lines) -> BatchState(ParsedLines(lines))]
           /\ BatchLoop(lines)[0] = NoLines
           /\ \A n \in 1..Len(lines) : BatchLoop(lines)[n] = NextLine(BatchLoop(lines)[n - 1], lines[n])
<1>. DEFINE N == Len(lines)
            D == BatchState(ParsedLines(lines))
            Turn(st, n) == NextLine(st, lines[n])
            step == [e \in D \X (1..N) |-> Turn(e[1], e[2])]
            Turns(g) == [n \in 0..N |-> IF n = 0 THEN NoLines ELSE Turn(g[n - 1], n)]
<1>1. N \in Nat /\ NoLines \in D BY EmptySeq DEF BatchState, NoLines
<1>2. BatchLoop(lines) = CHOOSE g : g = Turns(g) BY DEF BatchLoop, NoLines
<1>3. \A st \in D, n \in 1..N : Turn(st, n) \in D
  <2>1. ASSUME NEW n \in 1..N
        PROVE  parse_line(lines[n]) \in ParsedLines(lines) /\ parse_line(lines[n]).status \in Statuses
    <3>1. lines[n] \in Seq(S) BY ElementOfSeq
    <3>. QED BY <3>1, LineStatus DEF ParsedLines
  <2>. QED BY <2>1, NextLineTyped
<1>. HIDE DEF N, D, Turn
<1>4. step \in Steps(N, D) BY <1>3 DEF Steps
<1>5. PICK f : Loops(f, N, D, NoLines, step)
  <2>. HIDE DEF step
  <2>. QED BY <1>1, <1>4, LoopExists
<1>6. f = Turns(f)
  <2>1. f \in [0..N -> D] /\ f[0] = NoLines /\ \A n \in 1..N : f[n] = step[<<f[n - 1], n>>]
    BY <1>5 DEF Loops
  <2>2. ASSUME NEW n \in 1..N PROVE f[n] = Turn(f[n - 1], n)
    <3>1. <<f[n - 1], n>> \in D \X (1..N) BY <1>1, <2>1
    <3>. QED BY <2>1, <3>1
  <2>3. \A n \in 0..N : f[n] = IF n = 0 THEN NoLines ELSE Turn(f[n - 1], n)
    <3>1. \A n \in 0..N : n = 0 \/ n \in 1..N BY <1>1
    <3>. QED BY <2>1, <2>2, <3>1
  <2>. QED BY <2>1, <2>3
<1>. DEFINE c == CHOOSE g : g = Turns(g)
<1>7. c = Turns(c) BY <1>6
<1>. HIDE DEF c, step
<1>8. c[0] = NoLines /\ \A n \in 1..N : c[n] = Turn(c[n - 1], n)
  <2>1. 0 \in 0..N /\ \A n \in 1..N : n \in 0..N /\ n # 0 BY <1>1
  <2>. QED BY <1>7, <2>1
<1>9. c \in [0..N -> D]
  <2>1. c = [n \in 0..N |-> c[n]] BY <1>7
  <2>2. \A n \in 1..N : c[n - 1] \in D => c[n] \in D BY <1>3, <1>8
  <2>. QED BY <1>1, <1>8, <2>1, <2>2, LoopTyped
<1>. QED BY <1>2, <1>8, <1>9 DEF c, N, D, Turn

(* q lists the numbers of T from the least to the greatest.                *)
Enumerates(q, T) ==
    /\ q \in Seq(Nat)
    /\ T = {q[i] : i \in 1..Len(q)}
    /\ \A i, j \in 1..Len(q) : i < j => q[i] < q[j]

LEMMA EnumerationIsInOrder ==
    ASSUME NEW T, NEW q, Enumerates(q, T)
    PROVE  InOrder(T) = q
<1>. DEFINE m == Len(q)
<1>1. /\ m \in Nat /\ q \in [1..m -> Nat] /\ T = {q[i] : i \in 1..m}
      /\ \A i, j \in 1..m : i < j => q[i] < q[j]
  BY LenProperties DEF Enumerates
<1>. HIDE DEF m
<1>2. \A i, j \in 1..m : q[i] = q[j] => i = j
  <2>1. \A i \in 1..m : q[i] \in Nat BY <1>1
  <2>2. \A i, j \in 1..m : i < j \/ j < i \/ i = j BY <1>1
  <2>. QED BY <1>1, <2>1, <2>2
<1>3. \A i, j \in 1..m : q[j] <= q[i] <=> j <= i
  <2>1. \A i \in 1..m : q[i] \in Nat BY <1>1
  <2>. QED BY <1>1, <2>1
<1>4. Cardinality(T) = m
  <2>1. q \in Bijection(1..m, T)
    <3>1. q \in [1..m -> T] BY <1>1
    <3>. QED BY <1>1, <1>2, <3>1 DEF Bijection, Injection, Surjection, IsInjective
  <2>. QED BY <1>1, <2>1, FS_CountingElements DEF ExistsBijection
<1>5. ASSUME NEW i \in 1..m PROVE Cardinality({k \in T : k <= q[i]}) = i
  <2>. DEFINE B == {k \in T : k <= q[i]}
              f == [j \in 1..i |-> q[j]]
  <2>1. i \in Nat /\ \A j \in 1..i : j \in 1..m /\ j <= i BY <1>1
  <2>2. f \in [1..i -> B] BY <1>1, <1>3, <2>1
  <2>3. \A b \in B : \E j \in 1..i : f[j] = b
    <3>1. ASSUME NEW b \in B PROVE \E j \in 1..i : f[j] = b
      <4>1. PICK j \in 1..m : q[j] = b BY <1>1
      <4>2. j <= i BY <1>3, <4>1
      <4>3. j \in 1..i BY <1>1, <4>1, <4>2
      <4>. QED BY <4>1, <4>3
    <3>. QED BY <3>1
  <2>4. \A a, b \in 1..i : f[a] = f[b] => a = b BY <1>2, <2>1
  <2>5. f \in Bijection(1..i, B)
    <3>. HIDE DEF f, B
    <3>. QED BY <2>2, <2>3, <2>4 DEF Bijection, Injection, Surjection, IsInjective
  <2>. HIDE DEF f, B
  <2>6. Cardinality(B) = i BY <2>1, <2>5, FS_CountingElements DEF ExistsBijection
  <2>. QED BY <2>6 DEF B
<1>6. ASSUME NEW i \in 1..m
      PROVE  (CHOOSE j \in T : Cardinality({k \in T : k <= j}) = i) = q[i]
  <2>1. q[i] \in T /\ Cardinality({k \in T : k <= q[i]}) = i BY <1>1, <1>5
  <2>2. ASSUME NEW j \in T, Cardinality({k \in T : k <= j}) = i PROVE j = q[i]
    <3>1. PICK x \in 1..m : j = q[x] BY <1>1
    <3>. QED BY <1>5, <2>2, <3>1
  <2>. QED BY <2>1, <2>2
<1>7. InOrder(T) = [i \in 1..m |-> q[i]] BY <1>4, <1>6 DEF InOrder
<1>. QED BY <1>1, <1>7

LEMMA EnumerateNone == Enumerates(<<>>, {})
<1>1. <<>> \in Seq(Nat) /\ Len(<<>>) = 0 /\ 1..0 = {} BY EmptySeq
<1>. QED BY <1>1 DEF Enumerates

LEMMA EnumerateMore ==
    ASSUME NEW T, NEW q, Enumerates(q, T), NEW x \in Nat, \A y \in T : y < x
    PROVE  Enumerates(Append(q, x), T \cup {x})
<1>. DEFINE m == Len(q)
            r == Append(q, x)
<1>1. /\ q \in Seq(Nat) /\ m \in Nat /\ T = {q[i] : i \in 1..m}
      /\ \A i, j \in 1..m : i < j => q[i] < q[j]
  BY LenProperties DEF Enumerates
<1>2. /\ r \in Seq(Nat) /\ Len(r) = m + 1
      /\ \A i \in 1..m : r[i] = q[i]
      /\ r[m + 1] = x
  BY <1>1, AppendProperties
<1>. HIDE DEF r, m
<1>3. m + 1 \in 1..(m + 1) /\ 1..m \subseteq 1..(m + 1) /\ \A i \in 1..(m + 1) : i \in 1..m \/ i = m + 1
  BY <1>1
<1>4. T \cup {x} = {r[i] : i \in 1..(m + 1)} BY <1>1, <1>2, <1>3
<1>5. ASSUME NEW i \in 1..(m + 1), NEW j \in 1..(m + 1), i < j PROVE r[i] < r[j]
  <2>1. i \in 1..m BY <1>1, <1>5
  <2>2. CASE j = m + 1
    <3>1. q[i] \in T BY <1>1, <2>1
    <3>. QED BY <1>2, <2>1, <2>2, <3>1
  <2>3. CASE j \in 1..m BY <1>1, <1>2, <1>5, <2>1, <2>3
  <2>. QED BY <1>3, <2>2, <2>3
<1>. QED BY <1>2, <1>4, <1>5 DEF Enumerates, r

-----------------------------------------------------------------------------
(* The lines up to the n-th that are not passed over and whose parse has   *)
(* the status.                                                             *)
Are(lines, n, status) ==
    {j \in 1..n : parse_line(lines[j]).status = status /\ ~ Passed(Stripped(lines[j]))}

BatchSound(st, lines, n) ==
    /\ st.aborted <=> Are(lines, n, "raises") # {}
    /\ st.aborted
        \/ /\ st.line = n
           /\ Enumerates(st.errors, Are(lines, n, "rejected"))
           /\ \E q : /\ Enumerates(q, Are(lines, n, "ok"))
                     /\ st.points = [i \in 1..Len(q) |-> parse_line(lines[q[i]])]

LEMMA AreNext ==
    ASSUME NEW lines, NEW status, NEW n \in Nat \ {0}
    PROVE  Are(lines, n, status)
            = Are(lines, n - 1, status) \cup
                (IF parse_line(lines[n]).status = status /\ ~ Passed(Stripped(lines[n]))
                 THEN {n} ELSE {})
<1>1. 1..n = 1..(n - 1) \cup {n} OBVIOUS
<1>. QED BY <1>1 DEF Are

LEMMA BatchTurn ==
    ASSUME NEW S, NEW lines \in Seq(Seq(S)), NEW n \in 1..Len(lines),
           NEW st \in BatchState(ParsedLines(lines)), BatchSound(st, lines, n - 1)
    PROVE  BatchSound(NextLine(st, lines[n]), lines, n)
<1>. DEFINE point == parse_line(lines[n])
            P == ParsedLines(lines)
            passed == Passed(Stripped(lines[n]))
            next == NextLine(st, lines[n])
            counted == [st EXCEPT !.line = Counted(st)]
<1>1. n \in Nat \ {0} BY LenProperties
<1>2. point.status \in Statuses /\ point \in P
  <2>1. lines[n] \in Seq(S) BY ElementOfSeq
  <2>. QED BY <2>1, LineStatus DEF ParsedLines
<1>3. \A status : Are(lines, n, status)
          = Are(lines, n - 1, status) \cup (IF point.status = status /\ ~ passed THEN {n} ELSE {})
  BY <1>1, AreNext
<1>4. next = IF st.aborted THEN st ELSE IF passed THEN counted ELSE AddLine(counted, point)
  BY DEF NextLine
<1>5. /\ st.line \in Nat /\ st.points \in Seq(P) /\ st.errors \in Seq(Nat)
      /\ st.aborted \in BOOLEAN
      /\ st = [line |-> st.line, points |-> st.points, errors |-> st.errors, aborted |-> st.aborted]
  BY DEF BatchState
<1>6. \A status : \A y \in Are(lines, n - 1, status) : y < n BY <1>1 DEF Are
<1>. HIDE DEF point, passed, next, P
<1>7. CASE st.aborted
  <2>1. next = st /\ Are(lines, n - 1, "raises") # {} BY <1>4, <1>7 DEF BatchSound
  <2>2. Are(lines, n, "raises") # {} BY <1>3, <2>1
  <2>. QED BY <1>7, <2>1, <2>2 DEF BatchSound, next
<1>8. CASE ~ st.aborted
  <2>1. /\ Are(lines, n - 1, "raises") = {} /\ st.line = n - 1
        /\ Enumerates(st.errors, Are(lines, n - 1, "rejected"))
    BY <1>8 DEF BatchSound
  <2>2. PICK q : /\ Enumerates(q, Are(lines, n - 1, "ok"))
                 /\ st.points = [i \in 1..Len(q) |-> parse_line(lines[q[i]])]
    BY <1>8 DEF BatchSound
  <2>3. counted = [line |-> n, points |-> st.points, errors |-> st.errors, aborted |-> FALSE]
    <3>1. Counted(st) = n /\ st.aborted = FALSE BY <1>1, <1>5, <1>8, <2>1 DEF Counted
    <3>2. \A l, p, e, a : [[line |-> l, points |-> p, errors |-> e, aborted |-> a] EXCEPT !.line = n]
                            = [line |-> n, points |-> p, errors |-> e, aborted |-> a]
      OBVIOUS
    <3>3. PICK l, p, e, a : st = [line |-> l, points |-> p, errors |-> e, aborted |-> a]
      BY <1>5
    <3>4. p = st.points /\ e = st.errors /\ a = FALSE BY <3>1, <3>3
    <3>5. counted = [st EXCEPT !.line = n] BY <3>1
    <3>6. counted = [line |-> n, points |-> p, errors |-> e, aborted |-> a]
      BY <3>2, <3>3, <3>5
    <3>. QED BY <3>4, <3>6
  <2>. HIDE DEF counted
  <2>4. CASE passed
    <3>1. \A status : Are(lines, n, status) = Are(lines, n - 1, status) BY <1>3, <2>4
    <3>2. next = counted BY <1>4, <1>8, <2>4
    <3>. QED BY <2>1, <2>2, <2>3, <3>1, <3>2 DEF BatchSound, next
  <2>5. CASE ~ passed /\ point.status = "ok"
    <3>1. /\ Are(lines, n, "raises") = {}
          /\ Are(lines, n, "rejected") = Are(lines, n - 1, "rejected")
          /\ Are(lines, n, "ok") = Are(lines, n - 1, "ok") \cup {n}
      BY <1>3, <2>1, <2>5
    <3>2. next = [line |-> n, points |-> Append(st.points, point), errors |-> st.errors, aborted |-> FALSE]
      BY <1>4, <1>8, <2>3, <2>5 DEF AddLine
    <3>. DEFINE r == Append(q, n)
    <3>3. Enumerates(r, Are(lines, n, "ok"))
      <4>1. \A y \in Are(lines, n - 1, "ok") : y < n BY <1>6
      <4>2. Enumerates(q, Are(lines, n - 1, "ok")) BY <2>2
      <4>3. Enumerates(r, Are(lines, n - 1, "ok") \cup {n}) BY <1>1, <4>1, <4>2, EnumerateMore
      <4>. HIDE DEF r
      <4>. QED BY <3>1, <4>3
    <3>4. Append(st.points, point) = [i \in 1..Len(r) |-> parse_line(lines[r[i]])]
      <4>1. q \in Seq(Nat) /\ Len(q) \in Nat BY <2>2, LenProperties DEF Enumerates
      <4>2. /\ Len(r) = Len(q) + 1 /\ r[Len(q) + 1] = n
            /\ \A i \in 1..Len(q) : r[i] = q[i]
        BY <1>1, <4>1, AppendProperties
      <4>3. Len(st.points) = Len(q)
        <5>1. DOMAIN st.points = 1..Len(q) BY <2>2
        <5>2. DOMAIN st.points = 1..Len(st.points) /\ Len(st.points) \in Nat
          BY <1>5, LenProperties
        <5>. QED BY <4>1, <5>1, <5>2
      <4>. HIDE DEF r
      <4>. DEFINE a == Append(st.points, point)
      <4>4. /\ a \in Seq(P) /\ Len(a) = Len(q) + 1 /\ a[Len(q) + 1] = point
            /\ \A i \in 1..Len(q) : a[i] = st.points[i]
        BY <1>2, <1>5, <4>3, AppendProperties
      <4>5. a = [i \in 1..(Len(q) + 1) |-> a[i]] BY <4>4, LenProperties
      <4>6. \A i \in 1..(Len(q) + 1) : a[i] = parse_line(lines[r[i]])
        <5>1. \A i \in 1..(Len(q) + 1) : i \in 1..Len(q) \/ i = Len(q) + 1 BY <4>1
        <5>. QED BY <2>2, <4>2, <4>4, <5>1 DEF point
      <4>. HIDE DEF a
      <4>7. a = [i \in 1..(Len(q) + 1) |-> parse_line(lines[r[i]])] BY <4>5, <4>6
      <4>. QED BY <4>2, <4>7 DEF a
    <3>. HIDE DEF r
    <3>. QED BY <2>1, <3>1, <3>2, <3>3, <3>4 DEF BatchSound, next
  <2>6. CASE ~ passed /\ point.status = "rejected"
    <3>1. /\ Are(lines, n, "raises") = {}
          /\ Are(lines, n, "rejected") = Are(lines, n - 1, "rejected") \cup {n}
          /\ Are(lines, n, "ok") = Are(lines, n - 1, "ok")
      BY <1>3, <2>1, <2>6
    <3>2. next = [line |-> n, points |-> st.points, errors |-> Append(st.errors, n), aborted |-> FALSE]
      BY <1>4, <1>8, <2>3, <2>6 DEF AddLine
    <3>3. Enumerates(Append(st.errors, n), Are(lines, n, "rejected"))
      BY <1>1, <1>6, <2>1, <3>1, EnumerateMore
    <3>. QED BY <2>2, <3>1, <3>2, <3>3 DEF BatchSound, next
  <2>7. CASE ~ passed /\ point.status = "raises"
    <3>1. n \in Are(lines, n, "raises") BY <1>3, <2>7
    <3>2. next.aborted = TRUE BY <1>4, <1>8, <2>3, <2>7 DEF AddLine
    <3>. QED BY <3>1, <3>2 DEF BatchSound, next
  <2>. QED BY <1>2, <2>4, <2>5, <2>6, <2>7 DEF Statuses
<1>. QED BY <1>5, <1>7, <1>8

(* parse_batch, on any number of lines.                                    *)
LEMMA BatchIsSound ==
    ASSUME NEW S, NEW lines \in Seq(Seq(S))
    PROVE  BatchSound(parse_batch(lines), lines, Len(lines))
<1>. DEFINE N == Len(lines)
            c == BatchLoop(lines)
            R == {n \in 0..N : BatchSound(c[n], lines, n)}
<1>1. N \in Nat BY LenProperties
<1>2. /\ c \in [0..N -> BatchState(ParsedLines(lines))] /\ c[0] = NoLines
      /\ \A n \in 1..N : c[n] = NextLine(c[n - 1], lines[n])
  BY BatchLoopTurns
<1>. HIDE DEF c
<1>3. 0 \in R
  <2>1. \A status : Are(lines, 0, status) = {} BY DEF Are
  <2>2. <<>> = [i \in 1..Len(<<>>) |-> parse_line(lines[<<>>[i]])]
    <3>1. 1..Len(<<>>) = {} BY EmptySeq
    <3>. QED BY <3>1
  <2>3. BatchSound(NoLines, lines, 0)
    BY <2>1, <2>2, EnumerateNone DEF BatchSound, NoLines
  <2>. QED BY <1>1, <1>2, <2>3
<1>4. ASSUME NEW n \in 1..N, n - 1 \in R PROVE n \in R
  <2>1. n - 1 \in 0..N /\ n \in 0..N BY <1>1
  <2>2. c[n - 1] \in BatchState(ParsedLines(lines)) BY <1>2, <2>1
  <2>3. BatchSound(NextLine(c[n - 1], lines[n]), lines, n) BY <1>4, <2>2, BatchTurn
  <2>. QED BY <1>2, <2>1, <2>3
<1>. HIDE DEF R, N
<1>5. \A n \in 0..N : n \in R BY <1>1, <1>3, <1>4, InductionUpTo
<1>6. N \in R BY <1>1, <1>5
<1>. QED BY <1>6 DEF R, N, c, parse_batch

(* The symbols before a position that are no backslashes.                  *)
Others(s, i) == {k \in 1..(i - 1) : s[k] # BS}

LEMMA RunBegins ==
    ASSUME NEW s, NEW i \in Nat \ {0}, NEW m \in Nat,
           \/ m \in Others(s, i) /\ \A l \in Others(s, i) : l <= m
           \/ m = 0 /\ Others(s, i) = {}
    PROVE  BackslashesBefore(s, i) = i - 1 - m
<1>. DEFINE T == {k \in 1..(i - 1) : s[k] # BS}
<1>1. T = Others(s, i) BY DEF Others
<1>2. BackslashesBefore(s, i)
        = i - 1 - (IF T = {} THEN 0 ELSE CHOOSE k \in T : \A l \in T : l <= k)
  BY DEF BackslashesBefore
<1>3. \A l \in T : l \in Nat OBVIOUS
<1>. HIDE DEF T
<1>4. CASE m = 0 /\ T = {} BY <1>2, <1>4
<1>5. CASE m \in T /\ \A l \in T : l <= m
  <2>1. \A k \in T : (\A l \in T : l <= k) => k = m
    <3>1. ASSUME NEW k \in T, \A l \in T : l <= k PROVE k = m
      <4>1. m <= k /\ k <= m /\ k \in Nat BY <1>3, <1>5, <3>1
      <4>. QED BY <4>1
    <3>. QED BY <3>1
  <2>2. (CHOOSE k \in T : \A l \in T : l <= k) = m BY <1>5, <2>1
  <2>. QED BY <1>2, <1>5, <2>2
<1>. QED BY <1>1, <1>4, <1>5

(* The run of backslashes before a position, from one position to the next.*)
LEMMA BackslashesNext ==
    ASSUME NEW s, NEW j \in Nat \ {0}
    PROVE  /\ BackslashesBefore(s, 1) = 0
           /\ BackslashesBefore(s, j) \in Nat
           /\ BackslashesBefore(s, j + 1) = IF s[j] = BS THEN BackslashesBefore(s, j) + 1 ELSE 0
<1>1. BackslashesBefore(s, 1) = 0
  <2>1. Others(s, 1) = {} BY DEF Others
  <2>2. BackslashesBefore(s, 1) = 1 - 1 - 0 BY <2>1, RunBegins
  <2>. QED BY <2>2
<1>2. \A l \in Others(s, j) : l \in Nat /\ l <= j - 1 BY DEF Others
<1>3. PICK m \in Nat : /\ m <= j - 1
                       /\ \/ m \in Others(s, j) /\ \A l \in Others(s, j) : l <= m
                          \/ m = 0 /\ Others(s, j) = {}
  <2>1. CASE Others(s, j) = {} BY <2>1
  <2>2. CASE Others(s, j) # {}
    <3>1. j - 1 \in Nat /\ Others(s, j) \in SUBSET (1..(j - 1)) BY DEF Others
    <3>2. PICK m \in Others(s, j) : \A l \in Others(s, j) : m >= l
      BY <2>2, <3>1, GreatestExists
    <3>3. m \in Nat /\ m <= j - 1 /\ \A l \in Others(s, j) : l <= m BY <1>2, <3>2
    <3>. QED BY <3>3
  <2>. QED BY <2>1, <2>2
<1>4. BackslashesBefore(s, j) = j - 1 - m BY <1>3, RunBegins
<1>5. Others(s, j + 1) = IF s[j] = BS THEN Others(s, j) ELSE Others(s, j) \cup {j}
  <2>1. j + 1 - 1 = j /\ 1..j = 1..(j - 1) \cup {j} OBVIOUS
  <2>. QED BY <2>1 DEF Others
<1>6. j + 1 \in Nat \ {0} OBVIOUS
<1>7. BackslashesBefore(s, j + 1) = IF s[j] = BS THEN BackslashesBefore(s, j) + 1 ELSE 0
  <2>1. CASE s[j] = BS
    <3>1. BackslashesBefore(s, j + 1) = j + 1 - 1 - m BY <1>3, <1>5, <1>6, <2>1, RunBegins
    <3>. QED BY <1>4, <2>1, <3>1
  <2>2. CASE s[j] # BS
    <3>1. j \in Others(s, j + 1) /\ \A l \in Others(s, j + 1) : l <= j BY <1>2, <1>5, <2>2
    <3>2. BackslashesBefore(s, j + 1) = j + 1 - 1 - j BY <1>6, <3>1, RunBegins
    <3>. QED BY <2>2, <3>2
  <2>. QED BY <2>1, <2>2
<1>. QED BY <1>1, <1>3, <1>4, <1>7

LEMMA BareNext ==
    ASSUME NEW s, NEW j \in Nat \ {0}
    PROVE  /\ Bare(s, 1) /\ BackslashesBefore(s, 1) = 0
           /\ Bare(s, j + 1) <=> (s[j] # BS \/ ~ Bare(s, j))
           /\ BackslashesBefore(s, j + 1) > 0 <=> s[j] = BS
<1>. DEFINE b == BackslashesBefore(s, j)
<1>1. /\ BackslashesBefore(s, 1) = 0 /\ b \in Nat
      /\ BackslashesBefore(s, j + 1) = IF s[j] = BS THEN b + 1 ELSE 0
  BY BackslashesNext
<1>2. Bare(s, 1) BY <1>1 DEF Bare
<1>3. Bare(s, j) <=> b % 2 = 0 BY DEF Bare
<1>4. Bare(s, j + 1) <=> BackslashesBefore(s, j + 1) % 2 = 0 BY DEF Bare
<1>. HIDE DEF b
<1>5. (b + 1) % 2 = 0 <=> b % 2 # 0 BY <1>1
<1>. QED BY <1>1, <1>2, <1>3, <1>4, <1>5

LEMMA QuotesNext ==
    ASSUME NEW s, NEW n \in Nat \ {0}
    PROVE  /\ Cardinality(QuotesBefore(s, 1)) = 0
           /\ Cardinality(QuotesBefore(s, n)) \in Nat
           /\ Cardinality(QuotesBefore(s, n + 1)) =
                IF s[n] = QT /\ Bare(s, n) THEN Cardinality(QuotesBefore(s, n)) + 1
                ELSE Cardinality(QuotesBefore(s, n))
<1>1. QuotesBefore(s, 1) = {} BY DEF QuotesBefore
<1>2. IsFiniteSet(QuotesBefore(s, n))
  <2>1. IsFiniteSet(1..(n - 1)) BY FS_Interval
  <2>2. QuotesBefore(s, n) \subseteq 1..(n - 1) BY DEF QuotesBefore
  <2>. QED BY <2>1, <2>2, FS_Subset
<1>3. QuotesBefore(s, n + 1) =
        IF s[n] = QT /\ Bare(s, n) THEN QuotesBefore(s, n) \cup {n} ELSE QuotesBefore(s, n)
  <2>1. n + 1 - 1 = n /\ 1..n = 1..(n - 1) \cup {n} OBVIOUS
  <2>. QED BY <2>1 DEF QuotesBefore
<1>4. n \notin QuotesBefore(s, n) BY DEF QuotesBefore
<1>5. Cardinality(QuotesBefore(s, 1)) = 0 BY <1>1, FS_EmptySet
<1>6. Cardinality(QuotesBefore(s, n)) \in Nat BY <1>2, FS_CardinalityType
<1>7. Cardinality(QuotesBefore(s, n) \cup {n}) = Cardinality(QuotesBefore(s, n)) + 1
  BY <1>2, <1>4, FS_AddElement
<1>. QED BY <1>3, <1>5, <1>6, <1>7

LEMMA DelimsAreNoMarks == \A sep \in NameDelims : sep # BS /\ sep # QT
BY DEF NameDelims, BS, QT

Toggles(s, n, quotes) == quotes /\ s[n] = QT /\ (n = 1 \/ s[n - 1] # BS)
Taken(st, next, x) == next.parts = st.parts /\ next.last = Append(st.last, x)

(* What one turn of the scanner does, branch by branch.                    *)
Turned(s, sep, quotes, n, st, next) ==
    LET x == s[n]
        escape == x = BS /\ n < Len(s)
        toggles == Toggles(s, n, quotes)
        cut == x = sep /\ ~ st.quoted
    IN  /\ st.pair => Taken(st, next, x) /\ ~ next.pair /\ (next.quoted <=> st.quoted)
        /\ ~ st.pair /\ toggles =>
                Taken(st, next, x) /\ ~ next.pair /\ (next.quoted <=> ~ st.quoted)
        /\ ~ st.pair /\ ~ toggles /\ escape =>
                Taken(st, next, x) /\ next.pair /\ (next.quoted <=> st.quoted)
        /\ ~ st.pair /\ ~ toggles /\ ~ escape /\ cut =>
                /\ next.parts = Append(st.parts, st.last) /\ next.last = <<>>
                /\ ~ next.pair /\ ~ next.quoted
        /\ ~ st.pair /\ ~ toggles /\ ~ escape /\ ~ cut =>
                Taken(st, next, x) /\ ~ next.pair /\ (next.quoted <=> st.quoted)

LEMMA ScanBranches ==
    ASSUME NEW S, NEW s \in Seq(S), NEW sep, NEW quotes, NEW n \in 1..Len(s),
           NEW st \in ScanState(S),
           NEW next, next = ScanStep(s, sep, quotes, st, n)
    PROVE  Turned(s, sep, quotes, n, st, next)
<1>. DEFINE x == s[n]
            add == [st EXCEPT !.last = Append(@, x), !.pair = FALSE]
<1>1. /\ st = [parts |-> st.parts, last |-> st.last, pair |-> st.pair, quoted |-> st.quoted]
      /\ st.pair \in BOOLEAN /\ st.quoted \in BOOLEAN
  BY DEF ScanState
<1>2. /\ add.parts = st.parts /\ add.last = Append(st.last, x) /\ add.pair = FALSE
      /\ add.quoted = st.quoted
      /\ DOMAIN add = {"parts", "last", "pair", "quoted"}
  BY <1>1
<1>3. next = IF st.pair THEN add
             ELSE IF Toggles(s, n, quotes) THEN [add EXCEPT !.quoted = ~ @]
             ELSE IF x = BS /\ n < Len(s) THEN [add EXCEPT !.pair = TRUE]
             ELSE IF x = sep /\ ~ st.quoted
                  THEN [st EXCEPT !.parts = Append(@, st.last), !.last = <<>>]
             ELSE add
  BY DEF ScanStep, Toggles
<1>4. CASE st.pair
  <2>1. next = add BY <1>3, <1>4
  <2>. HIDE DEF add
  <2>. QED BY <1>2, <1>4, <2>1 DEF Taken, Turned
<1>5. CASE ~ st.pair /\ Toggles(s, n, quotes)
  <2>1. next = [add EXCEPT !.quoted = ~ @] BY <1>3, <1>5
  <2>. HIDE DEF add
  <2>2. /\ next.parts = st.parts /\ next.last = Append(st.last, x) /\ next.pair = FALSE
        /\ next.quoted = ~ st.quoted
    BY <1>2, <2>1
  <2>. QED BY <1>5, <2>2 DEF Taken, Turned
<1>6. CASE ~ st.pair /\ ~ Toggles(s, n, quotes) /\ x = BS /\ n < Len(s)
  <2>1. next = [add EXCEPT !.pair = TRUE] BY <1>3, <1>6
  <2>. HIDE DEF add
  <2>2. /\ next.parts = st.parts /\ next.last = Append(st.last, x) /\ next.pair = TRUE
        /\ next.quoted = st.quoted
    BY <1>2, <2>1
  <2>. QED BY <1>6, <2>2 DEF Taken, Turned
<1>7. CASE ~ st.pair /\ ~ Toggles(s, n, quotes) /\ ~ (x = BS /\ n < Len(s)) /\ x = sep /\ ~ st.quoted
  <2>1. next = [st EXCEPT !.parts = Append(@, st.last), !.last = <<>>] BY <1>3, <1>7
  <2>2. /\ next.parts = Append(st.parts, st.last) /\ next.last = <<>> /\ next.pair = st.pair
        /\ next.quoted = st.quoted
    BY <1>1, <2>1
  <2>. QED BY <1>7, <2>2 DEF Turned
<1>8. CASE /\ ~ st.pair /\ ~ Toggles(s, n, quotes) /\ ~ (x = BS /\ n < Len(s))
           /\ ~ (x = sep /\ ~ st.quoted)
  <2>1. next = add BY <1>3, <1>8
  <2>. HIDE DEF add
  <2>. QED BY <1>2, <1>8, <2>1 DEF Taken, Turned
<1>. QED BY <1>4, <1>5, <1>6, <1>7, <1>8

(* The same, told by what precedes the symbol it reads.                    *)
LEMMA ScanStepDoes ==
    ASSUME NEW S, NEW s \in Seq(S), NEW sep \in NameDelims, NEW quotes \in BOOLEAN,
           ~ (quotes /\ Misread(s)),
           NEW n \in 1..Len(s), NEW st \in ScanState(S),
           st.pair <=> ~ Bare(s, n),
           st.quoted <=> quotes /\ Cardinality(QuotesBefore(s, n)) % 2 # 0,
           NEW next, next = ScanStep(s, sep, quotes, st, n)
    PROVE  /\ next.pair <=> s[n] = BS /\ Bare(s, n) /\ n < Len(s)
           /\ next.quoted <=> IF quotes /\ s[n] = QT /\ Bare(s, n) THEN ~ st.quoted ELSE st.quoted
           /\ IsCut(s, n, sep, quotes) =>
                next.parts = Append(st.parts, st.last) /\ next.last = <<>>
           /\ ~ IsCut(s, n, sep, quotes) =>
                next.parts = st.parts /\ next.last = Append(st.last, s[n])
<1>. DEFINE x == s[n]
            isQuote == Toggles(s, n, quotes)
<1>1. n \in Nat /\ n \in DOMAIN s BY LenProperties
<1>2. Bare(s, n) => (quotes /\ x = QT <=> isQuote)
  <2>1. CASE n = 1 BY <2>1 DEF Toggles
  <2>2. CASE n # 1
    <3>1. n - 1 \in Nat \ {0} /\ n - 1 + 1 = n BY <1>1, <2>2
    <3>2. BackslashesBefore(s, n) > 0 <=> s[n - 1] = BS BY <3>1, BareNext
    <3>3. Bare(s, n) /\ quotes /\ x = QT => ~ (BackslashesBefore(s, n) > 0)
      BY <1>1 DEF Misread
    <3>. QED BY <2>2, <3>2, <3>3 DEF Toggles
  <2>. QED BY <2>1, <2>2
<1>3. IsCut(s, n, sep, quotes) <=> x = sep /\ Bare(s, n) /\ ~ st.quoted
  BY DEF IsCut
<1>4. sep # BS /\ sep # QT /\ BS # QT BY DelimsAreNoMarks DEF BS, QT
<1>5. /\ st.pair => Taken(st, next, x) /\ ~ next.pair /\ (next.quoted <=> st.quoted)
      /\ ~ st.pair /\ isQuote =>
            Taken(st, next, x) /\ ~ next.pair /\ (next.quoted <=> ~ st.quoted)
      /\ ~ st.pair /\ ~ isQuote /\ x = BS /\ n < Len(s) =>
            Taken(st, next, x) /\ next.pair /\ (next.quoted <=> st.quoted)
      /\ ~ st.pair /\ ~ isQuote /\ ~ (x = BS /\ n < Len(s)) /\ x = sep /\ ~ st.quoted =>
            /\ next.parts = Append(st.parts, st.last) /\ next.last = <<>>
            /\ ~ next.pair /\ ~ next.quoted
      /\ ~ st.pair /\ ~ isQuote /\ ~ (x = BS /\ n < Len(s)) /\ ~ (x = sep /\ ~ st.quoted) =>
            Taken(st, next, x) /\ ~ next.pair /\ (next.quoted <=> st.quoted)
  <2>1. Turned(s, sep, quotes, n, st, next) BY ScanBranches
  <2>. QED BY <2>1 DEF Turned
<1>. HIDE DEF isQuote, x
<1>6. CASE st.pair BY <1>3, <1>5, <1>6 DEF Taken, x
<1>7. CASE ~ st.pair /\ isQuote
  <2>1. Taken(st, next, x) /\ ~ next.pair /\ (next.quoted <=> ~ st.quoted) BY <1>5, <1>7
  <2>2. quotes /\ x = QT BY <1>7 DEF isQuote, x, Toggles
  <2>. QED BY <1>3, <1>4, <1>7, <2>1, <2>2 DEF Taken, x
<1>8. CASE ~ st.pair /\ ~ isQuote /\ x = BS /\ n < Len(s)
  BY <1>3, <1>4, <1>5, <1>8 DEF Taken, x
<1>9. CASE ~ st.pair /\ ~ isQuote /\ ~ (x = BS /\ n < Len(s)) /\ x = sep /\ ~ st.quoted
  BY <1>3, <1>4, <1>5, <1>9 DEF Taken, x
<1>10. CASE /\ ~ st.pair /\ ~ isQuote /\ ~ (x = BS /\ n < Len(s))
            /\ ~ (x = sep /\ ~ st.quoted)
  BY <1>2, <1>3, <1>5, <1>10 DEF Taken, x
<1>. QED BY <1>6, <1>7, <1>8, <1>9, <1>10

-----------------------------------------------------------------------------
(* Where the i-th part begins when q are the cuts.                         *)
From(q, i) == IF i = 1 THEN 1 ELSE q[i - 1] + 1

CutsUpTo(s, n, sep, quotes) == {j \in 1..n : IsCut(s, j, sep, quotes)}

SplitAt(st, s, n, q) ==
    /\ Len(st.parts) = Len(q)
    /\ \A i \in 1..Len(q) : st.parts[i] = SubSeq(s, From(q, i), q[i] - 1)
    /\ st.last = SubSeq(s, From(q, Len(q) + 1), n)

ScanSound(st, s, sep, quotes, n) ==
    /\ n < Len(s) => (st.pair <=> ~ Bare(s, n + 1))
    /\ st.quoted <=> quotes /\ Cardinality(QuotesBefore(s, n + 1)) % 2 # 0
    /\ \E q : Enumerates(q, CutsUpTo(s, n, sep, quotes)) /\ SplitAt(st, s, n, q)

LEMMA CutAgain ==
    ASSUME NEW S, NEW s \in Seq(S), NEW n \in 1..Len(s), NEW st \in ScanState(S), NEW q \in Seq(Nat),
           SplitAt(st, s, n - 1, q),
           NEW next, next.parts = Append(st.parts, st.last), next.last = <<>>
    PROVE  SplitAt(next, s, n, Append(q, n))
<1>. DEFINE r == Append(q, n)
            m == Len(q)
            p == Append(st.parts, st.last)
<1>1. n \in Nat /\ m \in Nat /\ st.parts \in Seq(Seq(S)) /\ st.last \in Seq(S)
  BY LenProperties DEF ScanState
<1>2. /\ Len(r) = m + 1 /\ r[m + 1] = n
      /\ \A i \in 1..m : r[i] = q[i]
  BY <1>1, AppendProperties
<1>3. Len(st.parts) = m /\ st.last = SubSeq(s, From(q, m + 1), n - 1)
      /\ \A i \in 1..m : st.parts[i] = SubSeq(s, From(q, i), q[i] - 1)
  BY DEF SplitAt
<1>4. /\ Len(p) = m + 1 /\ p[m + 1] = st.last
      /\ \A i \in 1..m : p[i] = st.parts[i]
  <2>1. /\ Len(p) = Len(st.parts) + 1 /\ p[Len(st.parts) + 1] = st.last
        /\ \A i \in 1..Len(st.parts) : p[i] = st.parts[i]
    BY <1>1, AppendProperties
  <2>. HIDE DEF p, m
  <2>. QED BY <1>3, <2>1
<1>. HIDE DEF r, m, p
<1>5. \A i \in 1..(m + 1) : From(r, i) = From(q, i)
  <2>1. ASSUME NEW i \in 1..(m + 1), i # 1 PROVE r[i - 1] = q[i - 1]
    <3>1. i - 1 \in 1..m BY <1>1, <2>1
    <3>. QED BY <1>2, <3>1
  <2>. QED BY <2>1 DEF From
<1>6. ASSUME NEW i \in 1..(m + 1) PROVE p[i] = SubSeq(s, From(r, i), r[i] - 1)
  <2>1. CASE i = m + 1 BY <1>2, <1>3, <1>4, <1>5, <2>1
  <2>2. CASE i # m + 1
    <3>1. i \in 1..m BY <1>1, <2>2
    <3>. QED BY <1>2, <1>3, <1>4, <1>5, <3>1
  <2>. QED BY <2>1, <2>2
<1>7. SubSeq(s, From(r, m + 1 + 1), n) = <<>>
  <2>1. m + 1 + 1 # 1 /\ m + 1 + 1 - 1 = m + 1 BY <1>1
  <2>2. From(r, m + 1 + 1) = n + 1 BY <1>2, <2>1 DEF From
  <2>3. n + 1 \in Int /\ n \in Int /\ n < n + 1 BY <1>1
  <2>4. SubSeq(s, n + 1, n) = <<>> BY <2>3, SubSeqEmpty
  <2>. QED BY <2>2, <2>4
<1>8. next.parts = p /\ next.last = <<>> BY DEF p
<1>9. SplitAt(next, s, n, r) BY <1>2, <1>4, <1>6, <1>7, <1>8 DEF SplitAt
<1>. QED BY <1>9 DEF r

LEMMA PartGrows ==
    ASSUME NEW S, NEW s \in Seq(S), NEW n \in 1..Len(s), NEW st \in ScanState(S), NEW q \in Seq(Nat),
           \A i \in 1..Len(q) : q[i] < n,
           SplitAt(st, s, n - 1, q),
           NEW next, next.parts = st.parts, next.last = Append(st.last, s[n])
    PROVE  SplitAt(next, s, n, q)
<1>. DEFINE m == Len(q)
            a == From(q, m + 1)
<1>1. n \in Nat /\ m \in Nat /\ Len(s) \in Nat BY LenProperties
<1>2. a \in 1..n
  <2>1. CASE m = 0 BY <1>1, <2>1 DEF From
  <2>2. CASE m # 0
    <3>1. m \in 1..m /\ m + 1 # 1 /\ m + 1 - 1 = m BY <1>1, <2>2
    <3>2. q[m] \in Nat /\ q[m] < n BY <3>1, ElementOfSeq
    <3>3. a = q[m] + 1 BY <3>1 DEF From
    <3>. QED BY <1>1, <3>2, <3>3
  <2>. QED BY <2>1, <2>2
<1>3. st.last = SubSeq(s, a, n - 1) BY DEF SplitAt
<1>. HIDE DEF a
<1>4. a \in 1..Len(s) /\ n \in a..Len(s) BY <1>1, <1>2
<1>5. SubSeq(s, a, n) = SubSeq(s, a, n - 1) \o <<s[n]>> BY <1>4, SubSeqRecursiveSecond
<1>6. st.last \in Seq(S) /\ s[n] \in S BY ElementOfSeq DEF ScanState
<1>7. next.last = st.last \o <<s[n]>> BY <1>6, AppendIsConcat
<1>. QED BY <1>3, <1>5, <1>7 DEF SplitAt, a, m

LEMMA ScanTurn ==
    ASSUME NEW S, NEW s \in Seq(S), NEW sep \in NameDelims, NEW quotes \in BOOLEAN,
           ~ (quotes /\ Misread(s)),
           NEW n \in 1..Len(s), NEW st \in ScanState(S), ScanSound(st, s, sep, quotes, n - 1)
    PROVE  ScanSound(ScanStep(s, sep, quotes, st, n), s, sep, quotes, n)
<1>. DEFINE next == ScanStep(s, sep, quotes, st, n)
            cuts == CutsUpTo(s, n - 1, sep, quotes)
<1>1. n \in Nat \ {0} /\ Len(s) \in Nat /\ n - 1 + 1 = n /\ n - 1 < Len(s) BY LenProperties
<1>2. /\ st.pair <=> ~ Bare(s, n)
      /\ st.quoted <=> quotes /\ Cardinality(QuotesBefore(s, n)) % 2 # 0
  BY <1>1 DEF ScanSound
<1>3. PICK q : Enumerates(q, cuts) /\ SplitAt(st, s, n - 1, q) BY DEF ScanSound
<1>4. /\ next.pair <=> s[n] = BS /\ Bare(s, n) /\ n < Len(s)
      /\ next.quoted <=> IF quotes /\ s[n] = QT /\ Bare(s, n) THEN ~ st.quoted ELSE st.quoted
      /\ IsCut(s, n, sep, quotes) =>
            next.parts = Append(st.parts, st.last) /\ next.last = <<>>
      /\ ~ IsCut(s, n, sep, quotes) =>
            next.parts = st.parts /\ next.last = Append(st.last, s[n])
  <2>. HIDE DEF next
  <2>1. next = ScanStep(s, sep, quotes, st, n) BY DEF next
  <2>. QED BY <1>2, <2>1, ScanStepDoes
<1>. HIDE DEF next
<1>5. n < Len(s) => (next.pair <=> ~ Bare(s, n + 1)) BY <1>1, <1>4, BareNext
<1>6. next.quoted <=> quotes /\ Cardinality(QuotesBefore(s, n + 1)) % 2 # 0
  <2>. DEFINE c == Cardinality(QuotesBefore(s, n))
              d == Cardinality(QuotesBefore(s, n + 1))
  <2>1. c \in Nat /\ d = IF s[n] = QT /\ Bare(s, n) THEN c + 1 ELSE c BY <1>1, QuotesNext
  <2>2. st.quoted <=> quotes /\ c % 2 # 0 BY <1>2
  <2>. HIDE DEF c, d
  <2>3. (c + 1) % 2 # 0 <=> ~ (c % 2 # 0) BY <2>1
  <2>4. next.quoted <=> quotes /\ d % 2 # 0 BY <1>4, <2>1, <2>2, <2>3
  <2>. QED BY <2>4 DEF d
<1>7. /\ q \in Seq(Nat) /\ \A y \in cuts : y < n /\ \A i \in 1..Len(q) : q[i] \in cuts
  <2>1. \A y \in cuts : y < n BY <1>1 DEF CutsUpTo
  <2>. HIDE DEF cuts
  <2>. QED BY <1>3, <2>1 DEF Enumerates
<1>8. CutsUpTo(s, n, sep, quotes) = cuts \cup (IF IsCut(s, n, sep, quotes) THEN {n} ELSE {})
  <2>1. 1..n = 1..(n - 1) \cup {n} BY <1>1
  <2>. QED BY <2>1 DEF CutsUpTo
<1>. HIDE DEF cuts
<1>9. CASE IsCut(s, n, sep, quotes)
  <2>1. Enumerates(Append(q, n), CutsUpTo(s, n, sep, quotes))
    BY <1>1, <1>3, <1>7, <1>8, <1>9, EnumerateMore
  <2>2. SplitAt(next, s, n, Append(q, n)) BY <1>3, <1>4, <1>7, <1>9, CutAgain
  <2>. QED BY <1>5, <1>6, <2>1, <2>2 DEF ScanSound, next
<1>10. CASE ~ IsCut(s, n, sep, quotes)
  <2>1. Enumerates(q, CutsUpTo(s, n, sep, quotes)) BY <1>3, <1>8, <1>10
  <2>2. \A i \in 1..Len(q) : q[i] < n BY <1>3, <1>7 DEF Enumerates
  <2>3. SplitAt(next, s, n, q) BY <1>3, <1>4, <1>7, <1>10, <2>2, PartGrows
  <2>. QED BY <1>5, <1>6, <2>1, <2>3 DEF ScanSound, next
<1>. QED BY <1>9, <1>10

(* What a split gives, for every text.                                     *)
LEMMA SplitIsSegments ==
    ASSUME NEW S, NEW s \in Seq(S), NEW sep \in NameDelims, NEW quotes \in BOOLEAN,
           ~ (quotes /\ Misread(s))
    PROVE  _split_top(s, sep, quotes) = Segments(s, {j \in DOMAIN s : IsCut(s, j, sep, quotes)})
<1>. DEFINE N == Len(s)
            c == ScanLoop(s, sep, quotes)
            R == {n \in 0..N : ScanSound(c[n], s, sep, quotes, n)}
            end == c[N]
            cuts == CutsUpTo(s, N, sep, quotes)
<1>1. N \in Nat /\ DOMAIN s = 1..N BY LenProperties
<1>2. /\ c \in [0..N -> ScanState(S)] /\ c[0] = Fresh
      /\ \A n \in 1..N : c[n] = ScanStep(s, sep, quotes, c[n - 1], n)
  BY ScanLoopTurns
<1>. HIDE DEF c
<1>3. 0 \in R
  <2>1. Bare(s, 0 + 1) /\ Cardinality(QuotesBefore(s, 0 + 1)) % 2 = 0
    <3>1. Bare(s, 1) /\ Cardinality(QuotesBefore(s, 1)) = 0 BY BareNext, QuotesNext
    <3>. QED BY <3>1
  <2>2. CutsUpTo(s, 0, sep, quotes) = {} BY DEF CutsUpTo
  <2>3. SplitAt(Fresh, s, 0, <<>>)
    <3>1. SubSeq(s, 1, 0) = <<>> BY SubSeqEmpty
    <3>. QED BY <3>1 DEF SplitAt, Fresh, From
  <2>4. ScanSound(Fresh, s, sep, quotes, 0)
    BY <2>1, <2>2, <2>3, EnumerateNone DEF ScanSound, Fresh
  <2>. QED BY <1>1, <1>2, <2>4
<1>4. ASSUME NEW n \in 1..N, n - 1 \in R PROVE n \in R
  <2>1. n - 1 \in 0..N /\ n \in 0..N BY <1>1
  <2>2. c[n - 1] \in ScanState(S) /\ ScanSound(c[n - 1], s, sep, quotes, n - 1) BY <1>2, <1>4, <2>1
  <2>3. ScanSound(ScanStep(s, sep, quotes, c[n - 1], n), s, sep, quotes, n) BY <2>2, ScanTurn
  <2>. QED BY <1>2, <2>1, <2>3
<1>. HIDE DEF R
<1>5. N \in R
  <2>1. \A n \in 0..N : n \in R BY <1>1, <1>3, <1>4, InductionUpTo
  <2>. QED BY <1>1, <2>1
<1>6. /\ ScanSound(end, s, sep, quotes, N) /\ end \in ScanState(S)
  <2>1. N \in 0..N BY <1>1
  <2>. QED BY <1>2, <1>5, <2>1 DEF R
<1>7. PICK q : Enumerates(q, cuts) /\ SplitAt(end, s, N, q) BY <1>6 DEF ScanSound
<1>8. cuts = {j \in DOMAIN s : IsCut(s, j, sep, quotes)} BY <1>1 DEF CutsUpTo
<1>9. _split_top(s, sep, quotes) = Append(end.parts, end.last) BY DEF _split_top, c
<1>10. end.parts \in Seq(Seq(S)) /\ end.last \in Seq(S) BY <1>6 DEF ScanState
<1>. HIDE DEF end
<1>. DEFINE r == Append(q, N + 1)
            m == Len(q)
<1>11. q \in Seq(Nat) /\ m \in Nat BY <1>7, LenProperties DEF Enumerates
<1>12. InOrder(cuts \cup {N + 1}) = r
  <2>1. \A y \in cuts : y < N + 1 BY <1>1 DEF CutsUpTo
  <2>. HIDE DEF cuts
  <2>2. N + 1 \in Nat BY <1>1
  <2>3. Enumerates(r, cuts \cup {N + 1}) BY <1>7, <2>1, <2>2, EnumerateMore
  <2>. QED BY <2>3, EnumerationIsInOrder
<1>. HIDE DEF cuts
<1>13. /\ Len(r) = m + 1 /\ r[m + 1] = N + 1 /\ r \in Seq(Nat)
       /\ \A i \in 1..m : r[i] = q[i]
  BY <1>1, <1>11, AppendProperties
<1>14. DOMAIN r = 1..(m + 1) BY <1>13, LenProperties
<1>15. /\ Len(end.parts) = m /\ end.last = SubSeq(s, From(q, m + 1), N)
       /\ \A i \in 1..m : end.parts[i] = SubSeq(s, From(q, i), q[i] - 1)
  BY <1>7 DEF SplitAt
<1>. DEFINE p == Append(end.parts, end.last)
<1>16. /\ p \in Seq(Seq(S)) /\ Len(p) = m + 1 /\ p[m + 1] = end.last
       /\ \A i \in 1..m : p[i] = end.parts[i]
  <2>1. /\ p \in Seq(Seq(S)) /\ Len(p) = Len(end.parts) + 1 /\ p[Len(end.parts) + 1] = end.last
        /\ \A i \in 1..Len(end.parts) : p[i] = end.parts[i]
    BY <1>10, AppendProperties
  <2>. HIDE DEF p, m
  <2>. QED BY <1>15, <2>1
<1>. DEFINE at(i) == SubSeq(s, IF i = 1 THEN 1 ELSE r[i - 1] + 1, r[i] - 1)
<1>17. Segments(s, {j \in DOMAIN s : IsCut(s, j, sep, quotes)}) = [i \in 1..(m + 1) |-> at(i)]
  <2>1. Segments(s, cuts) = [i \in DOMAIN r |-> at(i)]
    <3>. HIDE DEF r
    <3>. QED BY <1>12 DEF Segments
  <2>. HIDE DEF r, at, m
  <2>. QED BY <1>8, <1>14, <2>1
<1>. HIDE DEF r, m, p
<1>18. \A i \in 1..(m + 1) : From(r, i) = From(q, i)
  <2>1. ASSUME NEW i \in 1..(m + 1), i # 1 PROVE r[i - 1] = q[i - 1]
    <3>1. i - 1 \in 1..m BY <1>11, <2>1
    <3>. QED BY <1>13, <3>1
  <2>. QED BY <2>1 DEF From
<1>19. \A i : at(i) = SubSeq(s, From(r, i), r[i] - 1) BY DEF From
<1>. HIDE DEF at
<1>20. ASSUME NEW i \in 1..(m + 1) PROVE p[i] = at(i)
  <2>1. CASE i = m + 1
    <3>1. N + 1 - 1 = N BY <1>1
    <3>2. at(i) = SubSeq(s, From(q, m + 1), N) BY <1>13, <1>18, <1>19, <2>1, <3>1
    <3>. QED BY <1>15, <1>16, <2>1, <3>2
  <2>2. CASE i # m + 1
    <3>1. i \in 1..m BY <1>11, <2>2
    <3>2. at(i) = SubSeq(s, From(q, i), q[i] - 1) BY <1>13, <1>18, <1>19, <3>1
    <3>. QED BY <1>15, <1>16, <3>1, <3>2
  <2>. QED BY <2>1, <2>2
<1>21. p = [i \in 1..(m + 1) |-> at(i)]
  <2>1. p = [i \in 1..(m + 1) |-> p[i]] BY <1>16, LenProperties
  <2>. QED BY <1>20, <2>1
<1>. QED BY <1>9, <1>17, <1>21 DEF p

(* s holds w behind its first k symbols.                                   *)
Holds(s, k, w) == k + Len(w) <= Len(s) /\ \A j \in 1..Len(w) : s[k + j] = w[j]

(* From st to next the scanner has taken w and is where it was otherwise.  *)
Reads(st, next, w) ==
    /\ next.parts = st.parts /\ next.last = st.last \o w
    /\ ~ next.pair /\ (next.quoted <=> st.quoted)

LEMMA HoldsConcat ==
    ASSUME NEW S, NEW s \in Seq(S), NEW k \in Nat, NEW u \in Seq(S), NEW v \in Seq(S)
    PROVE  Holds(s, k, u \o v) <=> Holds(s, k, u) /\ Holds(s, k + Len(u), v)
<1>. DEFINE w == u \o v
            m == Len(u)
            n == Len(v)
<1>1. /\ m \in Nat /\ n \in Nat /\ Len(s) \in Nat /\ Len(w) = m + n
      /\ \A j \in 1..(m + n) : w[j] = IF j <= m THEN u[j] ELSE v[j - m]
  BY ConcatProperties, LenProperties
<1>. HIDE DEF w, m, n
<1>2. k + Len(w) <= Len(s) <=> k + m <= Len(s) /\ k + m + n <= Len(s) BY <1>1
<1>3. (\A j \in 1..(m + n) : s[k + j] = w[j])
        <=> (\A j \in 1..m : s[k + j] = u[j]) /\ (\A j \in 1..n : s[k + m + j] = v[j])
  <2>1. ASSUME \A j \in 1..(m + n) : s[k + j] = w[j], NEW j \in 1..m PROVE s[k + j] = u[j]
    <3>1. j \in 1..(m + n) /\ j <= m BY <1>1
    <3>. QED BY <1>1, <2>1, <3>1
  <2>2. ASSUME \A j \in 1..(m + n) : s[k + j] = w[j], NEW j \in 1..n PROVE s[k + m + j] = v[j]
    <3>1. m + j \in 1..(m + n) /\ ~ (m + j <= m) /\ m + j - m = j /\ k + (m + j) = k + m + j
      BY <1>1
    <3>2. s[k + (m + j)] = w[m + j] BY <2>2, <3>1
    <3>. QED BY <1>1, <3>1, <3>2
  <2>3. ASSUME \A j \in 1..m : s[k + j] = u[j], \A j \in 1..n : s[k + m + j] = v[j],
               NEW j \in 1..(m + n)
        PROVE  s[k + j] = w[j]
    <3>1. CASE j <= m
      <4>1. j \in 1..m BY <1>1, <3>1
      <4>. QED BY <1>1, <2>3, <3>1, <4>1
    <3>2. CASE ~ (j <= m)
      <4>1. j - m \in 1..n /\ k + m + (j - m) = k + j BY <1>1, <3>2
      <4>2. s[k + m + (j - m)] = v[j - m] BY <2>3, <4>1
      <4>. QED BY <1>1, <3>2, <4>1, <4>2
    <3>. QED BY <3>1, <3>2
  <2>. QED BY <2>1, <2>2, <2>3
<1>. QED BY <1>1, <1>2, <1>3 DEF Holds, w, m, n

LEMMA ReadsConcat ==
    ASSUME NEW S, NEW a \in ScanState(S), NEW b, NEW c, NEW u \in Seq(S), NEW v \in Seq(S),
           Reads(a, b, u), Reads(b, c, v)
    PROVE  Reads(a, c, u \o v)
<1>. DEFINE l == a.last
<1>1. l \in Seq(S) BY DEF ScanState
<1>2. (l \o u) \o v = l \o (u \o v)
  <2>. HIDE DEF l
  <2>. QED BY <1>1, ConcatAssociative
<1>. QED BY <1>2 DEF Reads

LEMMA ReadsNothing ==
    ASSUME NEW S, NEW a \in ScanState(S), ~ a.pair
    PROVE  Reads(a, a, <<>>)
<1>1. a.last \in Seq(S) BY DEF ScanState
<1>. QED BY <1>1, ConcatEmptySeq DEF Reads

(* What the next lemmas need of a scanner's loop over s.                   *)
Scans(S, s, sep, quotes, c) ==
    /\ c \in [0..Len(s) -> ScanState(S)] /\ c[0] = Fresh
    /\ \A n \in 1..Len(s) : c[n] = ScanStep(s, sep, quotes, c[n - 1], n)

LEMMA ScansTurn ==
    ASSUME NEW S, NEW s \in Seq(S), NEW sep, NEW quotes, NEW c, Scans(S, s, sep, quotes, c),
           NEW k \in Nat, k + 1 <= Len(s)
    PROVE  /\ c[k] \in ScanState(S) /\ c[k].last \in Seq(S)
           /\ Turned(s, sep, quotes, k + 1, c[k], c[k + 1])
<1>1. k \in 0..Len(s) /\ k + 1 \in 1..Len(s) /\ k + 1 - 1 = k BY LenProperties
<1>2. c[k] \in ScanState(S) /\ c[k + 1] = ScanStep(s, sep, quotes, c[k], k + 1)
  BY <1>1 DEF Scans
<1>3. Turned(s, sep, quotes, k + 1, c[k], c[k + 1]) BY <1>1, <1>2, ScanBranches
<1>. QED BY <1>2, <1>3 DEF ScanState

LEMMA TakenReads ==
    ASSUME NEW S, NEW a \in S, NEW st, NEW next, st.last \in Seq(S), Taken(st, next, a),
           ~ next.pair, next.quoted <=> st.quoted
    PROVE  Reads(st, next, <<a>>)
<1>1. Append(st.last, a) = st.last \o <<a>> BY AppendIsConcat
<1>. QED BY <1>1 DEF Taken, Reads

LEMMA HoldsOne ==
    ASSUME NEW S, NEW s \in Seq(S), NEW k \in Nat, NEW a, Holds(s, k, <<a>>)
    PROVE  k + 1 <= Len(s) /\ s[k + 1] = a
<1>1. Len(<<a>>) = 1 /\ <<a>>[1] = a /\ 1 \in 1..1 OBVIOUS
<1>. QED BY <1>1 DEF Holds

LEMMA HoldsTwo ==
    ASSUME NEW S, NEW s \in Seq(S), NEW k \in Nat, NEW a, NEW b, Holds(s, k, <<a, b>>)
    PROVE  k + 2 <= Len(s) /\ s[k + 1] = a /\ s[k + 2] = b
<1>1. Len(<<a, b>>) = 2 /\ <<a, b>>[1] = a /\ <<a, b>>[2] = b /\ 1 \in 1..2 /\ 2 \in 1..2
  OBVIOUS
<1>2. k + 2 <= Len(s) /\ \A j \in 1..2 : s[k + j] = <<a, b>>[j] BY <1>1 DEF Holds
<1>. QED BY <1>1, <1>2

LEMMA SymbolPasses ==
    ASSUME NEW S, NEW s \in Seq(S), NEW sep, NEW quotes,
           NEW c, Scans(S, s, sep, quotes, c),
           NEW k \in Nat, NEW a \in S, Holds(s, k, <<a>>), ~ c[k].pair,
           a # BS, a # sep \/ c[k].quoted, ~ (quotes /\ a = QT)
    PROVE  Reads(c[k], c[k + 1], <<a>>)
<1>1. k + 1 <= Len(s) /\ s[k + 1] = a BY HoldsOne
<1>2. c[k].last \in Seq(S) /\ Turned(s, sep, quotes, k + 1, c[k], c[k + 1]) BY <1>1, ScansTurn
<1>3. ~ Toggles(s, k + 1, quotes) BY <1>1 DEF Toggles
<1>4. Taken(c[k], c[k + 1], a) /\ ~ c[k + 1].pair /\ (c[k + 1].quoted <=> c[k].quoted)
  BY <1>1, <1>2, <1>3 DEF Turned
<1>. QED BY <1>2, <1>4, TakenReads

LEMMA PairPasses ==
    ASSUME NEW S, NEW s \in Seq(S), NEW sep, NEW quotes,
           NEW c, Scans(S, s, sep, quotes, c), BS \in S,
           NEW k \in Nat, NEW a \in S, Holds(s, k, <<BS, a>>), ~ c[k].pair
    PROVE  Reads(c[k], c[k + 2], <<BS, a>>)
<1>1. k + 2 <= Len(s) /\ s[k + 1] = BS /\ s[k + 2] = a BY HoldsTwo
<1>2. /\ k + 1 \in Nat /\ k + 1 + 1 = k + 2 /\ k + 1 <= Len(s) /\ k + 1 < Len(s)
  BY <1>1, LenProperties
<1>3. c[k].last \in Seq(S) /\ Turned(s, sep, quotes, k + 1, c[k], c[k + 1]) BY <1>2, ScansTurn
<1>4. Turned(s, sep, quotes, k + 2, c[k + 1], c[k + 2]) BY <1>1, <1>2, ScansTurn
<1>5. ~ Toggles(s, k + 1, quotes) BY <1>1 DEF Toggles, BS, QT
<1>6. Taken(c[k], c[k + 1], BS) /\ c[k + 1].pair /\ (c[k + 1].quoted <=> c[k].quoted)
  BY <1>1, <1>2, <1>3, <1>5 DEF Turned
<1>7. Taken(c[k + 1], c[k + 2], a) /\ ~ c[k + 2].pair /\ (c[k + 2].quoted <=> c[k + 1].quoted)
  BY <1>1, <1>4, <1>6 DEF Turned
<1>8. Append(Append(c[k].last, BS), a) = c[k].last \o <<BS, a>>
  <2>. DEFINE l == c[k].last
              b == BS
  <2>1. l \in Seq(S) /\ b \in S BY <1>3
  <2>. HIDE DEF l, b
  <2>2. Append(Append(l, b), a) = l \o <<b, a>> BY <2>1
  <2>. QED BY <2>2 DEF l, b
<1>. QED BY <1>6, <1>7, <1>8 DEF Taken, Reads

LEMMA QuotePasses ==
    ASSUME NEW S, NEW s \in Seq(S), NEW sep,
           NEW c, Scans(S, s, sep, TRUE, c), QT \in S,
           NEW k \in Nat, Holds(s, k, <<QT>>), ~ c[k].pair, k = 0 \/ s[k] # BS
    PROVE  /\ c[k + 1].parts = c[k].parts /\ c[k + 1].last = c[k].last \o <<QT>>
           /\ ~ c[k + 1].pair /\ (c[k + 1].quoted <=> ~ c[k].quoted)
<1>1. k + 1 <= Len(s) /\ s[k + 1] = QT BY HoldsOne
<1>2. c[k].last \in Seq(S) /\ Turned(s, sep, TRUE, k + 1, c[k], c[k + 1]) BY <1>1, ScansTurn
<1>3. Toggles(s, k + 1, TRUE)
  <2>1. k + 1 = 1 \/ s[k + 1 - 1] # BS
    <3>1. k + 1 - 1 = k OBVIOUS
    <3>. QED BY <3>1
  <2>. QED BY <1>1, <2>1 DEF Toggles
<1>4. Taken(c[k], c[k + 1], QT) /\ ~ c[k + 1].pair /\ (c[k + 1].quoted <=> ~ c[k].quoted)
  BY <1>1, <1>2, <1>3 DEF Turned
<1>5. Append(c[k].last, QT) = c[k].last \o <<QT>> BY <1>2, AppendIsConcat
<1>. QED BY <1>4, <1>5 DEF Taken

LEMMA EscapedSymbolTyped ==
    ASSUME NEW S, BS \in S, NEW a \in S, NEW delims
    PROVE  EscapedSymbol(a, delims) \in Seq(S)
<1>1. <<a>> \in Seq(S) /\ <<BS, a>> \in Seq(S)
  <2>. DEFINE b == BS
  <2>1. b \in S OBVIOUS
  <2>. HIDE DEF b
  <2>2. <<a>> \in Seq(S) /\ <<b, a>> \in Seq(S) BY <2>1
  <2>. QED BY <2>2 DEF b
<1>. QED BY <1>1 DEF EscapedSymbol

(* g is how Escaped writes x.                                              *)
Writes(g, S, x, delims) ==
    /\ g \in [0..Len(x) -> Seq(S)]
    /\ g[0] = <<>> /\ g[Len(x)] = Escaped(x, delims)
    /\ \A n \in 1..Len(x) : g[n] = g[n - 1] \o EscapedSymbol(x[n], delims)

LEMMA EscapedTurns ==
    ASSUME NEW S, BS \in S, NEW x \in Seq(S), NEW delims
    PROVE  \E g : Writes(g, S, x, delims)
<1>. DEFINE N == Len(x)
            D == Seq(S)
            Turn(st, n) == st \o EscapedSymbol(x[n], delims)
            step == [e \in D \X (1..N) |-> Turn(e[1], e[2])]
            Turns(g) == [n \in 0..N |-> IF n = 0 THEN <<>> ELSE Turn(g[n - 1], n)]
<1>1. N \in Nat /\ <<>> \in D BY EmptySeq, LenProperties
<1>2. Escaped(x, delims) = (CHOOSE g : g = Turns(g))[N] BY DEF Escaped
<1>3. \A st \in D, n \in 1..N : Turn(st, n) \in D
  <2>1. ASSUME NEW st \in D, NEW n \in 1..N PROVE Turn(st, n) \in D
    <3>1. EscapedSymbol(x[n], delims) \in Seq(S) BY ElementOfSeq, EscapedSymbolTyped
    <3>. QED BY <3>1, ConcatProperties
  <2>. QED BY <2>1
<1>. HIDE DEF N, D, Turn
<1>4. step \in Steps(N, D) BY <1>3 DEF Steps
<1>5. PICK f : Loops(f, N, D, <<>>, step)
  <2>. HIDE DEF step
  <2>. QED BY <1>1, <1>4, LoopExists
<1>6. f = Turns(f)
  <2>1. f \in [0..N -> D] /\ f[0] = <<>> /\ \A n \in 1..N : f[n] = step[<<f[n - 1], n>>]
    BY <1>5 DEF Loops
  <2>2. ASSUME NEW n \in 1..N PROVE f[n] = Turn(f[n - 1], n)
    <3>1. <<f[n - 1], n>> \in D \X (1..N) BY <1>1, <2>1
    <3>. QED BY <2>1, <3>1
  <2>3. \A n \in 0..N : f[n] = IF n = 0 THEN <<>> ELSE Turn(f[n - 1], n)
    <3>1. \A n \in 0..N : n = 0 \/ n \in 1..N BY <1>1
    <3>. QED BY <2>1, <2>2, <3>1
  <2>. QED BY <2>1, <2>3
<1>. DEFINE c == CHOOSE g : g = Turns(g)
<1>7. c = Turns(c) BY <1>6
<1>. HIDE DEF c, step
<1>8. c[0] = <<>> /\ \A n \in 1..N : c[n] = Turn(c[n - 1], n)
  <2>1. 0 \in 0..N /\ \A n \in 1..N : n \in 0..N /\ n # 0 BY <1>1
  <2>. QED BY <1>7, <2>1
<1>9. c \in [0..N -> D]
  <2>1. c = [n \in 0..N |-> c[n]] BY <1>7
  <2>2. \A n \in 1..N : c[n - 1] \in D => c[n] \in D BY <1>3, <1>8
  <2>. QED BY <1>1, <1>8, <2>1, <2>2, LoopTyped
<1>10. c[N] = Escaped(x, delims) BY <1>2 DEF c
<1>. QED BY <1>8, <1>9, <1>10 DEF N, D, Turn, Writes

LEMMA EscapedTyped ==
    ASSUME NEW S, BS \in S, NEW x \in Seq(S), NEW delims
    PROVE  Escaped(x, delims) \in Seq(S)
<1>1. PICK g : Writes(g, S, x, delims) BY EscapedTurns
<1>2. Len(x) \in 0..Len(x) BY LenProperties
<1>. QED BY <1>1, <1>2 DEF Writes

(* Names without the delimiters are written as they are.                   *)
LEMMA EscapedPlain ==
    ASSUME NEW S, BS \in S, NEW x \in Seq(S), NEW delims,
           \A n \in 1..Len(x) : x[n] \notin delims \cup {BS}
    PROVE  Escaped(x, delims) = x
<1>. DEFINE N == Len(x)
<1>1. N \in Nat BY LenProperties
<1>. PICK g : Writes(g, S, x, delims) BY EscapedTurns
<1>2. /\ g \in [0..N -> Seq(S)] /\ g[0] = <<>> /\ g[N] = Escaped(x, delims)
      /\ \A n \in 1..N : g[n] = g[n - 1] \o EscapedSymbol(x[n], delims)
  BY DEF Writes
<1>. DEFINE R == {n \in 0..N : g[n] = SubSeq(x, 1, n)}
<1>3. 0 \in R
  <2>1. SubSeq(x, 1, 0) = <<>> BY SubSeqEmpty
  <2>. QED BY <1>1, <1>2, <2>1
<1>4. ASSUME NEW n \in 1..N, n - 1 \in R PROVE n \in R
  <2>1. n \in 0..N /\ 1 \in 1..N /\ n \in 1..N BY <1>1
  <2>2. SubSeq(x, 1, n) = SubSeq(x, 1, n - 1) \o <<x[n]>> BY <2>1, SubSeqRecursiveSecond
  <2>3. EscapedSymbol(x[n], delims) = <<x[n]>> BY DEF EscapedSymbol
  <2>. QED BY <1>2, <1>4, <2>1, <2>2, <2>3
<1>. HIDE DEF R
<1>5. \A n \in 0..N : n \in R BY <1>1, <1>3, <1>4, InductionUpTo
<1>6. N \in R BY <1>1, <1>5
<1>. QED BY <1>2, <1>6, SubSeqFull DEF R

(* A name is not empty once escaped, starts with its first symbol or a     *)
(* backslash and ends with its last.                                       *)
LEMMA EscapedEnds ==
    ASSUME NEW S, BS \in S, NEW x \in Seq(S), x # <<>>, NEW delims
    PROVE  /\ Len(Escaped(x, delims)) > 0
           /\ Escaped(x, delims)[Len(Escaped(x, delims))] = x[Len(x)]
<1>. DEFINE N == Len(x)
<1>1. N \in Nat \ {0} BY EmptySeq
<1>. PICK g : Writes(g, S, x, delims) BY EscapedTurns
<1>2. /\ g \in [0..N -> Seq(S)] /\ g[0] = <<>> /\ g[N] = Escaped(x, delims)
      /\ \A n \in 1..N : g[n] = g[n - 1] \o EscapedSymbol(x[n], delims)
  BY DEF Writes
<1>. DEFINE u == g[N - 1]
            e == EscapedSymbol(x[N], delims)
<1>3. u \in Seq(S) /\ e \in Seq(S)
  <2>1. N - 1 \in 0..N /\ x[N] \in S BY <1>1, ElementOfSeq
  <2>. QED BY <1>2, <2>1, EscapedSymbolTyped
<1>4. Len(e) \in Nat \ {0} /\ e[Len(e)] = x[N]
  <2>1. Len(<<x[N]>>) = 1 /\ <<x[N]>>[1] = x[N] OBVIOUS
  <2>2. Len(<<BS, x[N]>>) = 2 /\ <<BS, x[N]>>[2] = x[N] OBVIOUS
  <2>. QED BY <2>1, <2>2 DEF EscapedSymbol
<1>5. Escaped(x, delims) = u \o e BY <1>1, <1>2
<1>. HIDE DEF u, e
<1>6. Len(u) \in Nat /\ Len(u \o e) = Len(u) + Len(e)
      /\ (u \o e)[Len(u) + Len(e)] = e[Len(e)]
  <2>1. Len(u) \in Nat BY <1>3, LenProperties
  <2>2. /\ Len(u) + Len(e) \in 1..(Len(u) + Len(e))
        /\ ~ (Len(u) + Len(e) <= Len(u)) /\ Len(u) + Len(e) - Len(u) = Len(e)
    BY <1>4, <2>1
  <2>. QED BY <1>3, <2>1, <2>2, ConcatProperties
<1>. QED BY <1>4, <1>5, <1>6

LEMMA EscapedBegins ==
    ASSUME NEW S, BS \in S, NEW x \in Seq(S), x # <<>>, NEW delims
    PROVE  Escaped(x, delims)[1] \in {BS} \cup ({x[1]} \ delims)
<1>. DEFINE N == Len(x)
<1>1. N \in Nat \ {0} BY EmptySeq
<1>. PICK g : Writes(g, S, x, delims) BY EscapedTurns
<1>2. /\ g \in [0..N -> Seq(S)] /\ g[0] = <<>> /\ g[N] = Escaped(x, delims)
      /\ \A n \in 1..N : g[n] = g[n - 1] \o EscapedSymbol(x[n], delims)
  BY DEF Writes
<1>. DEFINE Good(w) == Len(w) > 0 /\ w[1] \in {BS} \cup ({x[1]} \ delims)
            R == {n \in 0..N : n = 0 \/ Good(g[n])}
<1>3. 0 \in R BY <1>1
<1>4. ASSUME NEW n \in 1..N, n - 1 \in R PROVE n \in R
  <2>. DEFINE u == g[n - 1]
              e == EscapedSymbol(x[n], delims)
  <2>1. n \in 0..N /\ n - 1 \in 0..N BY <1>1
  <2>2. u \in Seq(S) /\ e \in Seq(S) /\ x[n] \in S
    BY <1>2, <2>1, ElementOfSeq, EscapedSymbolTyped
  <2>3. Len(e) > 0 /\ (n = 1 => Good(e))
    <3>1. Len(<<x[n]>>) = 1 /\ <<x[n]>>[1] = x[n] OBVIOUS
    <3>2. Len(<<BS, x[n]>>) = 2 /\ <<BS, x[n]>>[1] = BS OBVIOUS
    <3>. QED BY <3>1, <3>2 DEF EscapedSymbol
  <2>4. g[n] = u \o e BY <1>2
  <2>5. n = 1 => u = <<>> BY <1>2
  <2>6. n # 1 => Good(u) BY <1>4
  <2>. HIDE DEF u, e
  <2>7. Len(u) \in Nat /\ Len(e) \in Nat /\ Len(<<>>) = 0 BY <2>2, LenProperties, EmptySeq
  <2>8. Len(u \o e) > 0 /\ (u \o e)[1] = IF 1 <= Len(u) THEN u[1] ELSE e[1 - Len(u)]
    <3>1. 1 \in 1..(Len(u) + Len(e)) BY <2>3, <2>7
    <3>. QED BY <2>2, <2>3, <2>7, <3>1, ConcatProperties
  <2>9. Good(u \o e)
    <3>1. CASE n = 1
      <4>1. Len(u) = 0 BY <2>5, <2>7, <3>1
      <4>2. ~ (1 <= Len(u)) /\ 1 - Len(u) = 1 BY <4>1
      <4>. QED BY <2>3, <2>8, <3>1, <4>2
    <3>2. CASE n # 1
      <4>1. 1 <= Len(u) BY <2>6, <2>7, <3>2
      <4>. QED BY <2>6, <2>8, <3>2, <4>1
    <3>. QED BY <3>1, <3>2
  <2>. QED BY <2>1, <2>4, <2>9
<1>. HIDE DEF R
<1>5. \A n \in 0..N : n \in R BY <1>1, <1>3, <1>4, InductionUpTo
<1>6. N \in R /\ N # 0 BY <1>1, <1>5
<1>. QED BY <1>2, <1>6 DEF R

LEMMA HoldsTyped ==
    ASSUME NEW S, NEW s \in Seq(S)
    PROVE  Holds(s, 0, s)
<1>1. Len(s) \in Nat BY LenProperties
<1>. QED BY <1>1 DEF Holds

-----------------------------------------------------------------------------
(* Names come back                                                         *)

LEMMA UnescapeTurn ==
    ASSUME NEW S, NEW s \in Seq(S), NEW delims, NEW k \in Nat, k + 1 <= Len(s)
    PROVE  LET u == UnescapeLoop(s, delims)
           IN  /\ u[k].out \in Seq(S) /\ u[k + 1].out \in Seq(S)
               /\ ~ u[k].pair /\ Escapes(s, delims, k + 1) =>
                    u[k + 1].pair /\ u[k + 1].out = u[k].out
               /\ u[k].pair \/ ~ Escapes(s, delims, k + 1) =>
                    ~ u[k + 1].pair /\ u[k + 1].out = Append(u[k].out, s[k + 1])
<1>. DEFINE u == UnescapeLoop(s, delims)
            a == u[k]
            b == u[k + 1]
<1>1. k \in 0..Len(s) /\ k + 1 \in 0..Len(s) /\ k + 1 \in 1..Len(s) /\ k + 1 - 1 = k
  BY LenProperties
<1>2. /\ a \in UnescapeState(S) /\ b \in UnescapeState(S)
      /\ b = UnescapeStep(s, delims, a, k + 1)
  BY <1>1, UnescapeLoopTurns
<1>. HIDE DEF a, b
<1>3. /\ a.out \in Seq(S) /\ b.out \in Seq(S) /\ a.pair \in BOOLEAN
      /\ a = [out |-> a.out, pair |-> a.pair]
  BY <1>2 DEF UnescapeState
<1>4. CASE ~ a.pair /\ Escapes(s, delims, k + 1)
  <2>1. b = [a EXCEPT !.pair = TRUE] BY <1>2, <1>4 DEF UnescapeStep
  <2>2. b.pair = TRUE /\ b.out = a.out BY <1>3, <2>1
  <2>. QED BY <1>3, <1>4, <2>2 DEF a, b
<1>5. CASE a.pair \/ ~ Escapes(s, delims, k + 1)
  <2>1. b = [out |-> Append(a.out, s[k + 1]), pair |-> FALSE] BY <1>2, <1>5 DEF UnescapeStep
  <2>2. b.pair = FALSE /\ b.out = Append(a.out, s[k + 1]) BY <2>1
  <2>. QED BY <1>3, <1>5, <2>2 DEF a, b
<1>. QED BY <1>4, <1>5

(* The next symbol of a name, escaped or not, comes back as it was.        *)
LEMMA SymbolComesBack ==
    ASSUME NEW S, BS \in S, NEW s \in Seq(S), NEW delims, NEW k \in Nat, NEW a \in S,
           Holds(s, k, EscapedSymbol(a, delims)), ~ UnescapeLoop(s, delims)[k].pair
    PROVE  LET u == UnescapeLoop(s, delims)
               next == k + Len(EscapedSymbol(a, delims))
           IN  u[k].out \in Seq(S) /\ ~ u[next].pair /\ u[next].out = Append(u[k].out, a)
<1>. DEFINE u == UnescapeLoop(s, delims)
<1>1. CASE a \in delims \cup {BS}
  <2>1. EscapedSymbol(a, delims) = <<BS, a>> BY <1>1 DEF EscapedSymbol
  <2>2. k + 2 <= Len(s) /\ s[k + 1] = BS /\ s[k + 2] = a BY <2>1, HoldsTwo
  <2>3. /\ Len(<<BS, a>>) = 2 /\ k + 1 \in Nat /\ k + 1 + 1 = k + 2 /\ k + 1 <= Len(s)
        /\ k + 1 < Len(s)
    BY <2>2, LenProperties
  <2>4. Escapes(s, delims, k + 1) BY <1>1, <2>2, <2>3 DEF Escapes
  <2>5. u[k].out \in Seq(S) /\ u[k + 1].pair /\ u[k + 1].out = u[k].out
    BY <2>3, <2>4, UnescapeTurn
  <2>6. ~ u[k + 2].pair /\ u[k + 2].out = Append(u[k + 1].out, s[k + 2])
    <3>. DEFINE m == k + 1
    <3>1. m \in Nat /\ m + 1 = k + 2 /\ m + 1 <= Len(s) /\ u[m].pair BY <2>2, <2>3, <2>5
    <3>. HIDE DEF m
    <3>2. ~ u[m + 1].pair /\ u[m + 1].out = Append(u[m].out, s[m + 1])
      BY <3>1, UnescapeTurn
    <3>. QED BY <3>1, <3>2 DEF m
  <2>. HIDE DEF u
  <2>. QED BY <2>1, <2>2, <2>3, <2>5, <2>6 DEF u
<1>2. CASE a \notin delims \cup {BS}
  <2>1. EscapedSymbol(a, delims) = <<a>> BY <1>2 DEF EscapedSymbol
  <2>2. k + 1 <= Len(s) /\ s[k + 1] = a BY <2>1, HoldsOne
  <2>3. Len(<<a>>) = 1 OBVIOUS
  <2>4. ~ Escapes(s, delims, k + 1) BY <1>2, <2>2 DEF Escapes
  <2>5. u[k].out \in Seq(S) /\ ~ u[k + 1].pair /\ u[k + 1].out = Append(u[k].out, a)
    BY <2>2, <2>4, UnescapeTurn
  <2>. HIDE DEF u
  <2>. QED BY <2>1, <2>3, <2>5 DEF u
<1>. QED BY <1>1, <1>2

LEMMA NameComesBack ==
    ASSUME NEW S, BS \in S, NEW x \in Seq(S), NEW delims
    PROVE  _unescape(Escaped(x, delims), delims) = x
<1>. DEFINE N == Len(x)
            s == Escaped(x, delims)
            u == UnescapeLoop(s, delims)
            at(n, w) == Holds(s, 0, w) => ~ u[Len(w)].pair /\ u[Len(w)].out = SubSeq(x, 1, n)
<1>1. N \in Nat /\ s \in Seq(S) BY EscapedTyped, LenProperties
<1>. PICK g : Writes(g, S, x, delims) BY EscapedTurns
<1>2. /\ g \in [0..N -> Seq(S)] /\ g[0] = <<>> /\ g[N] = s
      /\ \A n \in 1..N : g[n] = g[n - 1] \o EscapedSymbol(x[n], delims)
  BY DEF Writes
<1>. DEFINE R == {n \in 0..N : at(n, g[n])}
<1>3. 0 \in R
  <2>1. SubSeq(x, 1, 0) = <<>> /\ Len(<<>>) = 0 BY SubSeqEmpty
  <2>2. u[0] = Unread BY <1>1, UnescapeLoopTurns
  <2>3. ~ u[0].pair /\ u[0].out = <<>> BY <2>2 DEF Unread
  <2>. HIDE DEF u
  <2>. QED BY <1>1, <1>2, <2>1, <2>3
<1>. HIDE DEF s
<1>4. ASSUME NEW n \in 1..N, n - 1 \in R PROVE n \in R
  <2>. DEFINE w == g[n - 1]
              a == x[n]
              e == EscapedSymbol(a, delims)
  <2>1. n \in 0..N /\ n - 1 \in 0..N /\ 1 \in 1..N /\ a \in S BY <1>1, ElementOfSeq
  <2>2. w \in Seq(S) /\ e \in Seq(S) /\ Len(w) \in Nat
    BY <1>2, <2>1, EscapedSymbolTyped, LenProperties
  <2>3. g[n] = w \o e BY <1>2
  <2>4. at(n - 1, w) BY <1>4
  <2>5. SubSeq(x, 1, n) = Append(SubSeq(x, 1, n - 1), a)
    <3>1. SubSeq(x, 1, n) = SubSeq(x, 1, n - 1) \o <<a>> BY <2>1, SubSeqRecursiveSecond
    <3>2. SubSeq(x, 1, n - 1) \in Seq(S)
      <4>1. 1 \in Int /\ n - 1 \in Int /\ \A i \in 1..(n - 1) : x[i] \in S
        BY <1>1, ElementOfSeq
      <4>. QED BY <4>1, SubSeqProperties
    <3>. QED BY <2>1, <3>1, <3>2, AppendIsConcat
  <2>. HIDE DEF w, e, a, R
  <2>6. ASSUME Holds(s, 0, w \o e)
        PROVE  ~ u[Len(w \o e)].pair /\ u[Len(w \o e)].out = SubSeq(x, 1, n)
    <3>1. Holds(s, 0, w) /\ Holds(s, Len(w), e)
      <4>1. 0 \in Nat /\ 0 + Len(w) = Len(w) BY <2>2
      <4>. QED BY <1>1, <2>2, <2>6, <4>1, HoldsConcat
    <3>2. ~ u[Len(w)].pair /\ u[Len(w)].out = SubSeq(x, 1, n - 1) BY <2>4, <3>1
    <3>3. /\ ~ u[Len(w) + Len(e)].pair
          /\ u[Len(w) + Len(e)].out = Append(u[Len(w)].out, a)
      <4>. DEFINE k == Len(w)
      <4>1. k \in Nat /\ Holds(s, k, EscapedSymbol(a, delims)) /\ ~ u[k].pair
        BY <2>2, <3>1, <3>2 DEF e
      <4>. HIDE DEF k
      <4>2. /\ ~ u[k + Len(EscapedSymbol(a, delims))].pair
            /\ u[k + Len(EscapedSymbol(a, delims))].out = Append(u[k].out, a)
        BY <1>1, <2>1, <4>1, SymbolComesBack
      <4>. QED BY <4>2 DEF k, e
    <3>4. Len(w \o e) = Len(w) + Len(e) BY <2>2, ConcatProperties
    <3>. HIDE DEF u
    <3>. QED BY <2>5, <3>2, <3>3, <3>4
  <2>7. at(n, g[n])
    <3>. HIDE DEF u
    <3>. QED BY <2>3, <2>6
  <2>. QED BY <2>1, <2>7 DEF R
<1>. HIDE DEF R
<1>5. \A n \in 0..N : n \in R BY <1>1, <1>3, <1>4, InductionUpTo
<1>6. N \in R BY <1>1, <1>5
<1>7. at(N, s) BY <1>2, <1>6 DEF R
<1>8. u[Len(s)].out = x BY <1>1, <1>7, HoldsTyped, SubSeqFull
<1>. QED BY <1>8 DEF _unescape, s

LEMMA HoldsState ==
    ASSUME NEW S, NEW s \in Seq(S), NEW sep, NEW quotes, NEW c, Scans(S, s, sep, quotes, c),
           NEW k \in Nat, NEW w \in Seq(S), Holds(s, k, w)
    PROVE  c[k] \in ScanState(S) /\ k <= Len(s)
<1>1. Len(w) \in Nat /\ Len(s) \in Nat /\ k + Len(w) <= Len(s) BY LenProperties DEF Holds
<1>2. k \in 0..Len(s) BY <1>1
<1>. QED BY <1>2 DEF Scans

(* Behind the first k symbols the scanner reads w as it is.                *)
PassesAt(s, c, k, w) == Holds(s, k, w) => Reads(c[k], c[k + Len(w)], w)

LEMMA ConcatPasses ==
    ASSUME NEW S, NEW s \in Seq(S), NEW sep, NEW quotes, NEW c, Scans(S, s, sep, quotes, c),
           NEW k \in Nat, NEW u \in Seq(S), NEW v \in Seq(S), Holds(s, k, u \o v),
           PassesAt(s, c, k, u),
           Reads(c[k], c[k + Len(u)], u) => PassesAt(s, c, k + Len(u), v)
    PROVE  Reads(c[k], c[k + Len(u \o v)], u \o v)
<1>. DEFINE m == k + Len(u)
<1>1. Len(u) \in Nat /\ Len(v) \in Nat /\ m \in Nat BY LenProperties
<1>2. Holds(s, k, u) /\ Holds(s, m, v) BY HoldsConcat
<1>3. Reads(c[k], c[m], u) BY <1>2 DEF PassesAt
<1>4. Reads(c[m], c[m + Len(v)], v) BY <1>2, <1>3 DEF PassesAt
<1>5. k + Len(u \o v) = m + Len(v) BY <1>1, ConcatProperties
<1>6. c[k] \in ScanState(S) BY <1>2, HoldsState
<1>. HIDE DEF m
<1>7. Reads(c[k], c[m + Len(v)], u \o v) BY <1>3, <1>4, <1>6, ReadsConcat
<1>. QED BY <1>5, <1>7

LEMMA EscapedSymbolPasses ==
    ASSUME NEW S, BS \in S, NEW s \in Seq(S), NEW sep, NEW quotes,
           NEW c, Scans(S, s, sep, quotes, c),
           NEW a \in S, NEW delims, NEW k \in Nat, ~ c[k].pair,
           sep \in delims \/ c[k].quoted,
           ~ quotes \/ QT \in delims \/ a # QT
    PROVE  PassesAt(s, c, k, EscapedSymbol(a, delims))
<1>1. SUFFICES ASSUME Holds(s, k, EscapedSymbol(a, delims))
               PROVE  Reads(c[k], c[k + Len(EscapedSymbol(a, delims))], EscapedSymbol(a, delims))
  BY DEF PassesAt
<1>2. CASE a \in delims \cup {BS}
  <2>1. EscapedSymbol(a, delims) = <<BS, a>> BY <1>2 DEF EscapedSymbol
  <2>2. Len(<<BS, a>>) = 2 OBVIOUS
  <2>3. Reads(c[k], c[k + 2], <<BS, a>>) BY <1>1, <2>1, PairPasses
  <2>. QED BY <2>1, <2>2, <2>3
<1>3. CASE a \notin delims \cup {BS}
  <2>1. EscapedSymbol(a, delims) = <<a>> BY <1>3 DEF EscapedSymbol
  <2>2. Len(<<a>>) = 1 OBVIOUS
  <2>3. a # BS /\ (a # sep \/ c[k].quoted) /\ ~ (quotes /\ a = QT) BY <1>3
  <2>4. Reads(c[k], c[k + 1], <<a>>) BY <1>1, <2>1, <2>3, SymbolPasses
  <2>. QED BY <2>1, <2>2, <2>4
<1>. QED BY <1>2, <1>3

LEMMA EscapedPasses ==
    ASSUME NEW S, BS \in S, NEW s \in Seq(S), NEW sep, NEW quotes,
           NEW c, Scans(S, s, sep, quotes, c),
           NEW x \in Seq(S), NEW delims, NEW k \in Nat, ~ c[k].pair,
           sep \in delims \/ c[k].quoted,
           ~ quotes \/ QT \in delims \/ \A i \in 1..Len(x) : x[i] # QT
    PROVE  PassesAt(s, c, k, Escaped(x, delims))
<1>. DEFINE N == Len(x)
<1>1. N \in Nat BY LenProperties
<1>. PICK g : Writes(g, S, x, delims) BY EscapedTurns
<1>2. /\ g \in [0..N -> Seq(S)] /\ g[0] = <<>> /\ g[N] = Escaped(x, delims)
      /\ \A n \in 1..N : g[n] = g[n - 1] \o EscapedSymbol(x[n], delims)
  BY DEF Writes
<1>. DEFINE R == {n \in 0..N : PassesAt(s, c, k, g[n])}
<1>3. 0 \in R
  <2>1. <<>> \in Seq(S) /\ Len(<<>>) = 0 /\ k + 0 = k BY EmptySeq
  <2>2. PassesAt(s, c, k, <<>>)
    <3>1. SUFFICES ASSUME Holds(s, k, <<>>) PROVE Reads(c[k], c[k + Len(<<>>)], <<>>)
      BY DEF PassesAt
    <3>2. c[k] \in ScanState(S) BY <2>1, <3>1, HoldsState
    <3>. QED BY <2>1, <3>2, ReadsNothing
  <2>. QED BY <1>1, <1>2, <2>2
<1>4. ASSUME NEW n \in 1..N, n - 1 \in R PROVE n \in R
  <2>. DEFINE w == g[n - 1]
              a == x[n]
              e == EscapedSymbol(a, delims)
              m == k + Len(w)
  <2>1. n \in 0..N /\ n - 1 \in 0..N /\ a \in S BY <1>1, ElementOfSeq
  <2>2. w \in Seq(S) /\ e \in Seq(S) BY <1>2, <2>1, EscapedSymbolTyped
  <2>3. g[n] = w \o e BY <1>2
  <2>4. PassesAt(s, c, k, w) BY <1>4
  <2>5. m \in Nat BY <2>2, LenProperties
  <2>6. ~ quotes \/ QT \in delims \/ a # QT OBVIOUS
  <2>. HIDE DEF w, e, a, R
  <2>7. ASSUME Reads(c[k], c[m], w) PROVE PassesAt(s, c, m, e)
    <3>1. ~ c[m].pair /\ (sep \in delims \/ c[m].quoted) BY <2>7 DEF Reads
    <3>. HIDE DEF m
    <3>. QED BY <2>1, <2>5, <2>6, <3>1, EscapedSymbolPasses DEF e
  <2>8. PassesAt(s, c, k, w \o e)
    <3>1. SUFFICES ASSUME Holds(s, k, w \o e) PROVE Reads(c[k], c[k + Len(w \o e)], w \o e)
      BY DEF PassesAt
    <3>. QED BY <2>2, <2>4, <2>7, <3>1, ConcatPasses
  <2>. QED BY <2>1, <2>3, <2>8 DEF R
<1>. HIDE DEF R
<1>5. \A n \in 0..N : n \in R BY <1>1, <1>3, <1>4, InductionUpTo
<1>6. N \in R BY <1>1, <1>5
<1>. QED BY <1>2, <1>6 DEF R

-----------------------------------------------------------------------------
(* Texts the scanner does not cut                                          *)

(* Not right behind a backslash.                                           *)
Clear(s, k) == k = 0 \/ s[k] # BS

(* Wherever w is held, outside quotes and not behind a backslash, the      *)
(* scanner reads it as it is.                                              *)
Inert(S, w, sep, quotes) ==
    \A s \in Seq(S), k \in Nat : \A c :
        Scans(S, s, sep, quotes, c) /\ ~ c[k].pair /\ ~ c[k].quoted /\ Clear(s, k)
            => PassesAt(s, c, k, w)

LEMMA EscapedIsInert ==
    ASSUME NEW S, BS \in S, NEW x \in Seq(S), NEW delims, NEW sep \in delims, NEW quotes,
           ~ quotes \/ \A i \in 1..Len(x) : x[i] # QT
    PROVE  Inert(S, Escaped(x, delims), sep, quotes)
BY EscapedPasses DEF Inert

LEMMA PlainIsInert ==
    ASSUME NEW S, BS \in S, NEW x \in Seq(S), NEW sep, NEW quotes,
           \A i \in 1..Len(x) : x[i] \notin {BS, QT, sep}
    PROVE  Inert(S, x, sep, quotes)
<1>1. Escaped(x, {sep}) = x BY EscapedPlain
<1>2. Inert(S, Escaped(x, {sep}), sep, quotes) BY EscapedIsInert
<1>. QED BY <1>1, <1>2

(* A symbol that is no mark may stand between two such texts.              *)
LEMMA InertAround ==
    ASSUME NEW S, NEW u \in Seq(S), NEW v \in Seq(S), NEW a \in S, NEW sep, NEW quotes,
           a # BS, a # sep, ~ (quotes /\ a = QT),
           Inert(S, u, sep, quotes), Inert(S, v, sep, quotes)
    PROVE  Inert(S, u \o <<a>> \o v, sep, quotes)
<1>. SUFFICES ASSUME NEW s \in Seq(S), NEW k \in Nat, NEW c, Scans(S, s, sep, quotes, c),
                     ~ c[k].pair, ~ c[k].quoted, Clear(s, k)
              PROVE  PassesAt(s, c, k, u \o <<a>> \o v)
  BY DEF Inert
<1>. DEFINE w == u \o <<a>>
            m == k + Len(u)
<1>1. /\ <<a>> \in Seq(S) /\ Len(<<a>>) = 1 /\ w \in Seq(S) /\ Len(w) = Len(u) + 1
      /\ Len(u) \in Nat /\ m \in Nat
  BY ConcatProperties, LenProperties
<1>2. SUFFICES ASSUME Holds(s, k, w \o v) PROVE Reads(c[k], c[k + Len(w \o v)], w \o v)
  BY DEF PassesAt
<1>. HIDE DEF w
<1>3. Holds(s, k, w) BY <1>1, <1>2, HoldsConcat
<1>4. Holds(s, k, u) /\ Holds(s, m, <<a>>) BY <1>1, <1>3, HoldsConcat DEF w
<1>5. PassesAt(s, c, k, u) BY DEF Inert
<1>6. Reads(c[k], c[m], u) BY <1>4, <1>5 DEF PassesAt
<1>7. Reads(c[m], c[m + 1], <<a>>)
  <2>1. ~ c[m].pair BY <1>6 DEF Reads
  <2>. HIDE DEF m
  <2>. QED BY <1>1, <1>4, <2>1, SymbolPasses
<1>8. PassesAt(s, c, k, w)
  <2>1. PassesAt(s, c, m, <<a>>) BY <1>1, <1>7 DEF PassesAt
  <2>2. Reads(c[k], c[k + Len(w)], w) BY <1>1, <1>3, <1>5, <2>1, ConcatPasses DEF w
  <2>. QED BY <2>2 DEF PassesAt
<1>9. ASSUME Reads(c[k], c[k + Len(w)], w) PROVE PassesAt(s, c, k + Len(w), v)
  <2>. DEFINE n == k + Len(w)
  <2>1. n \in Nat /\ n = m + 1 BY <1>1
  <2>2. s[n] = a BY <1>1, <1>4, <2>1, HoldsOne
  <2>3. Clear(s, n) BY <2>2 DEF Clear
  <2>4. ~ c[n].pair /\ ~ c[n].quoted BY <1>9 DEF Reads
  <2>. HIDE DEF n
  <2>5. PassesAt(s, c, n, v) BY <2>1, <2>3, <2>4 DEF Inert
  <2>. QED BY <2>5 DEF n
<1>. QED BY <1>1, <1>2, <1>8, <1>9, ConcatPasses

(* g is how Joined puts parts one behind the other.                        *)
Joins(g, S, parts, sep) ==
    /\ g \in [0..Len(parts) -> Seq(S)]
    /\ parts # <<>> => g[1] = parts[1]
    /\ \A n \in 2..Len(parts) : g[n] = g[n - 1] \o <<sep>> \o parts[n]
    /\ g[Len(parts)] = Joined(parts, sep)

LEMMA JoinedTurns ==
    ASSUME NEW S, NEW sep \in S, NEW parts \in Seq(Seq(S))
    PROVE  \E g : Joins(g, S, parts, sep)
<1>. DEFINE N == Len(parts)
            D == Seq(S)
            Turn(st, n) == IF n = 1 THEN parts[1] ELSE st \o <<sep>> \o parts[n]
            step == [e \in D \X (1..N) |-> Turn(e[1], e[2])]
            Turns(g) == [n \in 0..N |-> IF n = 0 THEN <<>> ELSE Turn(g[n - 1], n)]
            Flat(g) == [n \in 0..N |->
                IF n = 0 THEN <<>> ELSE IF n = 1 THEN parts[1] ELSE g[n - 1] \o <<sep>> \o parts[n]]
<1>1. N \in Nat /\ <<>> \in D BY EmptySeq, LenProperties
<1>2. Joined(parts, sep) = (CHOOSE g : g = Turns(g))[N]
  <2>1. Joined(parts, sep) = (CHOOSE g : g = Flat(g))[N] BY DEF Joined
  <2>2. \A g : Flat(g) = Turns(g) OBVIOUS
  <2>. HIDE DEF Flat, Turns
  <2>. QED BY <2>1, <2>2
<1>3. \A st \in D, n \in 1..N : Turn(st, n) \in D
  <2>1. ASSUME NEW st \in D, NEW n \in 1..N PROVE Turn(st, n) \in D
    <3>1. parts[n] \in Seq(S) /\ <<sep>> \in Seq(S) BY ElementOfSeq
    <3>2. st \o <<sep>> \in Seq(S) BY <3>1, ConcatProperties
    <3>3. st \o <<sep>> \o parts[n] \in Seq(S) BY <3>1, <3>2, ConcatProperties
    <3>. QED BY <3>1, <3>3
  <2>. QED BY <2>1
<1>5. \A st : Turn(st, 1) = parts[1] OBVIOUS
<1>6. \A st : \A n \in 2..N : Turn(st, n) = st \o <<sep>> \o parts[n]
  <2>. HIDE DEF N
  <2>1. \A n \in 2..N : n # 1 BY <1>1
  <2>. QED BY <2>1
<1>. HIDE DEF N, D, Turn
<1>7. step \in Steps(N, D) BY <1>3 DEF Steps
<1>8. PICK f : Loops(f, N, D, <<>>, step)
  <2>. HIDE DEF step
  <2>. QED BY <1>1, <1>7, LoopExists
<1>9. f = Turns(f)
  <2>1. f \in [0..N -> D] /\ f[0] = <<>> /\ \A n \in 1..N : f[n] = step[<<f[n - 1], n>>]
    BY <1>8 DEF Loops
  <2>2. ASSUME NEW n \in 1..N PROVE f[n] = Turn(f[n - 1], n)
    <3>1. <<f[n - 1], n>> \in D \X (1..N) BY <1>1, <2>1
    <3>. QED BY <2>1, <3>1
  <2>3. \A n \in 0..N : f[n] = IF n = 0 THEN <<>> ELSE Turn(f[n - 1], n)
    <3>1. \A n \in 0..N : n = 0 \/ n \in 1..N BY <1>1
    <3>. QED BY <2>1, <2>2, <3>1
  <2>. QED BY <2>1, <2>3
<1>. DEFINE c == CHOOSE g : g = Turns(g)
<1>10. c = Turns(c) BY <1>9
<1>. HIDE DEF c, step
<1>11. c[0] = <<>> /\ \A n \in 1..N : c[n] = Turn(c[n - 1], n)
  <2>1. 0 \in 0..N /\ \A n \in 1..N : n \in 0..N /\ n # 0 BY <1>1
  <2>. QED BY <1>10, <2>1
<1>12. c \in [0..N -> D]
  <2>1. c = [n \in 0..N |-> c[n]] BY <1>10
  <2>2. \A n \in 1..N : c[n - 1] \in D => c[n] \in D BY <1>3, <1>11
  <2>. QED BY <1>1, <1>11, <2>1, <2>2, LoopTyped
<1>13. c[N] = Joined(parts, sep) BY <1>2 DEF c
<1>14. parts # <<>> => c[1] = parts[1]
  <2>1. parts # <<>> => 1 \in 1..N BY EmptySeq DEF N
  <2>. QED BY <1>5, <1>11, <2>1
<1>15. \A n \in 2..N : c[n] = c[n - 1] \o <<sep>> \o parts[n]
  <2>1. \A n \in 2..N : n \in 1..N BY <1>1
  <2>. QED BY <1>6, <1>11, <2>1
<1>. QED BY <1>12, <1>13, <1>14, <1>15 DEF N, D, Joins

LEMMA JoinedTyped ==
    ASSUME NEW S, NEW sep \in S, NEW parts \in Seq(Seq(S))
    PROVE  Joined(parts, sep) \in Seq(S)
<1>1. PICK g : Joins(g, S, parts, sep) BY JoinedTurns
<1>2. Len(parts) \in 0..Len(parts) BY LenProperties
<1>. QED BY <1>1, <1>2 DEF Joins

LEMMA JoinedTwo ==
    ASSUME NEW S, NEW sep \in S, NEW u \in Seq(S), NEW v \in Seq(S)
    PROVE  Joined(<<u, v>>, sep) = u \o <<sep>> \o v
<1>. DEFINE parts == <<u, v>>
<1>1. /\ parts \in Seq(Seq(S)) /\ Len(parts) = 2 /\ parts[1] = u /\ parts[2] = v
      /\ parts # <<>>
  <2>. DEFINE T == Seq(S)
  <2>1. u \in T /\ v \in T OBVIOUS
  <2>. HIDE DEF T
  <2>2. <<u, v>> \in Seq(T) /\ Len(<<u, v>>) = 2 BY <2>1
  <2>. QED BY <2>2 DEF T
<1>. HIDE DEF parts
<1>2. PICK g : Joins(g, S, parts, sep) BY <1>1, JoinedTurns
<1>3. g[1] = u /\ g[2] = g[1] \o <<sep>> \o v /\ g[2] = Joined(parts, sep)
  <2>1. 2 \in 2..2 /\ 2 - 1 = 1 OBVIOUS
  <2>. QED BY <1>1, <1>2, <2>1 DEF Joins
<1>. QED BY <1>3 DEF parts

(* Parts that a scanner reads as they are, joined by no mark, are one.     *)
LEMMA JoinedIsInert ==
    ASSUME NEW S, NEW a \in S, NEW parts \in Seq(Seq(S)), parts # <<>>, NEW sep, NEW quotes,
           a # BS, a # sep, ~ (quotes /\ a = QT),
           \A n \in 1..Len(parts) : Inert(S, parts[n], sep, quotes)
    PROVE  Inert(S, Joined(parts, a), sep, quotes)
<1>. DEFINE N == Len(parts)
<1>1. N \in Nat \ {0} BY EmptySeq
<1>2. PICK g : Joins(g, S, parts, a) BY JoinedTurns
<1>3. /\ g \in [0..N -> Seq(S)] /\ g[1] = parts[1] /\ g[N] = Joined(parts, a)
      /\ \A n \in 2..N : g[n] = g[n - 1] \o <<a>> \o parts[n]
  BY <1>2 DEF Joins
<1>. DEFINE R == {n \in 0..N : n = 0 \/ Inert(S, g[n], sep, quotes)}
<1>4. 0 \in R BY <1>1
<1>5. ASSUME NEW n \in 1..N, n - 1 \in R PROVE n \in R
  <2>1. n \in 0..N /\ parts[n] \in Seq(S) BY <1>1, ElementOfSeq
  <2>2. CASE n = 1 BY <1>3, <2>1, <2>2
  <2>3. CASE n # 1
    <3>1. n \in 2..N /\ n - 1 \in 0..N /\ n - 1 # 0 BY <1>1, <2>3
    <3>2. g[n - 1] \in Seq(S) /\ Inert(S, g[n - 1], sep, quotes) BY <1>3, <1>5, <3>1
    <3>3. Inert(S, g[n - 1] \o <<a>> \o parts[n], sep, quotes)
      BY <2>1, <3>2, InertAround
    <3>. QED BY <1>3, <2>1, <3>1, <3>3
  <2>. QED BY <2>2, <2>3
<1>. HIDE DEF R
<1>6. \A n \in 0..N : n \in R BY <1>1, <1>4, <1>5, InductionUpTo
<1>7. N \in R /\ N # 0 BY <1>1, <1>6
<1>. QED BY <1>3, <1>7 DEF R

-----------------------------------------------------------------------------
(* Splitting what was joined                                               *)

(* The scanner has read n of the parts and a separator between them.       *)
ReadParts(st, parts, n) ==
    /\ st.parts = SubSeq(parts, 1, n - 1) /\ st.last = parts[n]
    /\ ~ st.pair /\ ~ st.quoted

LEMMA NextPart ==
    ASSUME NEW S, NEW s \in Seq(S), NEW sep \in NameDelims, NEW quotes,
           NEW c, Scans(S, s, sep, quotes, c), sep \in S,
           NEW parts \in Seq(Seq(S)), NEW n \in 2..Len(parts),
           Inert(S, parts[n], sep, quotes),
           NEW m \in Nat, Holds(s, m, <<sep>>), Holds(s, m + 1, parts[n]),
           ReadParts(c[m], parts, n - 1)
    PROVE  ReadParts(c[m + 1 + Len(parts[n])], parts, n)
<1>. DEFINE k == m + 1
            p == parts[n]
<1>1. n \in Nat /\ n - 1 \in 1..Len(parts) /\ n \in 1..Len(parts) /\ n - 1 - 1 = n - 2
      /\ k \in Nat /\ p \in Seq(S)
  <2>1. Len(parts) \in Nat BY LenProperties
  <2>2. n \in Nat /\ n - 1 \in 1..Len(parts) /\ n \in 1..Len(parts) /\ n - 1 - 1 = n - 2
    BY <2>1
  <2>. QED BY <2>2, ElementOfSeq
<1>2. k <= Len(s) /\ s[k] = sep BY HoldsOne
<1>3. Turned(s, sep, quotes, k, c[m], c[k]) BY <1>2, ScansTurn
<1>4. sep # BS /\ sep # QT BY DelimsAreNoMarks
<1>5. ~ Toggles(s, k, quotes) BY <1>2, <1>4 DEF Toggles
<1>6. /\ c[k].parts = Append(c[m].parts, c[m].last) /\ c[k].last = <<>>
      /\ ~ c[k].pair /\ ~ c[k].quoted
  BY <1>2, <1>3, <1>4, <1>5 DEF Turned, ReadParts
<1>7. Append(SubSeq(parts, 1, n - 2), parts[n - 1]) = SubSeq(parts, 1, n - 1)
  <2>. DEFINE T == Seq(S)
              i == n - 1
              front == SubSeq(parts, 1, i - 1)
  <2>1. 1 \in 1..Len(parts) /\ i \in 1..Len(parts) /\ i - 1 = n - 2 /\ parts \in Seq(T)
    BY <1>1
  <2>. HIDE DEF T, i
  <2>2. SubSeq(parts, 1, i) = front \o <<parts[i]>> /\ parts[i] \in T
    BY <2>1, SubSeqRecursiveSecond, ElementOfSeq
  <2>3. front \in Seq(T)
    <3>1. 1 \in Int /\ i - 1 \in Int /\ \A j \in 1..(i - 1) : parts[j] \in T
      <4>1. Len(parts) \in Nat BY <2>1, LenProperties
      <4>2. \A j \in 1..(i - 1) : j \in 1..Len(parts) BY <2>1, <4>1
      <4>. QED BY <2>1, <4>1, <4>2, ElementOfSeq
    <3>. QED BY <3>1, SubSeqProperties
  <2>. HIDE DEF front
  <2>4. Append(front, parts[i]) = front \o <<parts[i]>> BY <2>2, <2>3, AppendIsConcat
  <2>. QED BY <2>1, <2>2, <2>4 DEF front, i
<1>8. c[k].parts = SubSeq(parts, 1, n - 1) BY <1>1, <1>6, <1>7 DEF ReadParts
<1>9. Clear(s, k) BY <1>2, <1>4 DEF Clear
<1>. HIDE DEF k
<1>10. PassesAt(s, c, k, p) BY <1>1, <1>6, <1>9 DEF Inert
<1>. HIDE DEF p
<1>11. Reads(c[k], c[k + Len(p)], p) BY <1>10 DEF PassesAt, k, p
<1>12. c[k + Len(p)].last = p
  <2>1. <<>> \o p = p BY <1>1, ConcatEmptySeq
  <2>. QED BY <1>6, <1>11, <2>1 DEF Reads
<1>13. ReadParts(c[k + Len(p)], parts, n) BY <1>6, <1>8, <1>11, <1>12 DEF Reads, ReadParts, p
<1>. QED BY <1>13 DEF k, p

LEMMA JoinedSplits ==
    ASSUME NEW S, BS \in S, NEW sep \in NameDelims, sep \in S, NEW quotes,
           NEW parts \in Seq(Seq(S)), parts # <<>>,
           \A n \in 1..Len(parts) : Inert(S, parts[n], sep, quotes)
    PROVE  _split_top(Joined(parts, sep), sep, quotes) = parts
<1>. DEFINE N == Len(parts)
            s == Joined(parts, sep)
            c == ScanLoop(s, sep, quotes)
            at(n, w) == Holds(s, 0, w) => ReadParts(c[Len(w)], parts, n)
<1>1. N \in Nat \ {0} /\ s \in Seq(S) BY EmptySeq, JoinedTyped
<1>2. PICK g : Joins(g, S, parts, sep) BY JoinedTurns
<1>3. /\ g \in [0..N -> Seq(S)] /\ g[1] = parts[1] /\ g[N] = s
      /\ \A n \in 2..N : g[n] = g[n - 1] \o <<sep>> \o parts[n]
  BY <1>2 DEF Joins
<1>. HIDE DEF s
<1>4. Scans(S, s, sep, quotes, c) BY <1>1, ScanLoopTurns DEF Scans
<1>. HIDE DEF c
<1>5. c[0] = Fresh BY <1>4 DEF Scans
<1>. DEFINE R == {n \in 0..N : n = 0 \/ at(n, g[n])}
<1>6. 0 \in R BY <1>1
<1>7. at(1, g[1])
  <2>. DEFINE p == parts[1]
  <2>1. 1 \in 1..N /\ p \in Seq(S) /\ Len(p) \in Nat
    <3>1. 1 \in 1..N BY <1>1
    <3>. QED BY <3>1, ElementOfSeq, LenProperties
  <2>2. Inert(S, p, sep, quotes) BY <2>1
  <2>. HIDE DEF p
  <2>3. ASSUME Holds(s, 0, p) PROVE ReadParts(c[Len(p)], parts, 1)
    <3>1. /\ c[0].parts = <<>> /\ c[0].last = <<>> /\ ~ c[0].pair /\ ~ c[0].quoted
      BY <1>5 DEF Fresh
    <3>2. Clear(s, 0) /\ 0 \in Nat /\ 0 + Len(p) = Len(p) BY <2>1 DEF Clear
    <3>3. PassesAt(s, c, 0, p) BY <1>1, <1>4, <2>2, <3>1, <3>2 DEF Inert
    <3>4. Reads(c[0], c[Len(p)], p) BY <2>3, <3>2, <3>3 DEF PassesAt
    <3>5. <<>> \o p = p BY <2>1, ConcatEmptySeq
    <3>6. SubSeq(parts, 1, 1 - 1) = <<>> BY SubSeqEmpty
    <3>. QED BY <3>1, <3>4, <3>5, <3>6 DEF Reads, ReadParts, p
  <2>. QED BY <1>3, <2>3 DEF p
<1>8. ASSUME NEW n \in 2..N, at(n - 1, g[n - 1]) PROVE at(n, g[n])
  <2>. DEFINE w == g[n - 1]
              p == parts[n]
              m == Len(w)
              v == w \o <<sep>>
  <2>1. n - 1 \in 0..N /\ n \in 1..N BY <1>1
  <2>2. w \in Seq(S) /\ p \in Seq(S) /\ <<sep>> \in Seq(S) /\ Len(<<sep>>) = 1
    <3>1. w \in Seq(S) BY <1>3, <2>1
    <3>2. p \in Seq(S) BY <2>1, ElementOfSeq
    <3>3. <<sep>> \in Seq(S) /\ Len(<<sep>>) = 1 OBVIOUS
    <3>. QED BY <3>1, <3>2, <3>3
  <2>3. g[n] = v \o p /\ at(n - 1, w) BY <1>3, <1>8
  <2>4. m \in Nat /\ Len(p) \in Nat BY <2>2, LenProperties
  <2>. HIDE DEF w
  <2>5. v \in Seq(S) /\ Len(v) = m + 1 /\ Len(v \o p) = m + 1 + Len(p)
    BY <2>2, ConcatProperties
  <2>6. Inert(S, p, sep, quotes) BY <2>1
  <2>. HIDE DEF v
  <2>7. ASSUME Holds(s, 0, v \o p) PROVE ReadParts(c[Len(v \o p)], parts, n)
    <3>1. Holds(s, 0, v) /\ Holds(s, m + 1, p)
      <4>1. 0 \in Nat /\ 0 + Len(v) = m + 1 BY <2>4, <2>5
      <4>. QED BY <1>1, <2>2, <2>5, <2>7, <4>1, HoldsConcat
    <3>2. Holds(s, 0, w) /\ Holds(s, m, <<sep>>)
      <4>1. 0 \in Nat /\ 0 + Len(w) = m BY <2>4
      <4>2. Holds(s, 0, w \o <<sep>>) BY <3>1 DEF v
      <4>. HIDE DEF m
      <4>3. Holds(s, 0, w) /\ Holds(s, 0 + Len(w), <<sep>>)
        BY <1>1, <2>2, <4>1, <4>2, HoldsConcat
      <4>. QED BY <4>1, <4>3
    <3>3. ReadParts(c[m], parts, n - 1) BY <2>3, <3>2
    <3>. HIDE DEF m
    <3>4. ReadParts(c[m + 1 + Len(p)], parts, n)
      BY <1>1, <1>4, <2>4, <2>6, <3>1, <3>2, <3>3, NextPart
    <3>. QED BY <2>5, <3>4
  <2>. QED BY <2>3, <2>7
<1>. HIDE DEF at
<1>9. ASSUME NEW n \in 1..N, n - 1 \in R PROVE n \in R
  <2>1. CASE n = 1 BY <1>1, <1>7, <2>1
  <2>2. CASE n # 1
    <3>1. n \in 2..N /\ n - 1 # 0 /\ n \in 0..N BY <1>1, <2>2
    <3>. QED BY <1>8, <1>9, <3>1
  <2>. QED BY <2>1, <2>2
<1>. HIDE DEF R
<1>10. \A n \in 0..N : n \in R BY <1>1, <1>6, <1>9, InductionUpTo
<1>11. N \in R /\ N # 0 BY <1>1, <1>10
<1>12. ReadParts(c[Len(s)], parts, N) BY <1>1, <1>3, <1>11, HoldsTyped DEF R, at
<1>13. Append(SubSeq(parts, 1, N - 1), parts[N]) = parts
  <2>. DEFINE T == Seq(S)
              i == N
              front == SubSeq(parts, 1, i - 1)
  <2>1. 1 \in 1..Len(parts) /\ i \in 1..Len(parts) /\ parts \in Seq(T) /\ i = Len(parts)
    BY <1>1
  <2>. HIDE DEF T, i
  <2>2. SubSeq(parts, 1, i) = front \o <<parts[i]>> /\ parts[i] \in T
    BY <2>1, SubSeqRecursiveSecond, ElementOfSeq
  <2>3. front \in Seq(T)
    <3>1. 1 \in Int /\ i - 1 \in Int /\ \A j \in 1..(i - 1) : parts[j] \in T
      <4>1. Len(parts) \in Nat BY <2>1, LenProperties
      <4>2. \A j \in 1..(i - 1) : j \in 1..Len(parts) BY <2>1, <4>1
      <4>. QED BY <2>1, <4>1, <4>2, ElementOfSeq
    <3>. QED BY <3>1, SubSeqProperties
  <2>4. SubSeq(parts, 1, i) = parts BY <2>1, SubSeqFull
  <2>. HIDE DEF front
  <2>5. Append(front, parts[i]) = front \o <<parts[i]>> BY <2>2, <2>3, AppendIsConcat
  <2>. QED BY <2>2, <2>4, <2>5 DEF front, i
<1>. QED BY <1>12, <1>13 DEF _split_top, ReadParts, c, s

LEMMA ConcatEnds ==
    ASSUME NEW S, NEW u \in Seq(S), NEW v \in Seq(S), v # <<>>
    PROVE  u \o v # <<>> /\ (u \o v)[Len(u \o v)] = v[Len(v)]
<1>. DEFINE w == u \o v
            m == Len(u)
            n == Len(v)
<1>1. m \in Nat /\ n \in Nat \ {0} BY EmptySeq, LenProperties
<1>2. /\ w \in Seq(S) /\ Len(w) = m + n
      /\ \A i \in 1..(m + n) : w[i] = IF i <= m THEN u[i] ELSE v[i - m]
  BY ConcatProperties
<1>. HIDE DEF w, m, n
<1>3. m + n \in 1..(m + n) /\ ~ (m + n <= m) /\ m + n - m = n /\ m + n # 0 BY <1>1
<1>4. w[m + n] = v[n]
  <2>. DEFINE k == m + n
  <2>1. k \in 1..(m + n) /\ ~ (k <= m) /\ k - m = n BY <1>1
  <2>. HIDE DEF k
  <2>2. w[k] = v[k - m] BY <1>2, <2>1
  <2>. QED BY <2>1, <2>2 DEF k
<1>5. w # <<>>
  <2>1. Len(<<>>) = 0 BY EmptySeq
  <2>. QED BY <1>2, <1>3, <2>1
<1>. QED BY <1>2, <1>4, <1>5 DEF w, n

LEMMA ConcatBegins ==
    ASSUME NEW S, NEW u \in Seq(S), NEW v \in Seq(S), u # <<>>
    PROVE  u \o v # <<>> /\ (u \o v)[1] = u[1]
<1>. DEFINE w == u \o v
            m == Len(u)
            n == Len(v)
<1>1. m \in Nat \ {0} /\ n \in Nat BY EmptySeq, LenProperties
<1>2. /\ w \in Seq(S) /\ Len(w) = m + n
      /\ \A i \in 1..(m + n) : w[i] = IF i <= m THEN u[i] ELSE v[i - m]
  BY ConcatProperties
<1>. HIDE DEF w, m, n
<1>3. 1 \in 1..(m + n) /\ 1 <= m /\ m + n # 0 BY <1>1
<1>4. w[1] = u[1] BY <1>2, <1>3
<1>5. w # <<>>
  <2>1. Len(<<>>) = 0 BY EmptySeq
  <2>. QED BY <1>2, <1>3, <2>1
<1>. QED BY <1>4, <1>5 DEF w

(* What is joined begins as its first part and ends as its last.           *)
LEMMA JoinedEnds ==
    ASSUME NEW S, NEW sep \in S, NEW parts \in Seq(Seq(S)), parts # <<>>,
           parts[1] # <<>>, parts[Len(parts)] # <<>>
    PROVE  LET w == Joined(parts, sep)
           IN  /\ w # <<>> /\ w[1] = parts[1][1]
               /\ w[Len(w)] = parts[Len(parts)][Len(parts[Len(parts)])]
<1>. DEFINE N == Len(parts)
            first == parts[1]
<1>1. N \in Nat \ {0} BY EmptySeq
<1>2. PICK g : Joins(g, S, parts, sep) BY JoinedTurns
<1>3. /\ g \in [0..N -> Seq(S)] /\ g[1] = first /\ g[N] = Joined(parts, sep)
      /\ \A n \in 2..N : g[n] = g[n - 1] \o <<sep>> \o parts[n]
  BY <1>2 DEF Joins
<1>. DEFINE R == {n \in 0..N : n = 0 \/ (g[n] # <<>> /\ g[n][1] = first[1])}
<1>4. 0 \in R BY <1>1
<1>5. ASSUME NEW n \in 2..N
      PROVE  g[n - 1] \in Seq(S) /\ parts[n] \in Seq(S) /\ g[n - 1] \o <<sep>> \in Seq(S)
  <2>1. n - 1 \in 0..N /\ n \in 1..N BY <1>1
  <2>2. g[n - 1] \in Seq(S) /\ parts[n] \in Seq(S) /\ <<sep>> \in Seq(S)
    <3>1. g[n - 1] \in Seq(S) BY <1>3, <2>1
    <3>2. parts[n] \in Seq(S) BY <2>1, ElementOfSeq
    <3>3. <<sep>> \in Seq(S) OBVIOUS
    <3>. QED BY <3>1, <3>2, <3>3
  <2>. QED BY <2>2, ConcatProperties
<1>6. ASSUME NEW n \in 1..N, n - 1 \in R PROVE n \in R
  <2>1. n \in 0..N BY <1>1
  <2>2. CASE n = 1 BY <1>3, <2>1, <2>2
  <2>3. CASE n # 1
    <3>1. n \in 2..N /\ n - 1 # 0 BY <1>1, <2>3
    <3>. DEFINE u == g[n - 1]
    <3>2. u \in Seq(S) /\ u # <<>> /\ u[1] = first[1] BY <1>5, <1>6, <3>1
    <3>3. g[n] = u \o <<sep>> \o parts[n] BY <1>3, <3>1
    <3>4. u \o <<sep>> \in Seq(S) /\ parts[n] \in Seq(S) /\ <<sep>> \in Seq(S) BY <1>5, <3>1
    <3>. HIDE DEF u
    <3>5. u \o <<sep>> # <<>> /\ (u \o <<sep>>)[1] = first[1] BY <3>2, <3>4, ConcatBegins
    <3>. DEFINE y == u \o <<sep>>
                v == parts[n]
    <3>7. y \in Seq(S) /\ v \in Seq(S) /\ y # <<>> /\ y[1] = first[1] /\ g[n] = y \o v
      BY <3>3, <3>4, <3>5
    <3>. HIDE DEF y, v, first, N
    <3>8. y \o v # <<>> /\ (y \o v)[1] = y[1] BY <3>7, ConcatBegins
    <3>6. g[n] # <<>> /\ g[n][1] = first[1] BY <3>7, <3>8
    <3>. QED BY <2>1, <3>6
  <2>. QED BY <2>2, <2>3
<1>. HIDE DEF R
<1>7. \A n \in 0..N : n \in R BY <1>1, <1>4, <1>6, InductionUpTo
<1>8. N \in R /\ N # 0 BY <1>1, <1>7
<1>9. g[N] # <<>> /\ g[N][1] = first[1] BY <1>8 DEF R
<1>10. g[N][Len(g[N])] = parts[N][Len(parts[N])]
  <2>1. CASE N = 1 BY <1>3, <2>1
  <2>2. CASE N # 1
    <3>1. N \in 2..N
      <4>. HIDE DEF N
      <4>. QED BY <1>1, <2>2
    <3>. DEFINE u == g[N - 1] \o <<sep>>
                v == parts[N]
    <3>2. u \in Seq(S) /\ v \in Seq(S) /\ v # <<>> /\ g[N] = u \o v BY <1>3, <1>5, <3>1
    <3>. HIDE DEF u, v
    <3>3. g[N][Len(g[N])] = v[Len(v)] BY <3>2, ConcatEnds
    <3>. QED BY <3>3 DEF v
  <2>. QED BY <2>1, <2>2
<1>. QED BY <1>3, <1>9, <1>10

LEMMA MarksAreSymbols ==
    /\ BS \in Symbols /\ QT \in Symbols /\ "i" \in Symbols
    /\ NameDelims \subseteq Symbols /\ Digits \subseteq Symbols
    /\ <<"t">> \in Seq(Symbols) /\ <<"f">> \in Seq(Symbols)
BY SymbolsHaveMarks

-----------------------------------------------------------------------------
(* Strings                                                                 *)

Quoted(E) == <<QT>> \o E \o <<QT>>

LEMMA QuotedShape ==
    ASSUME NEW S, QT \in S, NEW E \in Seq(S)
    PROVE  LET w == Quoted(E)
           IN  /\ w \in Seq(S) /\ Len(w) = Len(E) + 2
               /\ w[1] = QT /\ w[Len(w)] = QT
               /\ \A i \in 1..Len(E) : w[i + 1] = E[i]
<1>. DEFINE q == <<QT>>
            u == q \o E
            n == Len(E)
            w == u \o q
<1>1. q \in Seq(S) /\ Len(q) = 1 /\ q[1] = QT OBVIOUS
<1>2. n \in Nat BY LenProperties
<1>. HIDE DEF q, n
<1>3. /\ u \in Seq(S) /\ Len(u) = 1 + n
      /\ \A i \in 1..(1 + n) : u[i] = IF i <= 1 THEN q[i] ELSE E[i - 1]
  BY <1>1, ConcatProperties DEF n
<1>. HIDE DEF u
<1>4. /\ w \in Seq(S) /\ Len(w) = 1 + n + 1
      /\ \A i \in 1..(1 + n + 1) : w[i] = IF i <= 1 + n THEN u[i] ELSE q[i - (1 + n)]
  <2>1. /\ w \in Seq(S) /\ Len(w) = Len(u) + Len(q)
        /\ \A i \in 1..(Len(u) + Len(q)) : w[i] = IF i <= Len(u) THEN u[i] ELSE q[i - Len(u)]
    BY <1>1, <1>3, ConcatProperties
  <2>. HIDE DEF w
  <2>. QED BY <1>1, <1>3, <2>1
<1>. HIDE DEF w
<1>5. Len(w) = n + 2 BY <1>2, <1>4
<1>6. w[1] = QT
  <2>1. 1 \in 1..(1 + n + 1) /\ 1 <= 1 + n /\ 1 \in 1..(1 + n) BY <1>2
  <2>. QED BY <1>1, <1>3, <1>4, <2>1
<1>7. w[Len(w)] = QT
  <2>. DEFINE k == n + 2
  <2>1. k \in 1..(1 + n + 1) /\ ~ (k <= 1 + n) /\ k - (1 + n) = 1 BY <1>2
  <2>. HIDE DEF k
  <2>2. w[k] = q[k - (1 + n)] BY <1>4, <2>1
  <2>. QED BY <1>1, <1>5, <2>1, <2>2 DEF k
<1>8. ASSUME NEW i \in 1..n PROVE w[i + 1] = E[i]
  <2>. DEFINE k == i + 1
  <2>1. k \in 1..(1 + n + 1) /\ k <= 1 + n /\ k \in 1..(1 + n) /\ ~ (k <= 1) /\ k - 1 = i
    BY <1>2
  <2>. HIDE DEF k
  <2>2. w[k] = E[k - 1] BY <1>3, <1>4, <2>1
  <2>. QED BY <2>1, <2>2 DEF k
<1>. QED BY <1>4, <1>5, <1>6, <1>7, <1>8 DEF w, u, q, n, Quoted

LEMMA QuotedComesBack ==
    ASSUME NEW S, QT \in S, NEW E \in Seq(S)
    PROVE  /\ Quoted(E) # <<>> /\ Len(Quoted(E)) >= 2
           /\ Head(Quoted(E)) = QT /\ Last(Quoted(E)) = QT
           /\ Front(Tail(Quoted(E))) = E
<1>. DEFINE w == Quoted(E)
            n == Len(E)
            t == Tail(w)
<1>1. /\ w \in Seq(S) /\ Len(w) = n + 2 /\ w[1] = QT /\ w[Len(w)] = QT
      /\ \A i \in 1..n : w[i + 1] = E[i]
  BY QuotedShape
<1>2. n \in Nat BY LenProperties
<1>. HIDE DEF w, n
<1>3. w # <<>> /\ Len(w) >= 2
  <2>1. Len(<<>>) = 0 BY EmptySeq
  <2>. QED BY <1>1, <1>2, <2>1
<1>4. Head(w) = QT BY <1>1, <1>3
<1>5. Last(w) = QT BY <1>1 DEF Last
<1>6. t \in Seq(S) /\ Len(t) = n + 1 /\ \A i \in 1..(n + 1) : t[i] = w[i + 1]
  <2>1. n + 2 - 1 = n + 1 BY <1>2
  <2>2. t \in Seq(S) /\ Len(t) = Len(w) - 1 /\ \A i \in 1..Len(t) : t[i] = w[i + 1]
    BY <1>1, <1>3, HeadTailProperties
  <2>. HIDE DEF t
  <2>3. Len(t) = n + 1 BY <1>1, <1>2, <2>1, <2>2
  <2>. QED BY <2>2, <2>3
<1>. HIDE DEF t
<1>7. Front(t) = E
  <2>1. n + 1 - 1 = n /\ 1 \in Int /\ n \in Int BY <1>2
  <2>2. Front(t) = SubSeq(t, 1, n) BY <1>6, <2>1 DEF Front
  <2>3. \A i \in 1..n : t[i] \in S
    <3>1. \A i \in 1..n : i \in 1..Len(t) BY <1>2, <1>6
    <3>. QED BY <1>6, <3>1, ElementOfSeq
  <2>. DEFINE f == SubSeq(t, 1, n)
  <2>4. /\ f \in Seq(S) /\ Len(f) = IF 1 <= n THEN n - 1 + 1 ELSE 0
        /\ \A i \in 1..(n - 1 + 1) : f[i] = t[1 + i - 1]
    BY <2>1, <2>3, SubSeqProperties
  <2>. HIDE DEF f
  <2>5. Len(f) = n BY <1>2, <2>4
  <2>6. \A i \in 1..n : f[i] = E[i]
    <3>1. ASSUME NEW i \in 1..n PROVE f[i] = E[i]
      <4>1. i \in 1..(n - 1 + 1) /\ 1 + i - 1 = i /\ i \in 1..(n + 1) BY <1>2
      <4>. QED BY <1>1, <1>6, <2>4, <4>1
    <3>. QED BY <3>1
  <2>7. f = E BY <2>4, <2>5, <2>6, SeqEqual DEF n
  <2>. QED BY <2>2, <2>7 DEF f
<1>. QED BY <1>3, <1>4, <1>5, <1>7 DEF w, t

LEMMA QuotedAppended ==
    ASSUME NEW S, QT \in S, NEW E \in Seq(S), NEW l \in Seq(S)
    PROVE  l \o <<QT>> \o E \o <<QT>> = l \o Quoted(E)
<1>. DEFINE q == <<QT>>
<1>1. q \in Seq(S) OBVIOUS
<1>2. Quoted(E) = q \o E \o q BY DEF Quoted
<1>. HIDE DEF q
<1>3. q \o E \in Seq(S) BY <1>1, ConcatProperties
<1>4. (l \o q) \o E = l \o (q \o E) BY <1>1, ConcatAssociative
<1>. DEFINE u == q \o E
<1>5. (l \o u) \o q = l \o (u \o q)
  <2>. HIDE DEF u
  <2>1. u \in Seq(S) BY <1>3 DEF u
  <2>. QED BY <1>1, <2>1, ConcatAssociative, Z3
<1>6. l \o q \o E \o q = l \o (q \o E \o q) BY <1>4, <1>5
<1>. QED BY <1>2, <1>6 DEF q

(* Where quotes count, a quoted string is read as it is, separators and    *)
(* all, if no backslash stands before the closing quote.                   *)
LEMMA QuotedIsInert ==
    ASSUME NEW S, BS \in S, QT \in S, NEW x \in Seq(S), NEW sep,
           x = <<>> \/ x[Len(x)] # BS
    PROVE  Inert(S, Quoted(Escaped(x, {QT})), sep, TRUE)
<1>. DEFINE E == Escaped(x, {QT})
            w == Quoted(E)
            q == <<QT>>
            u == q \o E
<1>0. \A l \in Seq(S) : l \o <<QT>> \o E \o <<QT>> = l \o w
  <2>1. E \in Seq(S) BY EscapedTyped
  <2>. HIDE DEF E
  <2>. QED BY <2>1, QuotedAppended
<1>. SUFFICES ASSUME NEW s \in Seq(S), NEW k \in Nat, NEW c, Scans(S, s, sep, TRUE, c),
                     ~ c[k].pair, ~ c[k].quoted, Clear(s, k), Holds(s, k, w)
              PROVE  Reads(c[k], c[k + Len(w)], w)
  BY DEF Inert, PassesAt
<1>. DEFINE n == Len(E)
            m == k + 1 + n
<1>1. /\ q \in Seq(S) /\ Len(q) = 1 /\ E \in Seq(S) /\ n \in Nat
      /\ k + 1 \in Nat /\ m \in Nat /\ m + 1 = k + (n + 2)
  <2>1. E \in Seq(S) BY EscapedTyped
  <2>2. n \in Nat BY <2>1, LenProperties
  <2>3. q \in Seq(S) /\ Len(q) = 1 OBVIOUS
  <2>. HIDE DEF E, q, n
  <2>. QED BY <2>1, <2>2, <2>3
<1>2. Len(w) = n + 2 BY <1>1, QuotedShape
<1>3. w = u \o q /\ q = <<QT>> BY DEF Quoted
<1>. HIDE DEF E, w, q
<1>4. u \in Seq(S) /\ Len(u) = 1 + n
  <2>1. q \in Seq(S) /\ E \in Seq(S) BY <1>1
  <2>2. u \in Seq(S) /\ Len(u) = Len(q) + Len(E) BY <2>1, ConcatProperties
  <2>. QED BY <1>1, <2>2
<1>5. Holds(s, k, q) /\ Holds(s, k + 1, E) /\ Holds(s, m, q)
  <2>1. Holds(s, k, u) /\ Holds(s, k + Len(u), q)
    <3>. HIDE DEF u
    <3>. QED BY <1>1, <1>3, <1>4, HoldsConcat
  <2>2. Holds(s, k, q) /\ Holds(s, k + Len(q), E) BY <1>1, <2>1, HoldsConcat
  <2>3. k + Len(u) = m BY <1>1, <1>4
  <2>. HIDE DEF m, u
  <2>. QED BY <1>1, <2>1, <2>2, <2>3
<1>. DEFINE a == c[k]
            b == c[k + 1]
            d == c[m]
            e == c[m + 1]
<1>6. /\ b.parts = a.parts /\ b.last = a.last \o q /\ ~ b.pair /\ b.quoted
  <2>1. Holds(s, k, <<QT>>) /\ (k = 0 \/ s[k] # BS) BY <1>3, <1>5 DEF Clear
  <2>2. /\ b.parts = a.parts /\ b.last = a.last \o <<QT>>
        /\ ~ b.pair /\ (b.quoted <=> ~ a.quoted)
    BY <2>1, QuotePasses
  <2>. HIDE DEF a, b
  <2>3. ~ a.quoted BY DEF a
  <2>. QED BY <1>3, <2>2, <2>3
<1>7. Reads(b, d, E)
  <2>. DEFINE j == k + 1
  <2>1. j \in Nat /\ ~ c[j].pair /\ c[j].quoted /\ QT \in {QT} BY <1>1, <1>6
  <2>2. Holds(s, j, E) BY <1>5
  <2>. HIDE DEF j
  <2>3. PassesAt(s, c, j, E) BY <2>1, EscapedPasses DEF E
  <2>4. Reads(c[j], c[j + n], E) BY <2>2, <2>3 DEF PassesAt
  <2>. QED BY <2>4 DEF j
<1>8. m = 0 \/ s[m] # BS
  <2>1. \A j \in 1..n : s[k + 1 + j] = E[j] BY <1>5 DEF Holds
  <2>2. CASE x = <<>>
    <3>1. E = <<>>
      <4>1. \A i \in 1..Len(x) : x[i] \notin {QT} \cup {BS} BY <2>2, EmptySeq
      <4>2. Escaped(x, {QT}) = x BY <4>1, EscapedPlain
      <4>. QED BY <2>2, <4>2 DEF E
    <3>2. n = 0 BY <3>1, EmptySeq
    <3>3. m = k + 1 BY <1>1, <3>2
    <3>4. s[k + 1] = QT BY <1>3, <1>5, HoldsOne
    <3>. QED BY <3>3, <3>4 DEF BS, QT
  <2>3. CASE x # <<>>
    <3>1. n > 0 /\ E[n] = x[Len(x)] BY <2>3, EscapedEnds DEF E
    <3>2. n \in 1..n BY <1>1, <3>1
    <3>. HIDE DEF n
    <3>3. s[k + 1 + n] = E[n] BY <2>1, <3>2
    <3>. QED BY <2>3, <3>1, <3>3
  <2>. QED BY <2>2, <2>3
<1>9. e.parts = d.parts /\ e.last = d.last \o q /\ ~ e.pair /\ ~ e.quoted
  <2>1. Holds(s, m, <<QT>>) /\ ~ d.pair /\ d.quoted BY <1>3, <1>5, <1>6, <1>7 DEF Reads
  <2>. HIDE DEF m
  <2>2. /\ e.parts = d.parts /\ e.last = d.last \o <<QT>>
        /\ ~ e.pair /\ (e.quoted <=> ~ d.quoted)
    BY <1>1, <1>8, <2>1, QuotePasses
  <2>. HIDE DEF d, e
  <2>. QED BY <1>3, <2>1, <2>2
<1>10. a.last \in Seq(S)
  <2>1. a \in ScanState(S) BY <1>1, <1>5, HoldsState
  <2>. QED BY <2>1 DEF ScanState
<1>. HIDE DEF a, b, d, e, m, n
<1>11. a.last \o q \o E \o q = a.last \o w
  BY <1>0, <1>3, <1>10
<1>12. Reads(a, e, w)
  <2>1. ~ a.quoted BY DEF a
  <2>. QED BY <1>6, <1>7, <1>9, <1>11, <2>1 DEF Reads
<1>13. k + Len(w) = m + 1 BY <1>1, <1>2 DEF m
<1>. QED BY <1>12, <1>13 DEF a, e

LEMMA EndsWith ==
    ASSUME NEW S, NEW t \in Seq(S), NEW a \in S
    PROVE  LET w == t \o <<a>>
           IN  /\ w \in Seq(S) /\ w # <<>> /\ Last(w) = a /\ Front(w) = t /\ w[Len(w)] = a
               /\ Len(w) = Len(t) + 1 /\ \A i \in 1..Len(t) : w[i] = t[i]
<1>. DEFINE w == t \o <<a>>
            n == Len(t)
<1>1. w = Append(t, a) BY AppendIsConcat
<1>2. n \in Nat BY LenProperties
<1>3. /\ w \in Seq(S) /\ w # <<>> /\ Len(w) = n + 1 /\ w[n + 1] = a
      /\ \A i \in 1..n : w[i] = t[i]
  <2>1. /\ Append(t, a) \in Seq(S) /\ Append(t, a) # <<>> /\ Len(Append(t, a)) = Len(t) + 1
        /\ Append(t, a)[Len(t) + 1] = a /\ \A i \in 1..Len(t) : Append(t, a)[i] = t[i]
    BY AppendProperties
  <2>. HIDE DEF w
  <2>. QED BY <1>1, <2>1
<1>. HIDE DEF w, n
<1>4. Last(w) = a BY <1>3 DEF Last
<1>5. Front(w) = t
  <2>1. n + 1 - 1 = n /\ 1 \in Int /\ n \in Int BY <1>2
  <2>2. Front(w) = SubSeq(w, 1, n) BY <1>3, <2>1 DEF Front
  <2>3. \A i \in 1..n : w[i] \in S
    <3>1. \A i \in 1..n : i \in 1..Len(w) BY <1>2, <1>3
    <3>. QED BY <1>3, <3>1, ElementOfSeq
  <2>. DEFINE f == SubSeq(w, 1, n)
  <2>4. /\ f \in Seq(S) /\ Len(f) = IF 1 <= n THEN n - 1 + 1 ELSE 0
        /\ \A i \in 1..(n - 1 + 1) : f[i] = w[1 + i - 1]
    BY <2>1, <2>3, SubSeqProperties
  <2>. HIDE DEF f
  <2>5. Len(f) = n BY <1>2, <2>4
  <2>6. ASSUME NEW i \in 1..n PROVE f[i] = t[i]
    <3>1. i \in 1..(n - 1 + 1) /\ 1 + i - 1 = i BY <1>2
    <3>. QED BY <1>3, <2>4, <3>1
  <2>7. f = t BY <2>4, <2>5, <2>6, SeqEqual DEF n
  <2>. QED BY <2>2, <2>7 DEF f
<1>6. w[Len(w)] = a BY <1>3
<1>. QED BY <1>3, <1>4, <1>5, <1>6 DEF w, n

LEMMA NameIsInert ==
    ASSUME NEW x, NameText(x), NEW delims, NEW sep \in delims, NEW quotes
    PROVE  Inert(Symbols, Escaped(x, delims), sep, quotes)
<1>1. x \in Seq(Symbols) /\ BS \in Symbols BY MarksAreSymbols DEF NameText
<1>2. \A i \in 1..Len(x) : x[i] # QT
  <2>1. DOMAIN x = 1..Len(x) BY <1>1, LenProperties
  <2>. QED BY <2>1 DEF NameText, Range
<1>. QED BY <1>1, <1>2, EscapedIsInert

-----------------------------------------------------------------------------
(* Values of fields                                                        *)

(* w is how v is written, and v comes back.                                *)
Carries(w, v) ==
    /\ w \in Seq(Symbols) /\ w # <<>> /\ w[Len(w)] # " "
    /\ \A sep \in NameDelims : Inert(Symbols, w, sep, TRUE)
    /\ _parse_field_value(w) = v /\ v.type \notin {"rejected", "raises"}

LEMMA StringCarries ==
    ASSUME NEW t \in Seq(Symbols), t = <<>> \/ Last(t) # BS
    PROVE  Carries(EncodedValue(Value("str", t)), Value("str", t))
<1>. DEFINE E == Escaped(t, {QT})
            w == Quoted(E)
<1>1. EncodedValue(Value("str", t)) = w BY DEF EncodedValue, Value, Quoted
<1>2. BS \in Symbols /\ QT \in Symbols BY MarksAreSymbols
<1>3. E \in Seq(Symbols) BY <1>2, EscapedTyped
<1>4. \A sep \in NameDelims : Inert(Symbols, w, sep, TRUE)
  <2>1. t = <<>> \/ t[Len(t)] # BS BY DEF Last
  <2>. HIDE DEF w
  <2>. QED BY <1>2, <2>1, QuotedIsInert DEF w
<1>5. _unescape(E, {QT}) = t BY <1>2, NameComesBack
<1>. HIDE DEF E
<1>6. w \in Seq(Symbols) /\ w[Len(w)] = QT BY <1>2, <1>3, QuotedShape
<1>7. /\ w # <<>> /\ Len(w) >= 2 /\ Head(w) = QT /\ Last(w) = QT
      /\ Front(Tail(w)) = E
  BY <1>2, <1>3, QuotedComesBack
<1>. HIDE DEF w
<1>8. _parse_field_value(w) = Value("str", t)
  <2>1. ~ (w \in {<<"t">>, <<"f">>}) /\ Last(w) \notin {"i", "u"}
    <3>1. Last(<<"t">>) = "t" /\ Last(<<"f">>) = "f" BY DEF Last
    <3>. QED BY <1>7, <3>1 DEF QT
  <2>. QED BY <1>5, <1>7, <2>1 DEF _parse_field_value
<1>9. Value("str", t).type \notin {"rejected", "raises"} BY DEF Value
<1>10. QT # " " BY DEF QT
<1>. QED BY <1>1, <1>4, <1>6, <1>7, <1>8, <1>9, <1>10 DEF Carries

LEMMA NumberShape ==
    ASSUME NEW t \in Seq(Digits), t # <<>>
    PROVE  /\ IsNumber(t) /\ t \in Seq(Symbols) /\ Last(t) \in Digits /\ t[Len(t)] \in Digits
           /\ \A i \in 1..Len(t) : t[i] \in Digits
<1>1. \A i \in 1..Len(t) : t[i] \in Digits BY ElementOfSeq
<1>2. DOMAIN t = 1..Len(t) /\ Len(t) \in 1..Len(t) BY EmptySeq, LenProperties
<1>3. t \in Seq(Symbols) BY MarksAreSymbols, SeqMonotonic
<1>. QED BY <1>1, <1>2, <1>3 DEF IsNumber, Last

LEMMA DigitsAreNoMarks ==
    \A d \in Digits : /\ d \notin {BS, QT, "i", "u", "t", "f", " "} /\ d \notin NameDelims
BY DEF Digits, NameDelims, BS, QT

LEMMA FloatCarries ==
    ASSUME NEW t \in Seq(Digits), t # <<>>
    PROVE  Carries(EncodedValue(Value("float", t)), Value("float", t))
<1>1. EncodedValue(Value("float", t)) = t BY DEF EncodedValue, Value
<1>2. /\ IsNumber(t) /\ t \in Seq(Symbols) /\ Last(t) \in Digits /\ t[Len(t)] \in Digits
      /\ \A i \in 1..Len(t) : t[i] \in Digits
  BY NumberShape
<1>3. Last(t) \notin {BS, QT, "i", "u", "t", "f", " "} /\ t[Len(t)] # " "
  BY <1>2, DigitsAreNoMarks
<1>4. \A sep \in NameDelims : Inert(Symbols, t, sep, TRUE)
  <2>1. ASSUME NEW sep \in NameDelims PROVE \A i \in 1..Len(t) : t[i] \notin {BS, QT, sep}
    BY <1>2, DigitsAreNoMarks
  <2>. QED BY <1>2, <2>1, MarksAreSymbols, PlainIsInert
<1>5. _parse_field_value(t) = Value("float", t)
  <2>1. ~ (t \in {<<"t">>, <<"f">>})
    <3>1. Last(<<"t">>) = "t" /\ Last(<<"f">>) = "f" BY DEF Last
    <3>. QED BY <1>3, <3>1
  <2>. QED BY <1>2, <1>3, <2>1 DEF _parse_field_value
<1>6. Value("float", t).type \notin {"rejected", "raises"} BY DEF Value
<1>. QED BY <1>1, <1>2, <1>3, <1>4, <1>5, <1>6 DEF Carries

LEMMA IntCarries ==
    ASSUME NEW t \in Seq(Digits), t # <<>>
    PROVE  Carries(EncodedValue(Value("int", t)), Value("int", t))
<1>. DEFINE w == t \o <<"i">>
<1>1. EncodedValue(Value("int", t)) = w BY DEF EncodedValue, Value
<1>2. /\ IsNumber(t) /\ t \in Seq(Symbols) /\ \A i \in 1..Len(t) : t[i] \in Digits
  BY NumberShape
<1>3. /\ w \in Seq(Symbols) /\ w # <<>> /\ Last(w) = "i" /\ Front(w) = t /\ w[Len(w)] = "i"
      /\ Len(w) = Len(t) + 1 /\ \A i \in 1..Len(t) : w[i] = t[i]
  BY <1>2, MarksAreSymbols, EndsWith
<1>. HIDE DEF w
<1>4. \A sep \in NameDelims : Inert(Symbols, w, sep, TRUE)
  <2>1. ASSUME NEW sep \in NameDelims, NEW i \in 1..Len(w) PROVE w[i] \notin {BS, QT, sep}
    <3>1. i \in 1..Len(t) \/ i = Len(w)
      <4>1. Len(t) \in Nat BY LenProperties
      <4>. QED BY <1>3, <4>1
    <3>2. i \in 1..Len(t) => w[i] \notin {BS, QT, sep} BY <1>2, <1>3, DigitsAreNoMarks
    <3>3. i = Len(w) => w[i] \notin {BS, QT, sep} BY <1>3 DEF BS, QT, NameDelims
    <3>. QED BY <3>1, <3>2, <3>3
  <2>2. BS \in Symbols BY MarksAreSymbols
  <2>. QED BY <1>3, <2>1, <2>2, PlainIsInert
<1>5. _parse_field_value(w) = Value("int", t)
  <2>1. ~ (w \in {<<"t">>, <<"f">>}) /\ Last(w) # QT
    <3>1. Last(<<"t">>) = "t" /\ Last(<<"f">>) = "f" BY DEF Last
    <3>. QED BY <1>3, <3>1 DEF QT
  <2>. QED BY <1>2, <1>3, <2>1 DEF _parse_field_value
<1>6. Value("int", t).type \notin {"rejected", "raises"} BY DEF Value
<1>. QED BY <1>1, <1>3, <1>4, <1>5, <1>6 DEF Carries

LEMMA BoolCarries ==
    ASSUME NEW a \in {"t", "f"}
    PROVE  Carries(EncodedValue(Value("bool", <<a>>)), Value("bool", <<a>>))
<1>. DEFINE w == <<a>>
<1>1. EncodedValue(Value("bool", w)) = w BY DEF EncodedValue, Value
<1>2. w \in Seq(Symbols) /\ w # <<>> /\ Len(w) = 1 /\ w[1] = a
  <2>1. a \in Symbols BY SymbolsHaveMarks
  <2>. QED BY <2>1
<1>3. w[Len(w)] # " " BY <1>2
<1>4. \A sep \in NameDelims : Inert(Symbols, w, sep, TRUE)
  <2>1. ASSUME NEW sep \in NameDelims PROVE a \notin {BS, QT, sep} BY DEF BS, QT, NameDelims
  <2>2. ASSUME NEW sep \in NameDelims PROVE \A i \in 1..Len(w) : w[i] \notin {BS, QT, sep}
    <3>1. \A i \in 1..Len(w) : w[i] = a BY <1>2
    <3>. QED BY <2>1, <3>1
  <2>3. BS \in Symbols BY MarksAreSymbols
  <2>. HIDE DEF w
  <2>. QED BY <1>2, <2>2, <2>3, PlainIsInert
<1>5. _parse_field_value(w) = Value("bool", w)
  <2>1. w \in {<<"t">>, <<"f">>} /\ ~ (Len(w) >= 2) /\ Last(w) \notin {"i", "u"}
    BY <1>2 DEF Last
  <2>. QED BY <1>2, <2>1 DEF _parse_field_value
<1>6. Value("bool", w).type \notin {"rejected", "raises"} BY DEF Value
<1>. HIDE DEF w
<1>7. Carries(EncodedValue(Value("bool", w)), Value("bool", w))
  BY <1>1, <1>2, <1>3, <1>4, <1>5, <1>6 DEF Carries
<1>. QED BY <1>7 DEF w

LEMMA FieldCarries ==
    ASSUME NEW v, FieldValue(v)
    PROVE  Carries(EncodedValue(v), v)
<1>1. CASE /\ v = Value("str", v.text) /\ v.text \in Seq(Symbols)
           /\ v.text = <<>> \/ Last(v.text) # BS
  <2>. DEFINE t == v.text
  <2>1. v = Value("str", t) /\ t \in Seq(Symbols) /\ (t = <<>> \/ Last(t) # BS) BY <1>1
  <2>. HIDE DEF t
  <2>. QED BY <2>1, StringCarries
<1>2. CASE /\ v = Value(v.type, v.text) /\ v.type \in {"int", "float"}
           /\ v.text \in Seq(Digits) \ {<<>>}
  <2>. DEFINE t == v.text
  <2>1. t \in Seq(Digits) /\ t # <<>> /\ (v = Value("int", t) \/ v = Value("float", t)) BY <1>2
  <2>. HIDE DEF t
  <2>. QED BY <2>1, IntCarries, FloatCarries
<1>3. CASE v \in {Value("bool", <<"t">>), Value("bool", <<"f">>)} BY <1>3, BoolCarries
<1>. QED BY <1>1, <1>2, <1>3 DEF FieldValue

LEMMA SetToSeqEnumerates ==
    ASSUME NEW T, IsFiniteSet(T)
    PROVE  LET q == SetToSeq(T)
           IN  q \in Seq(T) /\ T = {q[i] : i \in 1..Len(q)}
<1>. DEFINE n == Cardinality(T)
            q == SetToSeq(T)
<1>1. n \in Nat /\ ExistsBijection(1..n, T) BY FS_CardinalityType
<1>2. PICK f : f \in Injection(1..n, T) BY <1>1 DEF ExistsBijection, Bijection
<1>3. q \in [1..n -> T] /\ IsInjective(q)
  <2>1. f \in [1..n -> T] /\ IsInjective(f) BY <1>2 DEF Injection
  <2>2. q = CHOOSE g \in [1..n -> T] : IsInjective(g) BY DEF SetToSeq
  <2>. HIDE DEF q, n
  <2>. QED BY <2>1, <2>2
<1>. HIDE DEF q
<1>4. Cardinality(1..n) = n
  <2>. DEFINE m == n
  <2>1. m \in Nat BY <1>1
  <2>. HIDE DEF m
  <2>2. Cardinality(1..m) = IF 1 > m THEN 0 ELSE m - 1 + 1 BY <2>1, FS_Interval
  <2>3. Cardinality(1..m) = m BY <2>1, <2>2
  <2>. QED BY <2>3 DEF m
<1>5. q \in Injection(1..n, T) BY <1>3 DEF Injection
<1>6. q \in Surjection(1..n, T) BY <1>4, <1>5, FS_Injection
<1>. HIDE DEF n
<1>7. q \in Seq(T) /\ Len(q) = n
  <2>1. q \in [1..n -> T] BY <1>3
  <2>. QED BY <1>1, <2>1
<1>8. T = {q[i] : i \in 1..n} BY <1>3, <1>6 DEF Surjection
<1>. QED BY <1>7, <1>8 DEF q

-----------------------------------------------------------------------------
(* Sections of tags and fields                                             *)

(* w is how v is written on the right of an equals sign, and v comes back. *)
ReadsBack(w, v, isField) ==
    /\ w \in Seq(Symbols) /\ Inert(Symbols, w, "=", isField)
    /\ v = IF isField THEN _parse_field_value(w) ELSE TagValue(w)
    /\ v.type \notin {"rejected", "raises"}

PartOf(k, w) == Escaped(k, NameDelims) \o <<"=">> \o w

LEMMA PartShape ==
    ASSUME NEW k \in Seq(Symbols), NEW w \in Seq(Symbols)
    PROVE  PartOf(k, w) \in Seq(Symbols) /\ PartOf(k, w) # <<>>
<1>. DEFINE E == Escaped(k, NameDelims)
<1>1. E \in Seq(Symbols) /\ "=" \in Symbols BY MarksAreSymbols, EscapedTyped DEF NameDelims
<1>. HIDE DEF E
<1>2. E \o <<"=">> \in Seq(Symbols) /\ E \o <<"=">> # <<>> BY <1>1, EndsWith
<1>3. E \o <<"=">> \o w \in Seq(Symbols) BY <1>2, ConcatProperties
<1>4. E \o <<"=">> \o w # <<>> BY <1>2, ConcatBegins
<1>. QED BY <1>3, <1>4 DEF PartOf, E

LEMMA PartComesBack ==
    ASSUME NEW isField \in BOOLEAN, NEW k, NameText(k), NEW w, NEW v, ReadsBack(w, v, isField)
    PROVE  PairOf(PartOf(k, w), isField) = [key |-> k, value |-> v]
<1>. DEFINE E == Escaped(k, NameDelims)
            parts == <<E, w>>
<1>1. /\ BS \in Symbols /\ "=" \in Symbols /\ "=" \in NameDelims /\ k \in Seq(Symbols)
      /\ w \in Seq(Symbols)
  BY MarksAreSymbols DEF NameDelims, NameText, ReadsBack
<1>2. E \in Seq(Symbols) /\ Inert(Symbols, E, "=", isField) BY <1>1, EscapedTyped, NameIsInert
<1>3. _unescape(E, NameDelims) = k BY <1>1, NameComesBack
<1>. HIDE DEF E
<1>4. parts \in Seq(Seq(Symbols)) /\ parts # <<>> /\ Len(parts) = 2
      /\ parts[1] = E /\ parts[2] = w
  <2>. DEFINE D == Seq(Symbols)
  <2>1. E \in D /\ w \in D BY <1>1, <1>2
  <2>. HIDE DEF D
  <2>2. parts \in Seq(D) /\ parts # <<>> /\ Len(parts) = 2 BY <2>1
  <2>. QED BY <2>2 DEF D
<1>5. PartOf(k, w) = Joined(parts, "=") BY <1>1, <1>2, JoinedTwo DEF PartOf, E
<1>. HIDE DEF parts
<1>6. \A n \in 1..Len(parts) : Inert(Symbols, parts[n], "=", isField)
  <2>1. \A n \in 1..2 : n = 1 \/ n = 2 OBVIOUS
  <2>. QED BY <1>2, <1>4, <2>1 DEF ReadsBack
<1>7. _split_top(PartOf(k, w), "=", isField) = parts BY <1>1, <1>4, <1>5, <1>6, JoinedSplits
<1>8. Pair(parts, isField) = [key |-> k, value |-> v]
  BY <1>3, <1>4 DEF Pair, ReadsBack
<1>. QED BY <1>7, <1>8 DEF PairOf

PartsCarry(parts, pairs, keys, isField) ==
    /\ Len(parts) = Len(keys)
    /\ \A n \in 1..Len(keys) : \E w :
            parts[n] = PartOf(keys[n], w) /\ ReadsBack(w, pairs[keys[n]], isField)

LEMMA SectionComesBack ==
    ASSUME NEW isField \in BOOLEAN, NEW pairs, Section(pairs), NEW keys,
           NEW parts \in Seq(Seq(Symbols)), keys \in Seq(DOMAIN pairs),
           DOMAIN pairs = {keys[i] : i \in 1..Len(keys)},
           PartsCarry(parts, pairs, keys, isField)
    PROVE  Pairs(parts, isField).status = "ok" /\ Pairs(parts, isField).pairs = pairs
<1>. DEFINE N == Len(parts)
            c == PairsLoop(parts, isField)
            P == PairsState(PairsOf(parts, isField))
            Upto(n) == {keys[i] : i \in 1..n}
            at(st, n) == st.status = "ok" /\ st.pairs = [k \in Upto(n) |-> pairs[k]]
            R == {n \in 0..N : at(c[n], n)}
<1>1. N \in Nat /\ N = Len(keys) /\ \A n \in 1..N : keys[n] \in DOMAIN pairs
  BY LenProperties, ElementOfSeq DEF PartsCarry
<1>2. /\ c \in [0..N -> P] /\ c[0] = NoPairs
      /\ \A n \in 1..N : c[n] = AddPair(c[n - 1], parts[n], isField)
  BY PairsLoopTurns
<1>. HIDE DEF c
<1>3. 0 \in R
  <2>1. Upto(0) = {} OBVIOUS
  <2>2. <<>> = [k \in {} |-> pairs[k]] OBVIOUS
  <2>3. NoPairs.status = "ok" /\ NoPairs.pairs = <<>> BY DEF NoPairs
  <2>4. at(c[0], 0)
    <3>1. [k \in Upto(0) |-> pairs[k]] = [k \in {} |-> pairs[k]] BY <2>1
    <3>. HIDE DEF Upto
    <3>. QED BY <1>2, <2>2, <2>3, <3>1
  <2>5. 0 \in 0..N BY <1>1
  <2>. HIDE DEF at
  <2>. QED BY <2>4, <2>5
<1>4. ASSUME NEW n \in 1..N, n - 1 \in R PROVE n \in R
  <2>. DEFINE st == c[n - 1]
              key == keys[n]
              K == Upto(n - 1)
              pair == [key |-> key, value |-> pairs[key]]
              more == [k \in K \cup {key} |-> pairs[k]]
  <2>1. n - 1 \in 0..N /\ n \in 0..N /\ at(st, n - 1)
    <3>1. at(st, n - 1)
      <4>. HIDE DEF at
      <4>. QED BY <1>4
    <3>2. n - 1 \in 0..N /\ n \in 0..N
      <4>. HIDE DEF N
      <4>. QED BY <1>1
    <3>. QED BY <3>1, <3>2
  <2>2. PICK w : parts[n] = PartOf(key, w) /\ ReadsBack(w, pairs[key], isField)
    BY <1>1 DEF PartsCarry
  <2>3. NameText(key) /\ key # <<>> BY <1>1 DEF Section
  <2>4. parts[n] # <<>> BY <2>2, <2>3, PartShape DEF NameText, ReadsBack
  <2>5. PairOf(parts[n], isField) = pair BY <2>2, <2>3, PartComesBack
  <2>6. c[n] = AddPair(st, parts[n], isField) BY <1>2
  <2>7. Upto(n) = K \cup {key}
    <3>1. \A i \in 1..n : i = n \/ i \in 1..(n - 1) BY <1>1
    <3>2. n \in 1..n /\ \A i \in 1..(n - 1) : i \in 1..n BY <1>1
    <3>. QED BY <3>1, <3>2
  <2>8. DOMAIN st = {"status", "pairs"}
    <3>1. st \in P BY <1>2, <2>1
    <3>. QED BY <3>1 DEF PairsState
  <2>9. st.status = "ok" /\ st.pairs = [k \in K |-> pairs[k]] BY <2>1
  <2>. HIDE DEF st, key, K, Upto
  <2>10. AddPair(st, parts[n], isField) = WithPair(st, pair)
    BY <2>4, <2>5, <2>9 DEF AddPair, PairOf
  <2>11. pair.key = key /\ pair.value = pairs[key] OBVIOUS
  <2>12. pair.value.type \notin {"rejected", "raises"} BY <2>2, <2>11 DEF ReadsBack
  <2>13. WithPair(st, pair) = [st EXCEPT !.pairs = more]
    <3>. DEFINE next == [k \in DOMAIN st.pairs \cup {pair.key} |->
                            IF k = pair.key THEN pair.value ELSE st.pairs[k]]
    <3>1. next = more BY <2>9, <2>11
    <3>2. WithPair(st, pair) = [st EXCEPT !.pairs = next]
      <4>. HIDE DEF pair
      <4>. QED BY <2>3, <2>11, <2>12 DEF WithPair
    <3>. HIDE DEF next, more
    <3>. QED BY <3>1, <3>2
  <2>. HIDE DEF more
  <2>14. c[n].status = "ok" /\ c[n].pairs = more BY <2>6, <2>8, <2>9, <2>10, <2>13
  <2>. QED BY <2>1, <2>7, <2>14 DEF more
<1>. HIDE DEF R
<1>5. \A n \in 0..N : n \in R BY <1>1, <1>3, <1>4, InductionUpTo
<1>6. N \in R BY <1>1, <1>5
<1>7. pairs = [k \in DOMAIN pairs |-> pairs[k]] BY DEF Section
<1>8. at(c[N], N) BY <1>6 DEF R
<1>9. Upto(N) = DOMAIN pairs BY <1>1
<1>. QED BY <1>7, <1>8, <1>9 DEF Pairs, c

(* v can stand in a section of tags or fields.                             *)
Writable(v, isField) ==
    LET w == EncodedValue(v)
    IN  /\ ReadsBack(w, v, isField)
        /\ Inert(Symbols, w, ",", isField) /\ Inert(Symbols, w, " ", TRUE)
        /\ isField => w # <<>> /\ w[Len(w)] # " "

LEMMA TagIsWritable ==
    ASSUME NEW t, NameText(t)
    PROVE  Writable(Value("tag", t), FALSE)
<1>. DEFINE v == Value("tag", t)
            E == Escaped(t, NameDelims)
<1>1. EncodedValue(v) = E /\ v.type \notin {"rejected", "raises"} BY DEF EncodedValue, Value
<1>2. t \in Seq(Symbols) /\ BS \in Symbols BY MarksAreSymbols DEF NameText
<1>3. E \in Seq(Symbols) /\ _unescape(E, NameDelims) = t BY <1>2, EscapedTyped, NameComesBack
<1>4. \A sep \in NameDelims, quotes \in BOOLEAN : Inert(Symbols, E, sep, quotes)
  BY NameIsInert
<1>5. "," \in NameDelims /\ "=" \in NameDelims /\ " " \in NameDelims BY DEF NameDelims
<1>. HIDE DEF E
<1>6. v = TagValue(E) BY <1>3 DEF TagValue
<1>. HIDE DEF v
<1>7. ReadsBack(E, v, FALSE) BY <1>1, <1>3, <1>4, <1>5, <1>6 DEF ReadsBack
<1>8. Inert(Symbols, E, ",", FALSE) /\ Inert(Symbols, E, " ", TRUE) BY <1>4, <1>5
<1>9. Writable(v, FALSE) BY <1>1, <1>7, <1>8 DEF Writable
<1>. QED BY <1>9 DEF v

LEMMA FieldIsWritable ==
    ASSUME NEW v, FieldValue(v)
    PROVE  Writable(v, TRUE)
<1>1. "," \in NameDelims /\ "=" \in NameDelims /\ " " \in NameDelims BY DEF NameDelims
<1>2. Carries(EncodedValue(v), v) BY FieldCarries
<1>. QED BY <1>1, <1>2 DEF Writable, ReadsBack, Carries

(* What a section looks like once it is written out.                       *)
SectionText(parts, pairs, isField) ==
    /\ parts \in Seq(Seq(Symbols))
    /\ DOMAIN pairs # {} => parts # <<>>
    /\ \A n \in 1..Len(parts) :
            /\ parts[n] # <<>>
            /\ Inert(Symbols, parts[n], ",", isField) /\ Inert(Symbols, parts[n], " ", TRUE)
            /\ isField => parts[n][Len(parts[n])] # " "
    /\ Pairs(parts, isField).status = "ok" /\ Pairs(parts, isField).pairs = pairs

LEMMA PartWritten ==
    ASSUME NEW isField \in BOOLEAN, NEW k, NameText(k), NEW v, Writable(v, isField)
    PROVE  LET part == PartOf(k, EncodedValue(v))
           IN  /\ part \in Seq(Symbols) /\ part # <<>>
               /\ Inert(Symbols, part, ",", isField) /\ Inert(Symbols, part, " ", TRUE)
               /\ isField => part[Len(part)] # " "
<1>. DEFINE w == EncodedValue(v)
            E == Escaped(k, NameDelims)
<1>1. k \in Seq(Symbols) /\ w \in Seq(Symbols) /\ "=" \in Symbols
  BY MarksAreSymbols DEF NameText, Writable, ReadsBack, NameDelims
<1>2. E \in Seq(Symbols) BY <1>1, MarksAreSymbols, EscapedTyped
<1>3. Inert(Symbols, E, ",", isField) /\ Inert(Symbols, E, " ", TRUE)
  <2>1. "," \in NameDelims /\ " " \in NameDelims BY DEF NameDelims
  <2>. QED BY <2>1, NameIsInert
<1>4. Inert(Symbols, w, ",", isField) /\ Inert(Symbols, w, " ", TRUE)
      /\ (isField => w # <<>> /\ w[Len(w)] # " ")
  BY DEF Writable
<1>5. "=" # BS /\ "=" # "," /\ "=" # " " /\ "=" # QT BY DEF BS, QT
<1>. HIDE DEF w, E
<1>6. Inert(Symbols, E \o <<"=">> \o w, ",", isField)
      /\ Inert(Symbols, E \o <<"=">> \o w, " ", TRUE)
  BY <1>1, <1>2, <1>3, <1>4, <1>5, InertAround
<1>7. isField => (E \o <<"=">> \o w)[Len(E \o <<"=">> \o w)] # " "
  <2>. DEFINE u == E \o <<"=">>
  <2>1. u \in Seq(Symbols) BY <1>1, <1>2, EndsWith
  <2>. HIDE DEF u
  <2>2. w # <<>> => (u \o w)[Len(u \o w)] = w[Len(w)] BY <1>1, <2>1, ConcatEnds
  <2>3. isField => (u \o w)[Len(u \o w)] # " " BY <1>4, <2>2
  <2>. QED BY <2>3 DEF u
<1>8. PartOf(k, w) \in Seq(Symbols) /\ PartOf(k, w) # <<>> BY <1>1, PartShape
<1>. QED BY <1>6, <1>7, <1>8 DEF PartOf, w, E

LEMMA SectionIsWritten ==
    ASSUME NEW isField \in BOOLEAN, NEW pairs, Section(pairs),
           \A k \in DOMAIN pairs : Writable(pairs[k], isField)
    PROVE  SectionText(EncodedPairs(pairs, SetToSeq(DOMAIN pairs)), pairs, isField)
<1>. DEFINE T == DOMAIN pairs
            keys == SetToSeq(T)
            parts == EncodedPairs(pairs, keys)
            N == Len(keys)
<1>1. keys \in Seq(T) /\ T = {keys[i] : i \in 1..Len(keys)}
  BY SetToSeqEnumerates DEF Section
<1>. HIDE DEF keys
<1>2. N \in Nat /\ DOMAIN keys = 1..N BY <1>1, LenProperties
<1>3. parts = [n \in 1..N |-> PartOf(keys[n], EncodedValue(pairs[keys[n]]))]
  <2>. HIDE DEF N
  <2>. QED BY <1>2 DEF EncodedPairs, PartOf
<1>. HIDE DEF parts
<1>4. ASSUME NEW n \in 1..N
      PROVE  /\ keys[n] \in T /\ NameText(keys[n]) /\ Writable(pairs[keys[n]], isField)
             /\ parts[n] = PartOf(keys[n], EncodedValue(pairs[keys[n]]))
  <2>1. keys[n] \in T BY <1>1, ElementOfSeq
  <2>2. NameText(keys[n]) /\ Writable(pairs[keys[n]], isField) BY <2>1 DEF Section
  <2>. QED BY <1>3, <2>1, <2>2
<1>5. ASSUME NEW n \in 1..N
      PROVE  /\ parts[n] \in Seq(Symbols) /\ parts[n] # <<>>
             /\ Inert(Symbols, parts[n], ",", isField) /\ Inert(Symbols, parts[n], " ", TRUE)
             /\ isField => parts[n][Len(parts[n])] # " "
  <2>. DEFINE k == keys[n]
              v == pairs[keys[n]]
  <2>1. NameText(k) /\ Writable(v, isField) /\ parts[n] = PartOf(k, EncodedValue(v)) BY <1>4
  <2>. HIDE DEF k, v
  <2>. QED BY <2>1, PartWritten
<1>6. parts \in Seq(Seq(Symbols)) /\ Len(parts) = N
  <2>1. parts \in [1..N -> Seq(Symbols)]
    <3>1. parts = [n \in 1..N |-> parts[n]] BY <1>3
    <3>. HIDE DEF N
    <3>. QED BY <1>5, <3>1
  <2>. HIDE DEF N
  <2>. QED BY <1>2, <2>1
<1>7. T # {} => parts # <<>>
  <2>1. T # {} => N # 0
    <3>1. N = 0 => 1..N = {} BY <1>2
    <3>. QED BY <1>1, <3>1
  <2>. QED BY <1>6, <2>1, EmptySeq
<1>8. Pairs(parts, isField).status = "ok" /\ Pairs(parts, isField).pairs = pairs
  <2>1. PartsCarry(parts, pairs, keys, isField) BY <1>4, <1>6 DEF Writable, PartsCarry
  <2>2. keys \in Seq(DOMAIN pairs) /\ DOMAIN pairs = {keys[i] : i \in 1..Len(keys)} BY <1>1
  <2>3. parts \in Seq(Seq(Symbols)) BY <1>6
  <2>. HIDE DEF N, T
  <2>. QED BY <2>1, <2>2, <2>3, SectionComesBack
<1>. HIDE DEF N
<1>9. SectionText(parts, pairs, isField) BY <1>5, <1>6, <1>7, <1>8 DEF SectionText
<1>. QED BY <1>9 DEF parts, keys

-----------------------------------------------------------------------------
(* Lines of points                                                         *)

LEMMA EndsFound ==
    ASSUME NEW N \in Nat \ {0}, NEW T \in SUBSET (1..N), 1 \in T, N \in T
    PROVE  /\ (CHOOSE j \in T : \A k \in T : j <= k) = 1
           /\ (CHOOSE j \in T : \A k \in T : j >= k) = N
<1>1. \A k \in T : k \in Nat /\ 1 <= k /\ k <= N OBVIOUS
<1>2. \A j \in T : (\A k \in T : j <= k) => j = 1 BY <1>1
<1>3. \A j \in T : (\A k \in T : j >= k) => j = N BY <1>1
<1>4. \A k \in T : 1 <= k /\ N >= k BY <1>1
<1>. QED BY <1>2, <1>3, <1>4

LEMMA FirstAndLast == \A n \in Nat \ {0} : 1 \in 1..n /\ n \in 1..n
OBVIOUS

LEMMA StrippedSame ==
    ASSUME NEW S, NEW s \in Seq(S), s # <<>>, s[1] # " ", s[Len(s)] # " "
    PROVE  Stripped(s) = s
<1>. DEFINE N == Len(s)
            ink == {j \in DOMAIN s : s[j] # " "}
<1>1. N \in Nat \ {0} BY EmptySeq
<1>2. DOMAIN s = 1..N BY LenProperties
<1>3. s[1] # " " /\ s[N] # " " OBVIOUS
<1>. HIDE DEF N
<1>4. 1 \in 1..N /\ N \in 1..N BY <1>1, FirstAndLast
<1>5. ink \in SUBSET (1..N) /\ 1 \in ink /\ N \in ink BY <1>2, <1>3, <1>4
<1>. HIDE DEF ink
<1>6. /\ (CHOOSE j \in ink : \A k \in ink : j <= k) = 1
      /\ (CHOOSE j \in ink : \A k \in ink : j >= k) = N
  BY <1>1, <1>5, EndsFound
<1>7. Stripped(s) = SubSeq(s, 1, N) BY <1>5, <1>6 DEF Stripped, ink
<1>. QED BY <1>7, SubSeqFull DEF N

LEMMA LineParts ==
    ASSUME NEW D, NEW h \in D, NEW f \in D, NEW t \in D
    PROVE  LET parts == <<h, f>> \o (IF t = <<>> THEN <<>> ELSE <<t>>)
           IN  /\ parts \in Seq(D) /\ parts # <<>>
               /\ Len(parts) = (IF t = <<>> THEN 2 ELSE 3)
               /\ parts[1] = h /\ parts[2] = f
               /\ t # <<>> => parts[3] = t
<1>1. CASE t = <<>>
  <2>1. <<h, f>> \in Seq(D) BY Zenon, Z3
  <2>2. <<h, f>> \o <<>> = <<h, f>> BY <2>1, ConcatEmptySeq
  <2>. QED BY <1>1, <2>1, <2>2
<1>2. CASE t # <<>>
  <2>. DEFINE q == <<h, f>>
              parts == q \o <<t>>
  <2>1. q \in Seq(D) BY Zenon, Z3
  <2>2. Len(q) = 2 /\ q[1] = h /\ q[2] = f OBVIOUS
  <2>. HIDE DEF q
  <2>3. Append(q, t) = parts BY <2>1, AppendIsConcat
  <2>. HIDE DEF parts
  <2>4. /\ parts \in Seq(D) /\ parts # <<>> /\ Len(parts) = Len(q) + 1
        /\ parts[Len(q) + 1] = t /\ \A i \in 1..Len(q) : parts[i] = q[i]
    BY <2>1, <2>3, AppendProperties
  <2>5. Len(parts) = 3 /\ parts[3] = t BY <2>2, <2>4
  <2>6. parts[1] = h /\ parts[2] = f
    <3>1. 1 \in 1..2 /\ 2 \in 1..2 OBVIOUS
    <3>. QED BY <2>2, <2>4, <3>1
  <2>. QED BY <1>2, <2>4, <2>5, <2>6 DEF parts, q
<1>. QED BY <1>1, <1>2

(* w is q with e in front.                                                 *)
InFront(w, e, q, D) ==
    /\ w \in Seq(D) /\ w # <<>> /\ Len(w) = Len(q) + 1 /\ w[1] = e
    /\ Tail(w) = q /\ \A i \in 1..Len(q) : w[i + 1] = q[i]

LEMMA PutInFront ==
    ASSUME NEW D, NEW e \in D, NEW q \in Seq(D)
    PROVE  InFront(<<e>> \o q, e, q, D)
<1>. DEFINE u == <<e>>
            w == u \o q
            n == Len(q)
<1>1. u \in Seq(D) /\ Len(u) = 1 /\ u[1] = e OBVIOUS
<1>2. n \in Nat BY LenProperties
<1>. HIDE DEF u, n
<1>3. /\ w \in Seq(D) /\ Len(w) = Len(u) + Len(q)
      /\ \A i \in 1..(Len(u) + Len(q)) : w[i] = IF i <= Len(u) THEN u[i] ELSE q[i - Len(u)]
  BY <1>1, ConcatProperties
<1>. HIDE DEF w
<1>4. Len(w) = n + 1 /\ \A i \in 1..(n + 1) : w[i] = IF i <= 1 THEN u[i] ELSE q[i - 1]
  BY <1>1, <1>2, <1>3 DEF n
<1>5. w # <<>> /\ w[1] = e
  <2>1. 1 \in 1..(n + 1) /\ n + 1 # 0 BY <1>2
  <2>. QED BY <1>1, <1>3, <1>4, <2>1, EmptySeq
<1>6. \A i \in 1..n : w[i + 1] = q[i]
  <2>1. ASSUME NEW i \in 1..n PROVE i + 1 \in 1..(n + 1) /\ ~ (i + 1 <= 1) /\ i + 1 - 1 = i
    BY <1>2
  <2>2. ASSUME NEW i \in 1..n PROVE w[i + 1] = q[i]
    <3>. DEFINE k == i + 1
    <3>1. k \in 1..(n + 1) /\ ~ (k <= 1) /\ k - 1 = i BY <2>1
    <3>. HIDE DEF k
    <3>2. w[k] = q[i] BY <1>4, <3>1
    <3>. QED BY <3>2 DEF k
  <2>. QED BY <2>2
<1>7. Tail(w) = q
  <2>1. /\ Tail(w) \in Seq(D) /\ Len(Tail(w)) = Len(w) - 1
        /\ \A i \in 1..Len(Tail(w)) : Tail(w)[i] = w[i + 1]
    BY <1>3, <1>5, HeadTailProperties
  <2>2. Len(Tail(w)) = n BY <1>2, <1>4, <2>1
  <2>3. \A i \in 1..Len(q) : Tail(w)[i] = q[i] BY <1>6, <2>1, <2>2 DEF n
  <2>. QED BY <2>1, <2>2, <2>3, SeqEqual DEF n
<1>8. InFront(w, e, q, D) BY <1>3, <1>4, <1>5, <1>6, <1>7 DEF InFront, n
<1>. QED BY <1>8 DEF w, u

LEMMA HeadIsFirst ==
    ASSUME NEW S, NEW s \in Seq(S), s # <<>>
    PROVE  Head(s) = s[1]
BY HeadTailProperties

LEMMA LongIsNotEmpty ==
    ASSUME NEW s, Len(s) > 0
    PROVE  s # <<>>
<1>1. Len(<<>>) = 0 BY EmptySeq
<1>. QED BY <1>1

Measurement(m) == NameText(m) /\ m # <<>> /\ Head(m) # "#"

(* The first section of a line.                                            *)
FirstText(h) ==
    /\ h \in Seq(Symbols) /\ h # <<>> /\ h[1] # " " /\ h[1] # "#"
    /\ Inert(Symbols, h, " ", TRUE)

(* The section of the fields.                                              *)
FieldsText(f) ==
    /\ f \in Seq(Symbols) /\ f # <<>> /\ f[Len(f)] # " "
    /\ Inert(Symbols, f, " ", TRUE)

(* The measurement and the tags.                                           *)
LEMMA HeadComesBack ==
    ASSUME NEW m, Measurement(m),
           NEW pairs, NEW tagParts, SectionText(tagParts, pairs, FALSE)
    PROVE  LET head == <<Escaped(m, {",", " "})>> \o tagParts
               h == Joined(head, ",")
           IN  /\ FirstText(h)
               /\ _split_top(h, ",", FALSE) = head
               /\ _unescape(head[1], {",", " "}) = m /\ Tail(head) = tagParts
<1>. DEFINE D == Seq(Symbols)
            e == Escaped(m, {",", " "})
            head == <<e>> \o tagParts
            h == Joined(head, ",")
            n == Len(tagParts)
<1>1. /\ m \in Seq(Symbols) /\ m # <<>>
      /\ BS \in Symbols /\ "," \in Symbols /\ "," \in NameDelims
  BY MarksAreSymbols DEF Measurement, NameText, NameDelims
<1>2. e \in D /\ _unescape(e, {",", " "}) = m BY <1>1, EscapedTyped, NameComesBack
<1>3. Len(e) > 0 /\ e[1] \in {BS} \cup ({m[1]} \ {",", " "})
  BY <1>1, EscapedEnds, EscapedBegins
<1>4. Inert(Symbols, e, ",", FALSE) /\ Inert(Symbols, e, " ", TRUE)
  BY NameIsInert DEF Measurement
<1>5. /\ tagParts \in Seq(D) /\ n \in Nat
      /\ \A i \in 1..n : /\ tagParts[i] # <<>>
                         /\ Inert(Symbols, tagParts[i], ",", FALSE)
                         /\ Inert(Symbols, tagParts[i], " ", TRUE)
  BY LenProperties DEF SectionText
<1>6. m[1] # "#" BY <1>1, HeadIsFirst DEF Measurement
<1>7. e # <<>> /\ e[1] # " " /\ e[1] # "#"
  <2>1. e # <<>> BY <1>3, LongIsNotEmpty
  <2>. QED BY <1>3, <1>6, <2>1 DEF BS
<1>. HIDE DEF e, D, n
<1>8. /\ head \in Seq(D) /\ head # <<>> /\ Len(head) = n + 1 /\ head[1] = e
      /\ Tail(head) = tagParts /\ \A i \in 1..n : head[i + 1] = tagParts[i]
  <2>1. tagParts \in Seq(D) BY <1>5
  <2>2. InFront(<<e>> \o tagParts, e, tagParts, D) BY <1>2, <2>1, PutInFront
  <2>. HIDE DEF head
  <2>3. InFront(head, e, tagParts, D) BY <2>2 DEF head
  <2>. QED BY <2>3 DEF InFront, n
<1>. HIDE DEF head
<1>. DEFINE N == Len(head)
<1>16. N = n + 1 /\ n \in Nat BY <1>5, <1>8
<1>. HIDE DEF N
<1>17. N \in 1..N /\ \A j \in 1..N : j # 1 => j - 1 \in 1..n /\ j - 1 + 1 = j BY <1>16
<1>9. ASSUME NEW j \in 1..N
      PROVE  /\ head[j] # <<>> /\ Inert(Symbols, head[j], ",", FALSE)
             /\ Inert(Symbols, head[j], " ", TRUE)
  <2>1. CASE j = 1 BY <1>4, <1>7, <1>8, <2>1
  <2>2. CASE j # 1
    <3>. DEFINE i == j - 1
    <3>1. i \in 1..n /\ i + 1 = j BY <1>17, <2>2
    <3>. HIDE DEF i
    <3>2. head[j] = tagParts[i] BY <1>8, <3>1
    <3>. QED BY <1>5, <3>1, <3>2
  <2>. QED BY <2>1, <2>2
<1>10. head \in Seq(Seq(Symbols)) BY <1>8 DEF D
<1>11. h \in Seq(Symbols) BY <1>1, <1>10, JoinedTyped
<1>12. h # <<>> /\ h[1] = e[1]
  <2>2. head[Len(head)] # <<>> /\ head[1] # <<>> BY <1>7, <1>8, <1>9, <1>17 DEF N
  <2>. HIDE DEF h
  <2>3. "," \in Symbols /\ head # <<>> BY <1>1, <1>8
  <2>4. h # <<>> /\ h[1] = head[1][1] BY <1>10, <2>2, <2>3, JoinedEnds, Zenon DEF h
  <2>. QED BY <1>8, <2>4
<1>13. Inert(Symbols, h, " ", TRUE)
  <2>1. "," # BS /\ "," # " " /\ "," # QT BY DEF BS, QT
  <2>. QED BY <1>1, <1>8, <1>9, <1>10, <2>1, JoinedIsInert DEF N
<1>14. _split_top(h, ",", FALSE) = head BY <1>1, <1>8, <1>9, <1>10, JoinedSplits DEF N
<1>15. _unescape(head[1], {",", " "}) = m BY <1>2, <1>8
<1>. HIDE DEF h
<1>. QED BY <1>7, <1>8, <1>11, <1>12, <1>13, <1>14, <1>15 DEF FirstText, h, head, e

LEMMA FieldsComeBack ==
    ASSUME NEW pairs, DOMAIN pairs # {}, NEW parts, SectionText(parts, pairs, TRUE)
    PROVE  LET f == Joined(parts, ",")
           IN  FieldsText(f) /\ _split_top(f, ",", TRUE) = parts
<1>. DEFINE f == Joined(parts, ",")
            n == Len(parts)
<1>1. BS \in Symbols /\ "," \in Symbols /\ "," \in NameDelims
  BY MarksAreSymbols DEF NameDelims
<1>2. /\ parts \in Seq(Seq(Symbols)) /\ parts # <<>>
      /\ \A i \in 1..n : /\ parts[i] # <<>>
                         /\ Inert(Symbols, parts[i], ",", TRUE)
                         /\ Inert(Symbols, parts[i], " ", TRUE)
                         /\ parts[i][Len(parts[i])] # " "
  BY DEF SectionText
<1>3. n \in Nat \ {0} BY <1>2, EmptySeq
<1>4. 1 \in 1..n /\ n \in 1..n BY <1>3, FirstAndLast
<1>5. f \in Seq(Symbols) BY <1>1, <1>2, JoinedTyped
<1>6. f # <<>> /\ f[Len(f)] = parts[n][Len(parts[n])]
  BY <1>1, <1>2, <1>4, JoinedEnds
<1>7. Inert(Symbols, f, " ", TRUE)
  <2>1. "," # BS /\ "," # " " /\ "," # QT BY DEF BS, QT
  <2>. QED BY <1>1, <1>2, <2>1, JoinedIsInert
<1>8. _split_top(f, ",", TRUE) = parts BY <1>1, <1>2, JoinedSplits
<1>. HIDE DEF f, n
<1>. QED BY <1>2, <1>4, <1>5, <1>6, <1>7, <1>8 DEF FieldsText, f

(* The instant of a point, which may be left out.                          *)
LEMMA InstantShape ==
    ASSUME NEW t \in Seq({"1"})
    PROVE  /\ t \in Seq(Symbols) /\ Inert(Symbols, t, " ", TRUE)
           /\ t # <<>> => t[Len(t)] # " " /\ IsNumber(t)
           /\ "9" \notin Range(t)
<1>1. {"1"} \subseteq Symbols /\ BS \in Symbols BY MarksAreSymbols DEF Digits
<1>2. t \in Seq(Symbols) BY <1>1, SeqMonotonic
<1>3. DOMAIN t = 1..Len(t) /\ \A i \in 1..Len(t) : t[i] = "1"
  BY LenProperties, ElementOfSeq
<1>4. Inert(Symbols, t, " ", TRUE)
  <2>1. "1" \notin {BS, QT, " "} BY DEF BS, QT
  <2>. QED BY <1>1, <1>2, <1>3, <2>1, PlainIsInert
<1>5. t # <<>> => t[Len(t)] # " "
  <2>1. t # <<>> => Len(t) \in Nat \ {0} BY EmptySeq
  <2>2. t # <<>> => Len(t) \in 1..Len(t) BY <2>1, FirstAndLast
  <2>. QED BY <1>3, <2>2
<1>6. t # <<>> => IsNumber(t) BY <1>3 DEF IsNumber, Digits
<1>7. "9" \notin Range(t) BY <1>3 DEF Range
<1>. QED BY <1>2, <1>4, <1>5, <1>6, <1>7

(* line falls apart into these sections.                                   *)
FallsApart(line, sections, h, f, t) ==
    /\ Stripped(line) = line /\ ~ Passed(line)
    /\ _split_top_space(line) = sections
    /\ Len(sections) >= 2 /\ sections[1] = h /\ sections[2] = f /\ Stamp(sections) = t

LEMMA LineComesBack ==
    ASSUME NEW h, FirstText(h), NEW f, FieldsText(f), NEW t \in Seq({"1"})
    PROVE  LET sections == <<h, f>> \o (IF t = <<>> THEN <<>> ELSE <<t>>)
           IN  FallsApart(Joined(sections, " "), sections, h, f, t)
<1>. DEFINE D == Seq(Symbols)
            parts == <<h, f>> \o (IF t = <<>> THEN <<>> ELSE <<t>>)
            line == Joined(parts, " ")
            n == Len(parts)
<1>1. BS \in Symbols /\ " " \in Symbols /\ " " \in NameDelims
  BY MarksAreSymbols DEF NameDelims
<1>2. /\ t \in Seq(Symbols) /\ Inert(Symbols, t, " ", TRUE)
      /\ t # <<>> => t[Len(t)] # " "
  BY InstantShape
<1>3. h \in D /\ f \in D /\ t \in D BY <1>2 DEF FirstText, FieldsText
<1>. HIDE DEF D
<1>4. /\ parts \in Seq(D) /\ parts # <<>> /\ n = (IF t = <<>> THEN 2 ELSE 3)
      /\ parts[1] = h /\ parts[2] = f /\ (t # <<>> => parts[3] = t)
  BY <1>3, LineParts
<1>. HIDE DEF parts, n
<1>5. \A i \in 1..n : i = 1 \/ i = 2 \/ (i = 3 /\ t # <<>>)
  <2>1. CASE t = <<>>
    <3>1. n = 2 BY <1>4, <2>1
    <3>. QED BY <3>1
  <2>2. CASE t # <<>>
    <3>1. n = 3 BY <1>4, <2>2
    <3>. QED BY <2>2, <3>1
  <2>. QED BY <2>1, <2>2
<1>6. \A i \in 1..n : Inert(Symbols, parts[i], " ", TRUE)
  BY <1>2, <1>4, <1>5 DEF FirstText, FieldsText
<1>7. n >= 2 /\ Stamp(parts) = t
  <2>1. n >= 2 /\ (n >= 3 <=> t # <<>>) BY <1>4
  <2>. QED BY <1>4, <2>1 DEF Stamp, n
<1>8. parts[n] # <<>> /\ parts[n][Len(parts[n])] # " "
  <2>1. n = 2 \/ (n = 3 /\ t # <<>>) BY <1>4
  <2>. QED BY <1>2, <1>4, <2>1 DEF FirstText, FieldsText
<1>9. parts \in Seq(Seq(Symbols)) BY <1>4 DEF D
<1>10. line # <<>> /\ line[1] = h[1] /\ line[Len(line)] = parts[n][Len(parts[n])]
  <2>1. parts[1] # <<>> BY <1>4 DEF FirstText
  <2>. QED BY <1>1, <1>4, <1>8, <1>9, <2>1, JoinedEnds DEF n
<1>11. line \in Seq(Symbols) BY <1>1, <1>9, JoinedTyped
<1>12. _split_top_space(line) = parts
  BY <1>1, <1>4, <1>6, <1>9, JoinedSplits DEF n, _split_top_space
<1>. HIDE DEF line
<1>13. Stripped(line) = line
  <2>1. line[1] # " " /\ line[Len(line)] # " " BY <1>8, <1>10 DEF FirstText
  <2>. QED BY <1>10, <1>11, <2>1, StrippedSame
<1>14. ~ Passed(line)
  <2>1. Head(line) = line[1] BY <1>10, <1>11, HeadIsFirst
  <2>. QED BY <1>10, <2>1 DEF Passed, FirstText
<1>15. FallsApart(line, parts, h, f, t)
  BY <1>4, <1>7, <1>12, <1>13, <1>14 DEF FallsApart, n
<1>. QED BY <1>15 DEF line, parts

(* A point that a line can carry comes back from its line.                 *)
LEMMA PointComesBack ==
    ASSUME NEW p, Written(p)
    PROVE  parse_line(Encoded(p)) = p
<1>. DEFINE tagParts == EncodedPairs(p.tags, SetToSeq(DOMAIN p.tags))
            parts == EncodedPairs(p.fields, SetToSeq(DOMAIN p.fields))
            head == <<Escaped(p.measurement, {",", " "})>> \o tagParts
            h == Joined(head, ",")
            f == Joined(parts, ",")
            sections == <<h, f>> \o (IF p.time = <<>> THEN <<>> ELSE <<p.time>>)
            line == Joined(sections, " ")
<1>1. /\ p = [status |-> "ok", measurement |-> p.measurement,
              tags |-> p.tags, fields |-> p.fields, time |-> p.time]
      /\ Measurement(p.measurement)
      /\ Section(p.tags) /\ Section(p.fields) /\ DOMAIN p.fields # {}
      /\ p.time \in Seq({"1"})
  BY Zenon DEF Written, Measurement
<1>2. SectionText(tagParts, p.tags, FALSE)
  <2>1. \A k \in DOMAIN p.tags : Writable(p.tags[k], FALSE)
    <3>1. ASSUME NEW k \in DOMAIN p.tags PROVE Writable(p.tags[k], FALSE)
      <4>1. p.tags[k] = Value("tag", p.tags[k].text) /\ NameText(p.tags[k].text)
        BY DEF Written
      <4>2. Writable(Value("tag", p.tags[k].text), FALSE) BY <4>1, TagIsWritable
      <4>. QED BY <4>1, <4>2, Zenon
    <3>. QED BY <3>1
  <2>. QED BY <1>1, <2>1, SectionIsWritten
<1>3. SectionText(parts, p.fields, TRUE)
  <2>1. \A k \in DOMAIN p.fields : Writable(p.fields[k], TRUE) BY FieldIsWritable DEF Written
  <2>. QED BY <1>1, <2>1, SectionIsWritten
<1>. HIDE DEF tagParts, parts
<1>4. /\ FirstText(h)
      /\ _split_top(h, ",", FALSE) = head
      /\ _unescape(head[1], {",", " "}) = p.measurement /\ Tail(head) = tagParts
  BY <1>1, <1>2, HeadComesBack
<1>5. FieldsText(f) /\ _split_top(f, ",", TRUE) = parts
  BY <1>1, <1>3, FieldsComeBack
<1>. HIDE DEF h, f, head
<1>6. /\ Stripped(line) = line /\ ~ Passed(line)
      /\ _split_top_space(line) = sections
      /\ Len(sections) >= 2 /\ sections[1] = h /\ sections[2] = f
      /\ Stamp(sections) = p.time
  <2>1. p.time \in Seq({"1"}) /\ FirstText(h) /\ FieldsText(f) BY <1>1, <1>4, <1>5
  <2>2. FallsApart(line, sections, h, f, p.time) BY <2>1, LineComesBack
  <2>. HIDE DEF line, sections
  <2>. QED BY <2>2, Zenon DEF FallsApart
<1>7. Encoded(p) = line BY DEF Encoded, line, sections, h, f, head, tagParts, parts
<1>. HIDE DEF line, sections
<1>8. parse_line(line) = ParsedSections(sections) BY <1>6 DEF parse_line
<1>9. ParsedSections(sections) = ParsedHead(head, parts, p.time)
  <2>1. ~ (Len(sections) < 2)
    <3>1. sections \in Seq(Seq(Symbols))
      <4>. DEFINE D == Seq(Symbols)
      <4>1. h \in D /\ f \in D /\ p.time \in D
        BY <1>1, <1>4, <1>5, InstantShape DEF FirstText, FieldsText
      <4>. HIDE DEF D
      <4>2. sections \in Seq(D) BY <4>1, LineParts DEF sections
      <4>. QED BY <4>2 DEF D
    <3>2. Len(sections) \in Nat BY <3>1, LenProperties
    <3>. QED BY <1>6, <3>2
  <2>. QED BY <1>4, <1>5, <1>6, <2>1 DEF ParsedSections
<1>. DEFINE tags == Pairs(tagParts, FALSE)
            fields == Pairs(parts, TRUE)
<1>10. ParsedHead(head, parts, p.time) = PointOrError(p.measurement, tags, fields, p.time)
  BY <1>4 DEF ParsedHead
<1>11. tags.status = "ok" /\ tags.pairs = p.tags BY <1>2 DEF SectionText
<1>12. fields.status = "ok" /\ fields.pairs = p.fields BY <1>3 DEF SectionText
<1>. HIDE DEF tags, fields
<1>13. p.fields # <<>> BY <1>1
<1>14. "9" \notin Range(p.time) /\ (p.time # <<>> => IsNumber(p.time)) BY <1>1, InstantShape
<1>15. PointOrError(p.measurement, tags, fields, p.time)
         = [status |-> "ok", measurement |-> p.measurement,
            tags |-> p.tags, fields |-> p.fields, time |-> p.time]
  BY <1>1, <1>11, <1>12, <1>13, <1>14 DEF PointOrError, Measurement
<1>. QED BY <1>1, <1>7, <1>8, <1>9, <1>10, <1>15, Zenon

-----------------------------------------------------------------------------
(* The behaviours of the parser                                            *)

(* What is sent and what has come of it.                                   *)
ParserInv ==
    /\ sent = <<>> => text \in Seq(Chars)
    /\ Sent("lines") => \E n \in Nat : \E lines \in [1..n -> Lines] :
            sent = [lines |-> lines] /\ parsed = parse_batch(lines)
    /\ Sent("status") => sent \in Points /\ parsed = parse_line(Encoded(sent))

LEMMA ParserStart == ParsingInit => ParserInv
BY EmptySeq DEF ParsingInit, ParserInv, Sent

LEMMA BodyIsNoPoint ==
    ASSUME NEW lines
    PROVE  [lines |-> lines] # <<>> /\ DOMAIN [lines |-> lines] = {"lines"}
<1>1. DOMAIN [lines |-> lines] = {"lines"} OBVIOUS
<1>2. DOMAIN <<>> = {} OBVIOUS
<1>. QED BY <1>1, <1>2

LEMMA ParserStep == ParserInv /\ [ParsingNext]_parsingVars => ParserInv'
<1>1. SUFFICES ASSUME ParserInv, [ParsingNext]_parsingVars PROVE ParserInv' OBVIOUS
<1>2. ASSUME NEW c \in Chars, Type(c) PROVE ParserInv'
  <2>1. text \in Seq(Chars) BY <1>1, <1>2 DEF ParserInv, Type
  <2>2. Append(text, c) \in Seq(Chars) BY <2>1, AppendProperties
  <2>. QED BY <1>2, <2>2 DEF ParserInv, Type, Sent
<1>3. CASE SendPoint
  <2>1. PICK p \in Points : sent' = p /\ parsed' = parse_line(Encoded(p)) BY <1>3 DEF SendPoint
  <2>2. "lines" \notin DOMAIN p /\ p # <<>> BY PointsAreRecords
  <2>. QED BY <2>1, <2>2 DEF ParserInv, Sent
<1>4. CASE SendBody
  <2>1. PICK n \in 1..MaxLines : \E lines \in [1..n -> Lines] :
            sent' = [lines |-> lines] /\ parsed' = parse_batch(lines)
    BY <1>4 DEF SendBody
  <2>2. PICK lines \in [1..n -> Lines] : sent' = [lines |-> lines] /\ parsed' = parse_batch(lines)
    BY <2>1
  <2>3. n \in Nat BY ParsingBounds
  <2>4. sent' # <<>> /\ DOMAIN sent' = {"lines"} BY <2>2, BodyIsNoPoint
  <2>. QED BY <2>2, <2>3, <2>4 DEF ParserInv, Sent
<1>5. CASE UNCHANGED parsingVars BY <1>1, <1>5 DEF ParserInv, Sent, parsingVars
<1>. QED BY <1>1, <1>2, <1>3, <1>4, <1>5 DEF ParsingNext

LEMMA ParserInvariant == ParsingSpec => []ParserInv
BY ParserStart, ParserStep, PTL DEF ParsingSpec

LEMMA BodyTyped ==
    ASSUME NEW n \in Nat, NEW lines \in [1..n -> Lines]
    PROVE  lines \in Seq(Seq(Symbols))
<1>1. lines \in [1..n -> Seq(Symbols)] BY LinesAreTexts
<1>. QED BY <1>1, IsASeq

(* What came of a body is what LineByLine says.                            *)
LEMMA BodySound ==
    ASSUME NEW S, NEW lines \in Seq(Seq(S)), parsed = parse_batch(lines)
    PROVE  LineByLine(lines, [j \in DOMAIN lines |-> parse_line(lines[j])])
<1>. DEFINE N == Len(lines)
            points == [j \in DOMAIN lines |-> parse_line(lines[j])]
            is(status) == {j \in DOMAIN lines :
                              points[j].status = status /\ ~ Passed(Stripped(lines[j]))}
<1>1. DOMAIN lines = 1..N BY LenProperties
<1>2. \A status : is(status) = Are(lines, N, status) BY <1>1 DEF Are
<1>3. BatchSound(parsed, lines, N) BY BatchIsSound
<1>4. parsed.aborted => is("raises") # {} BY <1>2, <1>3 DEF BatchSound
<1>5. ASSUME ~ parsed.aborted
      PROVE  /\ parsed.errors = InOrder(is("rejected"))
             /\ parsed.points = [j \in DOMAIN InOrder(is("ok")) |-> points[InOrder(is("ok"))[j]]]
  <2>1. Enumerates(parsed.errors, is("rejected")) BY <1>2, <1>3, <1>5 DEF BatchSound
  <2>2. PICK q : /\ Enumerates(q, is("ok"))
                 /\ parsed.points = [i \in 1..Len(q) |-> parse_line(lines[q[i]])]
    BY <1>2, <1>3, <1>5 DEF BatchSound
  <2>3. q \in Seq(Nat) /\ \A i \in 1..Len(q) : q[i] \in is("ok") BY <2>2 DEF Enumerates
  <2>4. \A i \in 1..Len(q) : points[q[i]] = parse_line(lines[q[i]]) BY <2>3
  <2>5. InOrder(is("ok")) = q /\ InOrder(is("rejected")) = parsed.errors
    <3>. HIDE DEF is
    <3>. QED BY <2>1, <2>2, EnumerationIsInOrder
  <2>6. DOMAIN q = 1..Len(q) BY <2>3, LenProperties
  <2>. HIDE DEF points, is
  <2>. QED BY <2>2, <2>4, <2>5, <2>6
<1>. QED BY <1>4, <1>5 DEF LineByLine

LEMMA ParserAgrees == ParserInv => BodyIsLineByLine /\ CutsWhereUnescaped
<1>1. SUFFICES ASSUME ParserInv PROVE BodyIsLineByLine /\ CutsWhereUnescaped OBVIOUS
<1>2. BodyIsLineByLine
  <2>1. SUFFICES ASSUME Sent("lines")
                 PROVE  LineByLine(sent.lines, [j \in DOMAIN sent.lines |-> parse_line(sent.lines[j])])
    BY DEF BodyIsLineByLine
  <2>2. PICK n \in Nat : \E lines \in [1..n -> Lines] :
            sent = [lines |-> lines] /\ parsed = parse_batch(lines)
    BY <1>1, <2>1 DEF ParserInv
  <2>3. PICK lines \in [1..n -> Lines] : sent = [lines |-> lines] /\ parsed = parse_batch(lines)
    BY <2>2
  <2>4. sent.lines = lines BY <2>3
  <2>. QED BY <2>3, <2>4, BodyTyped, BodySound
<1>3. CutsWhereUnescaped
  <2>1. SUFFICES ASSUME sent = <<>>, NEW sep \in NameDelims, NEW quotes \in BOOLEAN,
                        ~ (quotes /\ Misread(text))
                 PROVE  _split_top(text, sep, quotes)
                            = Segments(text, {j \in DOMAIN text : IsCut(text, j, sep, quotes)})
    BY DEF CutsWhereUnescaped
  <2>2. text \in Seq(Chars) BY <1>1, <2>1 DEF ParserInv
  <2>. QED BY <2>1, <2>2, SplitIsSegments
<1>. QED BY <1>2, <1>3

(* The scanner cuts every text, however long, exactly at the separators    *)
(* outside escapes and quotes, and drops nothing: the parts of _split_top  *)
(* are the segments between those cuts, unless the text holds a quote that *)
(* the one-symbol look-back misreads.                                      *)
THEOREM CutsAreSound == ParsingSpec => []CutsWhereUnescaped
BY ParserInvariant, ParserAgrees, PTL

(* parse_batch makes of every body, however long, what parse_line makes of *)
(* its lines: good points in order, the numbers of bad lines, nothing for  *)
(* blanks and comments.  An error that is not the line's own can come only *)
(* from a number or an instant that cannot be converted.                   *)
THEOREM BodiesAreSound == ParsingSpec => []BodyIsLineByLine
BY ParserInvariant, ParserAgrees, PTL

(* Every point that a line can carry, with names, tags and fields of any   *)
(* number and length, is what parse_line returns for the line that a       *)
(* client writes for it.                                                   *)
THEOREM PointsComeBack ==
    ASSUME \A p \in Points : Written(p)
    PROVE  ParsingSpec => []PointsSurvive
<1>1. ParserInv => PointsSurvive
  <2>1. SUFFICES ASSUME ParserInv, Sent("status") PROVE parsed = sent BY DEF PointsSurvive
  <2>2. sent \in Points /\ parsed = parse_line(Encoded(sent)) BY <2>1 DEF ParserInv
  <2>. QED BY <2>2, PointComesBack
<1>. QED BY <1>1, ParserInvariant, PTL

(* The planners and the parser do not disturb each other: what holds of    *)
(* either alone holds of the behaviours that the runs explore.             *)
THEOREM PureFunctionsAreApart == PureSpec => CoverageSpec /\ ParsingSpec
<1>1. PureInit => CoverageInit /\ ParsingInit BY DEF PureInit
<1>2. [PureNext]_<<coverageVars, parsingVars>>
        => [CoverageNext]_coverageVars /\ [ParsingNext]_parsingVars
  BY DEF PureNext
<1>. QED BY <1>1, <1>2, PTL DEF PureSpec, CoverageSpec, ParsingSpec
====
