---- MODULE ServiceProofs ----
(***************************************************************************)
(* What holds of the write queue and of the service around it, for any     *)
(* clients, workers, batch size, capacity and faults: points are neither   *)
(* lost nor duplicated on their way, nothing is closed while it is used,   *)
(* and the way batches are written never changes under a client.  The      *)
(* argument is Batcher's BatcherInv, carried through every step of the     *)
(* queue, and Service's LifeInv, through every step of lifespan.  Then     *)
(* that lifespan adds nothing to what the queue may do, and that one       *)
(* worker keeps the order of a client's points.                            *)
(***************************************************************************)
EXTENDS Service, SequenceTheorems, TLAPS

-----------------------------------------------------------------------------
(* Sequences of points and the sets of their elements.                     *)

LEMMA ElemsWithin ==
    ASSUME NEW S, NEW s \in Seq(S)
    PROVE  Elems(s) \subseteq S
  BY ElementOfSeq DEF Elems

LEMMA ElemsOfNone == Elems(<<>>) = {}
  BY DEF Elems

LEMMA ElemsAppend ==
    ASSUME NEW S, NEW s \in Seq(S), NEW e \in S
    PROVE  /\ Append(s, e) \in Seq(S)
           /\ Len(Append(s, e)) = Len(s) + 1
           /\ Elems(Append(s, e)) = Elems(s) \cup {e}
           /\ Append(s, e) # <<>>
  <1>1. Append(s, e) \in Seq(S) /\ Len(s) \in Nat
    OBVIOUS
  <1>2. Len(Append(s, e)) = Len(s) + 1
    OBVIOUS
  <1>3. \A j \in 1..Len(s) + 1 : Append(s, e)[j] = IF j <= Len(s) THEN s[j] ELSE e
    OBVIOUS
  <1>4. Elems(Append(s, e)) = {Append(s, e)[j] : j \in 1..Len(s) + 1}
    BY <1>2 DEF Elems
  <1>5. ASSUME NEW p \in Elems(s) PROVE p \in Elems(Append(s, e))
    <2>1. PICK j \in 1..Len(s) : p = s[j]
      BY DEF Elems
    <2>2. j \in 1..Len(s) + 1 /\ Append(s, e)[j] = p
      BY <2>1, <1>1, <1>3
    <2> QED
      BY <2>2, <1>4
  <1>6. e \in Elems(Append(s, e))
    <2>1. Len(s) + 1 \in 1..Len(s) + 1 /\ Append(s, e)[Len(s) + 1] = e
      BY <1>1, <1>3
    <2> QED
      BY <2>1, <1>4
  <1>7. ASSUME NEW p \in Elems(Append(s, e)) PROVE p \in Elems(s) \cup {e}
    <2>1. PICK j \in 1..Len(s) + 1 : p = Append(s, e)[j]
      BY <1>4
    <2>2. CASE j <= Len(s)
      <3>1. j \in 1..Len(s) /\ p = s[j]
        BY <2>1, <2>2, <1>1, <1>3
      <3> QED
        BY <3>1 DEF Elems
    <2>3. CASE ~(j <= Len(s))
      BY <2>1, <2>3, <1>3
    <2> QED
      BY <2>2, <2>3
  <1> QED
    BY <1>1, <1>2, <1>5, <1>6, <1>7

LEMMA ElemsConcat ==
    ASSUME NEW S, NEW s \in Seq(S), NEW t \in Seq(S)
    PROVE  s \o t \in Seq(S)
  OBVIOUS

Distinct(s) == \A j, k \in 1..Len(s) : s[j] = s[k] => j = k

(* Taking the head out of a sequence without repetitions takes one element *)
(* out of its set.                                                         *)
LEMMA ElemsTail ==
    ASSUME NEW S, NEW s \in Seq(S), s # <<>>, Distinct(s)
    PROVE  /\ Tail(s) \in Seq(S) /\ Head(s) \in S
           /\ Len(Tail(s)) = Len(s) - 1
           /\ Distinct(Tail(s))
           /\ Head(s) \in Elems(s)
           /\ Elems(Tail(s)) = Elems(s) \ {Head(s)}
  <1>1. Len(s) \in Nat \ {0} /\ Head(s) = s[1] /\ Head(s) \in S
    BY HeadTailProperties, EmptySeq
  <1>2. Tail(s) \in Seq(S) /\ Len(Tail(s)) = Len(s) - 1
    BY HeadTailProperties
  <1>3. \A j \in 1..Len(s) - 1 : Tail(s)[j] = s[j + 1]
    BY HeadTailProperties
  <1>4. Distinct(Tail(s))
    <2>1. ASSUME NEW j \in 1..Len(s) - 1, NEW k \in 1..Len(s) - 1, Tail(s)[j] = Tail(s)[k]
          PROVE  j = k
      <3>1. j + 1 \in 1..Len(s) /\ k + 1 \in 1..Len(s)
        BY <1>1
      <3>2. s[j + 1] = s[k + 1]
        BY <2>1, <1>3
      <3>3. j + 1 = k + 1
        BY <3>1, <3>2 DEF Distinct
      <3> QED
        BY <3>3
    <2> QED
      BY <2>1, <1>2 DEF Distinct
  <1>5. Head(s) \in Elems(s)
    BY <1>1 DEF Elems
  <1>6. Elems(Tail(s)) = {Tail(s)[j] : j \in 1..Len(s) - 1}
    BY <1>2 DEF Elems
  <1>7. ASSUME NEW p \in Elems(Tail(s)) PROVE p \in Elems(s) \ {Head(s)}
    <2>1. PICK j \in 1..Len(s) - 1 : p = Tail(s)[j]
      BY <1>6
    <2>2. j + 1 \in 1..Len(s) /\ p = s[j + 1] /\ j + 1 # 1
      BY <2>1, <1>1, <1>3
    <2>3. p # s[1]
      BY <2>2, <1>1 DEF Distinct
    <2> QED
      BY <2>2, <2>3, <1>1 DEF Elems
  <1>8. ASSUME NEW p \in Elems(s), p # Head(s) PROVE p \in Elems(Tail(s))
    <2>1. PICK j \in 1..Len(s) : p = s[j]
      BY DEF Elems
    <2>2. j # 1
      BY <2>1, <1>8, <1>1
    <2>3. j - 1 \in 1..Len(s) - 1 /\ (j - 1) + 1 = j
      BY <2>2, <1>1
    <2>4. Tail(s)[j - 1] = p
      BY <2>1, <2>3, <1>3
    <2> QED
      BY <2>3, <2>4, <1>6
  <1> QED
    BY <1>1, <1>2, <1>4, <1>5, <1>7, <1>8

LEMMA AppendDistinct ==
    ASSUME NEW S, NEW s \in Seq(S), NEW e \in S, e \notin Elems(s), Distinct(s)
    PROVE  Distinct(Append(s, e))
  <1>1. Len(s) \in Nat /\ Len(Append(s, e)) = Len(s) + 1
    OBVIOUS
  <1>2. \A j \in 1..Len(s) + 1 : Append(s, e)[j] = IF j <= Len(s) THEN s[j] ELSE e
    OBVIOUS
  <1>3. \A j \in 1..Len(s) : s[j] # e
    BY DEF Elems
  <1>4. ASSUME NEW j \in 1..Len(s) + 1, NEW k \in 1..Len(s) + 1,
               Append(s, e)[j] = Append(s, e)[k]
        PROVE  j = k
    <2>1. CASE j <= Len(s) /\ k <= Len(s)
      <3>1. j \in 1..Len(s) /\ k \in 1..Len(s) /\ s[j] = s[k]
        BY <2>1, <1>1, <1>2, <1>4
      <3> QED
        BY <3>1 DEF Distinct
    <2>2. CASE j <= Len(s) /\ ~(k <= Len(s))
      <3>1. j \in 1..Len(s) /\ s[j] = e
        BY <2>2, <1>1, <1>2, <1>4
      <3> QED
        BY <3>1, <1>3
    <2>3. CASE ~(j <= Len(s)) /\ k <= Len(s)
      <3>1. k \in 1..Len(s) /\ s[k] = e
        BY <2>3, <1>1, <1>2, <1>4
      <3> QED
        BY <3>1, <1>3
    <2>4. CASE ~(j <= Len(s)) /\ ~(k <= Len(s))
      BY <2>4, <1>1
    <2> QED
      BY <2>1, <2>2, <2>3, <2>4
  <1> QED
    BY <1>1, <1>4 DEF Distinct

-----------------------------------------------------------------------------
(* The write queue                                                         *)

LEMMA NoPointsYet ==
    Init => BatcherInv
  <1> SUFFICES ASSUME Init PROVE BatcherInv
    OBVIOUS
  <1>1. ClientsFit
    BY BatcherSizes DEF Init, ClientsFit
  <1>2. QueueFits
    BY BatcherSizes DEF Init, QueueFits
  <1>3. WorkersFit
    BY BatcherSizes DEF Init, WorkersFit, Fits
  <1>4. Dropping /\ log \in Seq(Point)
    <2>1. log \in Seq(Point)
      BY EmptySeq DEF Init
    <2> QED
      BY <2>1 DEF Init, Dropping
  <1>5. Buffered = {} /\ InQueue = {}
    BY ElemsOfNone DEF Init, Buffered, InQueue
  <1>6. SentPoints = {}
    BY BatcherSizes DEF Init, SentPoints, Point
  <1>7. \A i, j \in Workers : i # j => Elems(worker[i].buf) \cap Elems(worker[j].buf) = {}
    BY ElemsOfNone DEF Init
  <1>8. Accounted
    BY <1>5, <1>6, <1>7 DEF Init, Accounted
  <1> QED
    BY <1>1, <1>2, <1>3, <1>4, <1>8 DEF BatcherInv

(* Accounted bounds every set of points by what the clients have sent.     *)
LEMMA OnlyPoints ==
    ASSUME Accounted
    PROVE  stored \cup failed \cup dropped \subseteq Point
  BY DEF Accounted, SentPoints

LEMMA InvImpliesTypes ==
    BatcherInv => TypeOK
  <1> SUFFICES ASSUME BatcherInv PROVE TypeOK
    OBVIOUS
  <1>1. ClientsFit /\ QueueFits /\ WorkersFit /\ Dropping /\ log \in Seq(Point) /\ Accounted
    BY DEF BatcherInv
  <1>2. Elems(queue) \subseteq Point /\ Elems(log) \subseteq Point
    BY <1>1, ElemsWithin DEF QueueFits
  <1>3. ASSUME NEW i \in Workers
        PROVE  /\ worker[i].pc \in {"get", "flush", "write", "done"}
               /\ Elems(worker[i].buf) \subseteq Point /\ Len(worker[i].buf) <= BatchSize
               /\ worker[i].pc \in {"flush", "write"} => worker[i].buf # <<>>
    <2>1. worker[i] \in [pc : {"get", "flush", "write", "done"}, buf : Seq(Point)]
      BY <1>1 DEF WorkersFit
    <2>2. Elems(worker[i].buf) \subseteq Point
      BY <2>1, ElemsWithin
    <2> QED
      BY <2>1, <2>2, <1>1 DEF WorkersFit, Fits
  <1>4. stored \cup failed \cup dropped \subseteq Point
    BY <1>1, OnlyPoints
  <1> QED
    BY <1>1, <1>2, <1>3, <1>4 DEF TypeOK, ClientsFit, QueueFits, Dropping

LEMMA ClientType ==
    ASSUME ClientsFit, NEW c \in Clients
    PROVE  /\ client[c] \in [sent : 0..MaxPoints, left : 0..MaxRequest, sync : BOOLEAN]
           /\ client[c].sent \in Nat /\ client[c].left \in Nat
           /\ client[c].sent + client[c].left <= MaxPoints
           /\ MaxPoints \in Nat /\ MaxRequest \in Nat
  BY BatcherSizes DEF ClientsFit

LEMMA WorkerType ==
    ASSUME WorkersFit, NEW i \in Workers
    PROVE  /\ worker[i] \in [pc : {"get", "flush", "write", "done"}, buf : Seq(Point)]
           /\ worker[i].buf \in Seq(Point)
           /\ Fits(worker[i])
           /\ Len(worker[i].buf) \in Nat
           /\ BatchSize \in Nat \ {0}
  <1>1. worker[i] \in [pc : {"get", "flush", "write", "done"}, buf : Seq(Point)] /\ Fits(worker[i])
    BY DEF WorkersFit
  <1>2. worker[i].buf \in Seq(Point)
    BY <1>1
  <1> QED
    BY <1>1, <1>2, BatcherSizes

Others(i) == UNION {Elems(worker[j].buf) : j \in Workers \ {i}}

(* One worker takes a step: the others' buffers stay what and where they   *)
(* are.                                                                    *)
LEMMA OneWorker ==
    ASSUME BatcherInv, NEW i \in Workers,
           NEW w \in [pc : {"get", "flush", "write", "done"}, buf : Seq(Point)],
           Fits(w), worker' = [worker EXCEPT ![i] = w]
    PROVE  /\ WorkersFit'
           /\ Others(i) \cap Elems(worker[i].buf) = {}
           /\ Buffered = Others(i) \cup Elems(worker[i].buf)
           /\ Buffered' = Others(i) \cup Elems(w.buf)
           /\ Others(i) \cap Elems(w.buf) = {} =>
                \A j, k \in Workers : j # k =>
                    (Elems(worker[j].buf) \cap Elems(worker[k].buf))' = {}
  <1>1. WorkersFit /\ Accounted
    BY DEF BatcherInv
  <1>2. worker'[i] = w /\ \A j \in Workers \ {i} : worker'[j] = worker[j]
    BY <1>1 DEF WorkersFit
  <1>3. WorkersFit'
    <2>1. worker' \in [Workers -> [pc : {"get", "flush", "write", "done"}, buf : Seq(Point)]]
      BY <1>1 DEF WorkersFit
    <2>2. \A j \in Workers : Fits(worker'[j])
      BY <1>1, <1>2 DEF WorkersFit
    <2> QED
      BY <2>1, <2>2 DEF WorkersFit, Fits
  <1>4. Others(i) \cap Elems(worker[i].buf) = {}
    BY <1>1 DEF Others, Accounted
  <1>5. Buffered = Others(i) \cup Elems(worker[i].buf)
    BY DEF Buffered, Others
  <1>6. Buffered' = UNION {Elems(worker'[j].buf) : j \in Workers}
    BY DEF Buffered, Elems
  <1>7. Buffered' = Others(i) \cup Elems(w.buf)
    BY <1>2, <1>6 DEF Others
  <1>8. ASSUME Others(i) \cap Elems(w.buf) = {},
               NEW j \in Workers, NEW k \in Workers, j # k
        PROVE  Elems(worker'[j].buf) \cap Elems(worker'[k].buf) = {}
    <2>1. CASE j = i
      <3>1. Elems(worker'[k].buf) \subseteq Others(i)
        BY <2>1, <1>2, <1>8 DEF Others
      <3> QED
        BY <3>1, <2>1, <1>2, <1>8
    <2>2. CASE k = i
      <3>1. Elems(worker'[j].buf) \subseteq Others(i)
        BY <2>2, <1>2, <1>8 DEF Others
      <3> QED
        BY <3>1, <2>2, <1>2, <1>8
    <2>3. CASE j # i /\ k # i
      BY <2>3, <1>1, <1>2, <1>8 DEF Accounted
    <2> QED
      BY <2>1, <2>2, <2>3
  <1>9. Others(i) \cap Elems(w.buf) = {} =>
          \A j, k \in Workers : j # k =>
              (Elems(worker[j].buf) \cap Elems(worker[k].buf))' = {}
    BY <1>8 DEF Elems
  <1> QED
    BY <1>3, <1>4, <1>5, <1>7, <1>9

(* A step of the clients alone leaves every buffer as it is.               *)
LEMMA SameWorkers ==
    ASSUME BatcherInv, UNCHANGED worker
    PROVE  /\ WorkersFit'
           /\ Buffered' = Buffered
           /\ \A j, k \in Workers : j # k =>
                (Elems(worker[j].buf) \cap Elems(worker[k].buf))' = {}
  <1>1. WorkersFit'
    BY DEF BatcherInv, WorkersFit, Fits
  <1>2. \A j \in Workers : Elems(worker[j].buf)' = Elems(worker[j].buf)
    BY DEF Elems
  <1>3. Buffered' = UNION {Elems(worker[i].buf)' : i \in Workers}
    BY DEF Buffered
  <1> QED
    BY <1>1, <1>2, <1>3 DEF BatcherInv, Accounted, Buffered

(* The points of a request that has not been put are new.                  *)
LEMMA NewPoints ==
    ASSUME ClientsFit, NEW c \in Clients
    PROVE  LET batch == PointsOf(c, client[c].sent + 1, client[c].sent + client[c].left)
           IN  /\ batch \in Seq(Point)
               /\ Elems(batch) = {p \in Point : /\ p.client = c
                                                /\ client[c].sent < p.n
                                                /\ p.n <= client[c].sent + client[c].left}
  <1> DEFINE lo == client[c].sent
             n == client[c].left
             batch == PointsOf(c, lo + 1, lo + n)
             new == {p \in Point : p.client = c /\ lo < p.n /\ p.n <= lo + n}
  <1>1. lo \in Nat /\ n \in Nat /\ lo + n <= MaxPoints /\ MaxPoints \in Nat
    BY ClientType
  <1> HIDE DEF lo, n
  <1>2. (lo + n) - (lo + 1) + 1 = n /\ \A j \in 1..n : (lo + 1) + j - 1 = lo + j
    BY <1>1
  <1>3. batch = [j \in 1..n |-> [client |-> c, n |-> lo + j]]
    BY <1>1, <1>2 DEF PointsOf
  <1>4. \A j \in 1..n : [client |-> c, n |-> lo + j] \in Point
    BY <1>1 DEF Point
  <1>5. batch \in Seq(Point) /\ Len(batch) = n
    <2>1. batch \in [1..n -> Point]
      BY <1>3, <1>4
    <2>2. batch \in Seq(Point)
      BY <2>1, <1>1
    <2>3. Len(batch) \in Nat /\ 1..Len(batch) = 1..n
      BY <2>1, <2>2, LenProperties
    <2> QED
      BY <2>2, <2>3, <1>1
  <1>6. Elems(batch) = {[client |-> c, n |-> lo + j] : j \in 1..n}
    BY <1>3, <1>5 DEF Elems
  <1>7. ASSUME NEW p \in new PROVE p \in Elems(batch)
    <2>1. p.n \in Nat /\ p.n - lo \in 1..n /\ lo + (p.n - lo) = p.n
      BY <1>1, <1>7 DEF Point
    <2>2. p = [client |-> c, n |-> lo + (p.n - lo)]
      BY <1>7, <2>1 DEF Point
    <2> QED
      BY <2>1, <2>2, <1>6
  <1>8. ASSUME NEW p \in Elems(batch) PROVE p \in new
    BY <1>1, <1>4, <1>6
  <1>9. batch \in Seq(Point) /\ Elems(batch) = new
    BY <1>5, <1>7, <1>8
  <1> QED
    BY <1>9 DEF lo, n

(* What was accounted for stays so when no set of points changes.          *)
LEMMA QueueKept ==
    ASSUME BatcherInv, UNCHANGED queue
    PROVE  QueueFits' /\ InQueue' = InQueue
  BY DEF BatcherInv, QueueFits, InQueue, Elems

LEMMA SendKeeps ==
    ASSUME BatcherInv, NEW c \in Clients, NEW size \in 1..MaxRequest, NEW sync \in BOOLEAN,
           Send(c, size, sync)
    PROVE  BatcherInv'
  <1>1. ClientsFit /\ Accounted /\ Dropping /\ log \in Seq(Point)
    BY DEF BatcherInv
  <1>2. client' = [client EXCEPT ![c].left = size, ![c].sync = sync]
        /\ client[c].sent + size <= MaxPoints
    BY DEF Send
  <1>3. \A d \in Clients : client'[d].sent = client[d].sent
    BY <1>1, <1>2 DEF ClientsFit
  <1>4. ClientsFit'
    <2>1. MaxRequest \in Nat /\ size \in 0..MaxRequest
      BY BatcherSizes
    <2>2. client' \in [Clients -> [sent : 0..MaxPoints, left : 0..MaxRequest, sync : BOOLEAN]]
      BY <1>1, <1>2, <2>1 DEF ClientsFit
    <2>3. \A d \in Clients : client'[d].left = IF d = c THEN size ELSE client[d].left
      BY <1>1, <1>2 DEF ClientsFit
    <2>4. \A d \in Clients : client'[d].sent + client'[d].left <= MaxPoints
      BY <1>1, <1>2, <1>3, <2>3 DEF ClientsFit
    <2> QED
      BY <2>2, <2>4 DEF ClientsFit
  <1>5. SentPoints' = SentPoints
    BY <1>3 DEF SentPoints, Point
  <1>6. Accounted'
    BY <1>1, <1>5, SameWorkers, QueueKept DEF Send, Accounted
  <1> QED
    BY <1>1, <1>4, <1>6, SameWorkers, QueueKept DEF Send, BatcherInv, Dropping

LEMMA PutKeeps ==
    ASSUME BatcherInv, NEW c \in Clients, Put(c)
    PROVE  BatcherInv'
  <1> DEFINE n == client[c].sent + 1
             p == [client |-> c, n |-> n]
  <1>1. ClientsFit /\ QueueFits /\ Accounted /\ Dropping /\ log \in Seq(Point)
    BY DEF BatcherInv
  <1>2. /\ client[c].left > 0 /\ Len(queue) < Capacity
        /\ queue' = Append(queue, p)
        /\ client' = [client EXCEPT ![c].left = @ - 1, ![c].sent = @ + 1]
        /\ UNCHANGED <<worker, stopping, log, stored, failed, dropped>>
    BY DEF Put
  <1>3. /\ client[c].sent \in Nat /\ client[c].left \in Nat /\ MaxPoints \in Nat
        /\ client[c].left \in 0..MaxRequest /\ MaxRequest \in Nat
        /\ client[c].sent + client[c].left <= MaxPoints
    BY <1>1, ClientType
  <1>4. /\ client'[c].sent = n /\ client'[c].left = client[c].left - 1
        /\ client'[c].sync = client[c].sync
        /\ \A d \in Clients \ {c} : client'[d] = client[d]
    BY <1>1, <1>2 DEF ClientsFit
  <1>5. p \in Point /\ p.client = c /\ p.n = n
    BY <1>2, <1>3 DEF Point
  <1>6. ClientsFit'
    <2> DEFINE s == client[c].sent
               l == client[c].left
    <2>0. s \in Nat /\ l \in Nat /\ l > 0 /\ s + l <= MaxPoints /\ l \in 0..MaxRequest
          /\ MaxPoints \in Nat /\ MaxRequest \in Nat
      BY <1>2, <1>3
    <2> HIDE DEF s, l
    <2>4. s + 1 \in 0..MaxPoints /\ l - 1 \in 0..MaxRequest
      BY <2>0
    <2>1. n \in 0..MaxPoints /\ client[c].left - 1 \in 0..MaxRequest
      BY <2>4 DEF s, l
    <2>2. client' \in [Clients -> [sent : 0..MaxPoints, left : 0..MaxRequest, sync : BOOLEAN]]
      BY <1>1, <1>2, <2>1 DEF ClientsFit
    <2>3. \A d \in Clients : client'[d].sent + client'[d].left <= MaxPoints
      BY <1>1, <1>3, <1>4 DEF ClientsFit
    <2> QED
      BY <2>2, <2>3 DEF ClientsFit
  <1>7. p \notin SentPoints
    BY <1>3, <1>5 DEF SentPoints
  <1>8. SentPoints' = SentPoints \cup {p}
    <2>1. ASSUME NEW q \in Point PROVE q \in SentPoints' <=> q \in SentPoints \/ q = p
      <3>1. q.client \in Clients /\ q.n \in Nat
        BY <1>3 DEF Point
      <3>2. CASE q.client # c
        BY <3>1, <3>2, <1>4, <1>5 DEF SentPoints
      <3>3. CASE q.client = c
        <4>1. q = p <=> q.n = n
          BY <3>3, <1>5 DEF Point
        <4>2. q \in SentPoints' <=> q.n <= n
          BY <3>3, <1>4 DEF SentPoints
        <4>3. q \in SentPoints <=> q.n <= client[c].sent
          BY <3>3 DEF SentPoints
        <4> QED
          BY <4>1, <4>2, <4>3, <3>1, <1>3
      <3> QED
        BY <3>2, <3>3
    <2> QED
      BY <2>1, <1>5 DEF SentPoints
  <1> HIDE DEF p, n
  <1>9. p \notin InQueue \cup Buffered \cup stored \cup failed \cup dropped
    BY <1>1, <1>7 DEF Accounted
  <1>10. queue' \in Seq(Point) /\ Len(queue') <= Capacity /\ InQueue' = InQueue \cup {p}
    <2>1. queue \in Seq(Point) /\ Len(queue) \in Nat /\ Capacity \in Nat
      BY <1>1, BatcherSizes DEF QueueFits
    <2>2. queue' \in Seq(Point) /\ Elems(queue') = Elems(queue) \cup {p}
          /\ Len(queue') = Len(queue) + 1
      BY <2>1, <1>2, <1>5, ElemsAppend
    <2>3. InQueue' = Elems(queue')
      BY DEF InQueue, Elems
    <2> QED
      BY <2>1, <2>2, <2>3, <1>2 DEF InQueue
  <1>11. Distinct(queue')
    BY <1>1, <1>2, <1>5, <1>9, AppendDistinct DEF QueueFits, Distinct, InQueue
  <1>12. QueueFits'
    BY <1>10, <1>11 DEF QueueFits, Distinct
  <1>13. Accounted'
    BY <1>1, <1>2, <1>8, <1>9, <1>10, SameWorkers DEF Accounted
  <1> QED
    BY <1>1, <1>2, <1>6, <1>12, <1>13, SameWorkers DEF BatcherInv, Dropping

(* What a ?sync=true request sends becomes sent all at once.               *)
LEMMA SyncSends ==
    ASSUME BatcherInv, NEW c \in Clients,
           client' = [client EXCEPT ![c].left = 0, ![c].sent = @ + client[c].left]
    PROVE  LET batch == PointsOf(c, client[c].sent + 1, client[c].sent + client[c].left)
           IN  /\ ClientsFit'
               /\ batch \in Seq(Point)
               /\ Elems(batch) \cap SentPoints = {}
               /\ SentPoints' = SentPoints \cup Elems(batch)
  <1> DEFINE lo == client[c].sent
             hi == client[c].sent + client[c].left
             batch == PointsOf(c, lo + 1, hi)
  <1>1. ClientsFit
    BY DEF BatcherInv
  <1>2. lo \in Nat /\ hi \in Nat /\ lo <= hi /\ hi <= MaxPoints /\ MaxPoints \in Nat
        /\ MaxRequest \in Nat
    BY <1>1, ClientType
  <1>3. /\ client'[c].sent = hi /\ client'[c].left = 0
        /\ \A d \in Clients \ {c} : client'[d] = client[d]
    BY <1>1 DEF ClientsFit
  <1>4. ClientsFit'
    <2>1. hi \in 0..MaxPoints /\ 0 \in 0..MaxRequest
      BY <1>2
    <2>2. client' \in [Clients -> [sent : 0..MaxPoints, left : 0..MaxRequest, sync : BOOLEAN]]
      BY <1>1, <2>1 DEF ClientsFit
    <2>3. \A d \in Clients : client'[d].sent + client'[d].left <= MaxPoints
      BY <1>1, <1>2, <1>3 DEF ClientsFit
    <2> QED
      BY <2>2, <2>3 DEF ClientsFit
  <1>5. batch \in Seq(Point)
        /\ Elems(batch) = {p \in Point : p.client = c /\ lo < p.n /\ p.n <= hi}
    BY <1>1, NewPoints
  <1> HIDE DEF batch
  <1>6. ASSUME NEW q \in Point
        PROVE  /\ q \in Elems(batch) => q \notin SentPoints
               /\ q \in SentPoints' <=> q \in SentPoints \/ q \in Elems(batch)
    <2>1. q.client \in Clients /\ q.n \in Nat
      BY <1>2 DEF Point
    <2>2. q \in SentPoints <=> q.n <= client[q.client].sent
      BY DEF SentPoints
    <2>3. q \in SentPoints' <=> q.n <= client'[q.client].sent
      BY DEF SentPoints
    <2>4. q \in Elems(batch) <=> q.client = c /\ lo < q.n /\ q.n <= hi
      BY <1>5
    <2>5. CASE q.client # c
      BY <2>1, <2>2, <2>3, <2>4, <2>5, <1>3
    <2>6. CASE q.client = c
      <3>1. q \in SentPoints <=> q.n <= lo
        BY <2>2, <2>6
      <3>2. q \in SentPoints' <=> q.n <= hi
        BY <2>3, <2>6, <1>3
      <3>3. q \in Elems(batch) <=> lo < q.n /\ q.n <= hi
        BY <2>4, <2>6
      <3> HIDE DEF lo, hi
      <3> QED
        BY <3>1, <3>2, <3>3, <2>1, <1>2
    <2> QED
      BY <2>5, <2>6
  <1>7. Elems(batch) \subseteq Point
    BY <1>5, ElemsWithin
  <1>8. Elems(batch) \cap SentPoints = {} /\ SentPoints' = SentPoints \cup Elems(batch)
    BY <1>6, <1>7 DEF SentPoints
  <1> QED
    BY <1>4, <1>5, <1>8 DEF batch

LEMMA SyncWriteKeeps ==
    ASSUME BatcherInv, NEW c \in Clients, SyncWrite(c)
    PROVE  BatcherInv'
  <1> DEFINE batch == PointsOf(c, client[c].sent + 1, client[c].sent + client[c].left)
  <1>1. Accounted /\ Dropping /\ log \in Seq(Point)
    BY DEF BatcherInv
  <1>2. /\ client' = [client EXCEPT ![c].left = 0, ![c].sent = @ + client[c].left]
        /\ log' = log \o batch /\ stored' = stored \cup Elems(batch)
        /\ UNCHANGED <<queue, worker, stopping, failed, dropped>>
    BY DEF SyncWrite
  <1>3. /\ ClientsFit' /\ batch \in Seq(Point)
        /\ Elems(batch) \cap SentPoints = {} /\ SentPoints' = SentPoints \cup Elems(batch)
    BY <1>2, SyncSends
  <1> HIDE DEF batch
  <1>4. log' \in Seq(Point)
    BY <1>1, <1>2, <1>3, ElemsConcat
  <1>5. Accounted'
    BY <1>1, <1>2, <1>3, SameWorkers, QueueKept DEF Accounted
  <1> QED
    BY <1>1, <1>2, <1>3, <1>4, <1>5, SameWorkers, QueueKept DEF BatcherInv, Dropping

LEMMA SyncFailsKeeps ==
    ASSUME BatcherInv, NEW c \in Clients, SyncFails(c)
    PROVE  BatcherInv'
  <1> DEFINE batch == PointsOf(c, client[c].sent + 1, client[c].sent + client[c].left)
  <1>1. Accounted /\ Dropping /\ log \in Seq(Point)
    BY DEF BatcherInv
  <1>2. /\ client' = [client EXCEPT ![c].left = 0, ![c].sent = @ + client[c].left]
        /\ log' = log \o batch /\ failed' = failed \cup Elems(batch)
        /\ UNCHANGED <<queue, worker, stopping, dropped>>
    BY DEF SyncFails
  <1>3. PICK part \in SUBSET Elems(batch) : stored' = stored \cup part
    BY DEF SyncFails
  <1>4. /\ ClientsFit' /\ batch \in Seq(Point)
        /\ Elems(batch) \cap SentPoints = {} /\ SentPoints' = SentPoints \cup Elems(batch)
    BY <1>2, SyncSends
  <1> HIDE DEF batch
  <1>5. log' \in Seq(Point)
    BY <1>1, <1>2, <1>4, ElemsConcat
  <1>6. Accounted'
    BY <1>1, <1>2, <1>3, <1>4, SameWorkers, QueueKept DEF Accounted
  <1> QED
    BY <1>1, <1>2, <1>4, <1>5, <1>6, SameWorkers, QueueKept DEF BatcherInv, Dropping

(* What the clients have sent stays when no client takes a step.           *)
LEMMA ClientsKept ==
    ASSUME BatcherInv, UNCHANGED client
    PROVE  ClientsFit' /\ SentPoints' = SentPoints
  BY DEF BatcherInv, ClientsFit, SentPoints, Point

LEMMA GetKeeps ==
    ASSUME BatcherInv, NEW i \in Workers, Get(i)
    PROVE  BatcherInv'
  <1> DEFINE p == Head(queue)
             b == worker[i].buf
  <1>1. WorkersFit /\ QueueFits /\ Accounted /\ Dropping /\ log \in Seq(Point)
    BY DEF BatcherInv
  <1>2. PICK next \in AfterGet(Len(b) + 1) :
            worker' = [worker EXCEPT ![i] = [pc |-> next, buf |-> Append(@.buf, p)]]
    BY DEF Get
  <1>3. /\ worker[i].pc = "get" /\ queue # <<>> /\ queue' = Tail(queue)
        /\ UNCHANGED <<client, stopping, log, stored, failed, dropped>>
    BY DEF Get
  <1>4. /\ b \in Seq(Point) /\ Len(b) \in Nat /\ Len(b) < BatchSize /\ BatchSize \in Nat
    BY <1>1, <1>3, WorkerType DEF Fits
  <1>5. /\ Tail(queue) \in Seq(Point) /\ p \in Point /\ Len(Tail(queue)) = Len(queue) - 1
        /\ Distinct(Tail(queue)) /\ p \in Elems(queue)
        /\ Elems(Tail(queue)) = Elems(queue) \ {p}
    BY <1>1, <1>3, ElemsTail DEF QueueFits, Distinct
  <1>6. /\ Append(b, p) \in Seq(Point) /\ Len(Append(b, p)) = Len(b) + 1
        /\ Elems(Append(b, p)) = Elems(b) \cup {p} /\ Append(b, p) # <<>>
    BY <1>4, <1>5, ElemsAppend
  <1> DEFINE w == [pc |-> next, buf |-> Append(b, p)]
  <1>7. worker' = [worker EXCEPT ![i] = w]
    BY <1>2
  <1>8. next \in {"get", "flush"} /\ (next = "get" => ~(Len(b) + 1 >= BatchSize))
    BY <1>2 DEF AfterGet
  <1>9. w \in [pc : {"get", "flush", "write", "done"}, buf : Seq(Point)]
        /\ w.pc = next /\ w.buf = Append(b, p)
    BY <1>6, <1>8
  <1> HIDE DEF w, p
  <1>10. Fits(w)
    BY <1>4, <1>6, <1>8, <1>9 DEF Fits
  <1>11. InQueue' = InQueue \ {p} /\ p \in InQueue
    <2>1. InQueue' = Elems(queue')
      BY DEF InQueue, Elems
    <2> QED
      BY <2>1, <1>3, <1>5 DEF InQueue
  <1>12. QueueFits'
    <2>1. Len(queue') <= Capacity
      BY <1>1, <1>3, <1>5, BatcherSizes DEF QueueFits
    <2> QED
      BY <2>1, <1>3, <1>5 DEF QueueFits, Distinct
  <1>13. /\ WorkersFit' /\ Others(i) \cap Elems(b) = {}
         /\ Buffered = Others(i) \cup Elems(b)
         /\ Buffered' = Others(i) \cup Elems(w.buf)
         /\ Others(i) \cap Elems(w.buf) = {} =>
                \A j, k \in Workers : j # k =>
                    (Elems(worker[j].buf) \cap Elems(worker[k].buf))' = {}
    BY <1>7, <1>9, <1>10, OneWorker
  <1>14. p \notin Buffered /\ Elems(w.buf) = Elems(b) \cup {p}
    BY <1>1, <1>6, <1>9, <1>11 DEF Accounted
  <1>15. \A j, k \in Workers : j # k =>
            (Elems(worker[j].buf) \cap Elems(worker[k].buf))' = {}
    BY <1>13, <1>14
  <1>16. Accounted'
    <2>1. Buffered' = Buffered \cup {p}
      BY <1>13, <1>14
    <2>2. InQueue' \cup Buffered' = InQueue \cup Buffered
      BY <2>1, <1>11
    <2>3. InQueue' \cap Buffered' = {}
      BY <2>1, <1>1, <1>11 DEF Accounted
    <2> QED
      BY <2>2, <2>3, <1>1, <1>3, <1>15, ClientsKept DEF Accounted
  <1> QED
    BY <1>1, <1>3, <1>12, <1>13, <1>16, ClientsKept DEF BatcherInv, Dropping

(* A worker that goes on with the buffer it has.                           *)
LEMMA WorkerGoesOn ==
    ASSUME BatcherInv, NEW i \in Workers, NEW pc \in {"flush", "write"},
           worker[i].buf # <<>>,
           worker' = [worker EXCEPT ![i].pc = pc],
           UNCHANGED <<client, queue, stopping, stored, failed, dropped>>,
           log' \in Seq(Point)
    PROVE  BatcherInv'
  <1> DEFINE w == [worker[i] EXCEPT !.pc = pc]
  <1>1. WorkersFit /\ Accounted /\ Dropping
    BY DEF BatcherInv
  <1>2. /\ worker[i] \in [pc : {"get", "flush", "write", "done"}, buf : Seq(Point)]
        /\ Fits(worker[i])
    BY <1>1, WorkerType
  <1>3. /\ w \in [pc : {"get", "flush", "write", "done"}, buf : Seq(Point)]
        /\ w.pc = pc /\ w.buf = worker[i].buf /\ worker' = [worker EXCEPT ![i] = w]
    BY <1>2
  <1> HIDE DEF w
  <1>4. Fits(w)
    BY <1>2, <1>3 DEF Fits
  <1>5. /\ WorkersFit' /\ Buffered' = Buffered
        /\ \A j, k \in Workers : j # k =>
                (Elems(worker[j].buf) \cap Elems(worker[k].buf))' = {}
    <2>1. /\ WorkersFit'
          /\ Others(i) \cap Elems(worker[i].buf) = {}
          /\ Buffered = Others(i) \cup Elems(worker[i].buf)
          /\ Buffered' = Others(i) \cup Elems(w.buf)
          /\ Others(i) \cap Elems(w.buf) = {} =>
                \A j, k \in Workers : j # k =>
                    (Elems(worker[j].buf) \cap Elems(worker[k].buf))' = {}
      BY <1>3, <1>4, OneWorker
    <2>2. Elems(w.buf) = Elems(worker[i].buf)
      BY <1>3
    <2> QED
      BY <2>1, <2>2
  <1>6. Accounted'
    BY <1>1, <1>5, ClientsKept, QueueKept DEF Accounted
  <1> QED
    BY <1>1, <1>5, <1>6, ClientsKept, QueueKept DEF BatcherInv, Dropping

LEMMA DueKeeps ==
    ASSUME BatcherInv, NEW i \in Workers, Due(i)
    PROVE  BatcherInv'
  BY WorkerGoesOn DEF Due, BatcherInv

LEMMA TakeSeqsKeeps ==
    ASSUME BatcherInv, NEW i \in Workers, TakeSeqs(i)
    PROVE  BatcherInv'
  <1>1. WorkersFit /\ log \in Seq(Point)
    BY DEF BatcherInv
  <1>2. worker[i].buf \in Seq(Point) /\ worker[i].buf # <<>>
    BY <1>1, WorkerType DEF TakeSeqs, Fits
  <1>3. log' \in Seq(Point)
    BY <1>1, <1>2, ElemsConcat DEF TakeSeqs
  <1> QED
    BY <1>2, <1>3, WorkerGoesOn DEF TakeSeqs

(* A worker is done with its buffer, part of it stored, all of it failed   *)
(* or all of it stored.                                                    *)
LEMMA FlushKeeps ==
    ASSUME BatcherInv, NEW i \in Workers,
           NEW part \in SUBSET Elems(worker[i].buf),
           NEW lost \in SUBSET Elems(worker[i].buf),
           part \cup lost = Elems(worker[i].buf),
           worker' = [worker EXCEPT ![i] = AfterFlush(i)],
           stored' = stored \cup part, failed' = failed \cup lost,
           UNCHANGED <<client, queue, stopping, log, dropped>>
    PROVE  BatcherInv'
  <1> DEFINE w == AfterFlush(i)
  <1>1. WorkersFit /\ Accounted /\ Dropping /\ log \in Seq(Point)
    BY DEF BatcherInv
  <1>2. /\ w \in [pc : {"get", "flush", "write", "done"}, buf : Seq(Point)]
        /\ w.pc \in {"get", "done"} /\ w.buf = <<>>
    BY EmptySeq DEF AfterFlush
  <1> HIDE DEF w
  <1>3. Fits(w)
    <2>1. Len(w.buf) = 0 /\ BatchSize \in Nat \ {0}
      BY <1>2, BatcherSizes
    <2> QED
      BY <2>1, <1>2 DEF Fits
  <1>4. worker' = [worker EXCEPT ![i] = w]
    BY DEF w
  <1>5. /\ WorkersFit' /\ Buffered' = Others(i)
        /\ Buffered = Others(i) \cup Elems(worker[i].buf)
        /\ Others(i) \cap Elems(worker[i].buf) = {}
        /\ \A j, k \in Workers : j # k =>
                (Elems(worker[j].buf) \cap Elems(worker[k].buf))' = {}
    <2>1. /\ WorkersFit'
          /\ Others(i) \cap Elems(worker[i].buf) = {}
          /\ Buffered = Others(i) \cup Elems(worker[i].buf)
          /\ Buffered' = Others(i) \cup Elems(w.buf)
          /\ Others(i) \cap Elems(w.buf) = {} =>
                \A j, k \in Workers : j # k =>
                    (Elems(worker[j].buf) \cap Elems(worker[k].buf))' = {}
      BY <1>2, <1>3, <1>4, OneWorker
    <2>2. Elems(w.buf) = {}
      BY <1>2, ElemsOfNone
    <2> QED
      BY <2>1, <2>2
  <1>6. Accounted'
    <2>1. /\ stored' \cup failed' \cup dropped'
                = stored \cup failed \cup dropped \cup Elems(worker[i].buf)
      OBVIOUS
    <2>2. InQueue' \cup Buffered' \cup stored' \cup failed' \cup dropped' = SentPoints
      BY <2>1, <1>1, <1>5, QueueKept DEF Accounted
    <2>3. (InQueue' \cup Buffered') \cap (stored' \cup failed' \cup dropped') = {}
      BY <2>1, <1>1, <1>5, QueueKept DEF Accounted
    <2>4. InQueue' \cap Buffered' = {}
      BY <1>1, <1>5, QueueKept DEF Accounted
    <2> QED
      BY <2>2, <2>3, <2>4, <1>5, ClientsKept DEF Accounted
  <1> QED
    BY <1>1, <1>5, <1>6, ClientsKept, QueueKept DEF BatcherInv, Dropping

LEMMA WrittenKeeps ==
    ASSUME BatcherInv, NEW i \in Workers, Written(i)
    PROVE  BatcherInv'
  <1>1. failed' = failed \cup {}
    BY DEF Written
  <1> QED
    BY <1>1, FlushKeeps DEF Written

LEMMA WriteFailsKeeps ==
    ASSUME BatcherInv, NEW i \in Workers, WriteFails(i)
    PROVE  BatcherInv'
  BY FlushKeeps DEF WriteFails

(* Shutdown: a worker that waits keeps its buffer, the others give theirs  *)
(* up as dropped.                                                          *)
LEMMA StopKeeps ==
    ASSUME BatcherInv, Stop
    PROVE  BatcherInv'
  <1> DEFINE given == UNION {Elems(worker[i].buf) : i \in Flushing}
  <1>1. WorkersFit /\ Accounted /\ Dropping /\ log \in Seq(Point)
    BY DEF BatcherInv
  <1>2. PICK part \in SUBSET UNION {Elems(worker[i].buf) :
                                    i \in {j \in Workers : worker[j].pc = "write"}} :
            stored' = stored \cup part
    BY DEF Stop
  <1>3. /\ stopping' = TRUE /\ ~stopping /\ dropped = {} /\ dropped' = given
        /\ worker' = [i \in Workers |-> AfterCancel(i)]
        /\ UNCHANGED <<client, queue, log, failed>>
    BY <1>1 DEF Stop, Dropping
  <1>4. part \subseteq given
    BY <1>2 DEF Flushing
  <1>5. ASSUME NEW i \in Workers
        PROVE  /\ worker'[i] \in [pc : {"get", "flush", "write", "done"}, buf : Seq(Point)]
               /\ Fits(worker'[i])
               /\ worker[i].pc \in {"flush", "write"} => worker'[i].buf = <<>>
               /\ worker[i].pc \notin {"flush", "write"} => worker'[i].buf = worker[i].buf
    <2>1. /\ worker[i] \in [pc : {"get", "flush", "write", "done"}, buf : Seq(Point)]
          /\ Fits(worker[i])
      BY <1>1, WorkerType
    <2>2. worker'[i] = AfterCancel(i)
      BY <1>3
    <2>3. CASE worker[i].pc = "get" /\ worker[i].buf # <<>>
      BY <2>1, <2>2, <2>3 DEF AfterCancel, Fits
    <2>4. CASE ~(worker[i].pc = "get" /\ worker[i].buf # <<>>)
      <3>1. worker'[i] = [pc |-> "done", buf |-> <<>>]
        BY <2>2, <2>4 DEF AfterCancel
      <3>2. worker[i].pc \notin {"flush", "write"} => worker[i].buf = <<>>
        BY <2>1, <2>4 DEF Fits
      <3>3. <<>> \in Seq(Point) /\ BatchSize \in Nat /\ 0 <= BatchSize /\ Len(<<>>) = 0
        BY BatcherSizes, EmptySeq
      <3> QED
        BY <3>1, <3>2, <3>3 DEF Fits
    <2> QED
      BY <2>3, <2>4
  <1>6. WorkersFit'
    <2>1. worker' \in [Workers -> [pc : {"get", "flush", "write", "done"}, buf : Seq(Point)]]
      BY <1>3, <1>5
    <2> QED
      BY <2>1, <1>5 DEF WorkersFit, Fits
  <1>7. ASSUME NEW i \in Workers
        PROVE  Elems(worker'[i].buf) = IF i \in Flushing THEN {} ELSE Elems(worker[i].buf)
    BY <1>5, ElemsOfNone DEF Flushing
  <1>8. Buffered = given \cup Buffered' /\ given \cap Buffered' = {}
    <2>1. Buffered' = UNION {Elems(worker'[i].buf) : i \in Workers}
      BY DEF Buffered, Elems
    <2>2. Buffered' = UNION {Elems(worker[i].buf) : i \in Workers \ Flushing}
      BY <2>1, <1>7
    <2>3. Flushing \subseteq Workers
      BY DEF Flushing
    <2>4. Buffered = given \cup Buffered'
      BY <2>2, <2>3 DEF Buffered
    <2>5. given \cap Buffered' = {}
      <3>1. ASSUME NEW p, p \in given, p \in Buffered' PROVE FALSE
        <4>1. PICK j \in Flushing : p \in Elems(worker[j].buf)
          BY <3>1
        <4>2. PICK k \in Workers \ Flushing : p \in Elems(worker[k].buf)
          BY <3>1, <2>2
        <4>3. j \in Workers /\ k \in Workers /\ j # k
          BY <4>1, <4>2, <2>3
        <4>4. Elems(worker[j].buf) \cap Elems(worker[k].buf) = {}
          BY <4>3, <1>1 DEF Accounted
        <4> QED
          BY <4>1, <4>2, <4>4
      <3> QED
        BY <3>1
    <2> QED
      BY <2>4, <2>5
  <1>9. \A j, k \in Workers : j # k =>
            (Elems(worker[j].buf) \cap Elems(worker[k].buf))' = {}
    <2>1. \A j, k \in Workers : j # k =>
              Elems(worker'[j].buf) \cap Elems(worker'[k].buf) = {}
      BY <1>1, <1>7 DEF Accounted
    <2> QED
      BY <2>1 DEF Elems
  <1> HIDE DEF given
  <1>10. Accounted'
    <2>1. stored' \cup failed' \cup dropped' = stored \cup failed \cup dropped \cup given
      BY <1>2, <1>3, <1>4
    <2>2. /\ InQueue' \cup Buffered' \cup stored' \cup failed' \cup dropped' = SentPoints
          /\ (InQueue' \cup Buffered') \cap (stored' \cup failed' \cup dropped') = {}
          /\ InQueue' \cap Buffered' = {}
      BY <2>1, <1>1, <1>3, <1>8, QueueKept DEF Accounted
    <2> QED
      BY <2>2, <1>3, <1>9, ClientsKept DEF Accounted
  <1> QED
    BY <1>1, <1>3, <1>6, <1>10, ClientsKept, QueueKept DEF BatcherInv, Dropping

LEMMA QueueStutters ==
    ASSUME BatcherInv, UNCHANGED vars
    PROVE  BatcherInv'
  <1>1. UNCHANGED <<client, queue, worker, stopping, log, stored, failed, dropped>>
    BY DEF vars
  <1>2. Accounted'
    BY <1>1, SameWorkers, QueueKept, ClientsKept DEF BatcherInv, Accounted
  <1> QED
    BY <1>1, <1>2, SameWorkers, QueueKept, ClientsKept DEF BatcherInv, Dropping

LEMMA WriteStepKeeps ==
    ASSUME BatcherInv,
           \/ \E c \in Clients : Put(c) \/ SyncWrite(c) \/ SyncFails(c)
           \/ \E i \in Workers : WorkerStep(i) \/ WriteFails(i)
    PROVE  BatcherInv'
  <1>1. CASE \E c \in Clients : Put(c) \/ SyncWrite(c) \/ SyncFails(c)
    BY <1>1, PutKeeps, SyncWriteKeeps, SyncFailsKeeps
  <1>2. CASE \E i \in Workers : WorkerStep(i) \/ WriteFails(i)
    BY <1>2, GetKeeps, DueKeeps, TakeSeqsKeeps, WrittenKeeps, WriteFailsKeeps DEF WorkerStep
  <1> QED
    BY <1>1, <1>2

(* The write queue by itself, with any clients and workers: at every step, *)
(* start to shutdown, each point handed over is in the queue, in one       *)
(* worker's buffer, or accounted for (Batcher, ingest/app/batcher.py).     *)
THEOREM QueueInvariant == Spec => []BatcherInv
  <1>1. Init => BatcherInv
    BY NoPointsYet
  <1>2. BatcherInv /\ [Next]_vars => BatcherInv'
    <2> SUFFICES ASSUME BatcherInv, [Next]_vars PROVE BatcherInv'
      OBVIOUS
    <2>1. CASE \E c \in Clients : ClientNext(c)
      BY <2>1, SendKeeps, PutKeeps, SyncWriteKeeps, SyncFailsKeeps DEF ClientNext
    <2>2. CASE \E i \in Workers : WorkerStep(i) \/ WriteFails(i)
      BY <2>2, WriteStepKeeps
    <2>3. CASE Stop
      BY <2>3, StopKeeps
    <2>4. CASE UNCHANGED vars
      BY <2>4, QueueStutters
    <2> QED
      BY <2>1, <2>2, <2>3, <2>4 DEF Next
  <1> QED
    BY <1>1, <1>2, PTL DEF Spec

-----------------------------------------------------------------------------
(* The service: what each step of the write queue may do to lifespan.      *)

LEMMA NothingOpenYet ==
    ServiceInit => LifeInv
  <1> SUFFICES ASSUME ServiceInit PROVE LifeInv
    OBVIOUS
  <1>1. \A c \in Clients : client[c].sent = 0 /\ client[c].left = 0
    BY DEF ServiceInit, Init
  <1>2. /\ phase = "off" /\ pool = "none" /\ cold = FALSE
        /\ engine = "none" /\ tierer = "none" /\ passes = {} /\ statements = {}
    BY DEF ServiceInit
  <1>3. PartsTyped
    BY <1>2 DEF PartsTyped, Starting
  <1> QED
    BY <1>1, <1>2, <1>3 DEF LifeInv, Starting, Up, TierStopped

(* Only lifespan's own steps change the parts; the steps of the queue must *)
(* not wake an ended worker nor a client that has sent nothing.            *)
LEMMA LifeKept ==
    ASSUME LifeInv, UNCHANGED <<phase, parts>>,
           \A i \in Workers : worker[i].pc = "done" => worker'[i].pc = "done",
           phase \in Starting =>
              \A c \in Clients : client[c].sent = 0 /\ client[c].left = 0 => client'[c] = client[c]
    PROVE  LifeInv'
  <1>1. UNCHANGED <<phase, pool, cold, engine, tierer, passes, statements>>
    BY DEF parts
  <1>2. PartsTyped'
    BY <1>1 DEF LifeInv, PartsTyped
  <1>3. phase' \in Starting =>
          \A c \in Clients : client'[c].sent = 0 /\ client'[c].left = 0
    BY <1>1 DEF LifeInv
  <1>4. pool' = "closed" => \A i \in Workers : worker'[i].pc = "done"
    BY <1>1 DEF LifeInv
  <1> QED
    BY <1>1, <1>2, <1>3, <1>4 DEF LifeInv

LEMMA WriteStepKeepsLife ==
    ASSUME BatcherInv, LifeInv, WriteStep
    PROVE  LifeInv'
  <1>0. ClientsFit /\ WorkersFit
    BY DEF BatcherInv
  <1>1. UNCHANGED <<phase, parts>>
    BY DEF WriteStep
  <1>2. CASE \E c \in Clients : Put(c) \/ SyncWrite(c) \/ SyncFails(c)
    <2>1. PICK c \in Clients : Put(c) \/ SyncWrite(c) \/ SyncFails(c)
      BY <1>2
    <2>2. /\ worker' = worker /\ client[c].left # 0
          /\ \A d \in Clients \ {c} : client'[d] = client[d]
      BY <2>1, <1>0, ClientType DEF Put, SyncWrite, SyncFails, ClientsFit
    <2> QED
      BY <1>1, <2>2, LifeKept
  <1>3. CASE \E i \in Workers : WorkerStep(i) \/ WriteFails(i)
    <2>1. PICK i \in Workers : WorkerStep(i) \/ WriteFails(i)
      BY <1>3
    <2>2. /\ client' = client /\ worker[i].pc # "done"
          /\ \A j \in Workers \ {i} : worker'[j] = worker[j]
      BY <2>1, <1>0
         DEF WorkerStep, Get, Due, TakeSeqs, Written, WriteFails, WorkersFit
    <2> QED
      BY <1>1, <2>2, LifeKept
  <1> QED
    BY <1>2, <1>3 DEF WriteStep

(* The way batches are written changes while lifespan starts, never under  *)
(* a client.                                                               *)
PathKept == cold' # cold => \A c \in Clients : client[c].sent = 0 /\ client[c].left = 0

LEMMA StartUpKeeps ==
    ASSUME LifeInv, StartUp \/ ColdUnavailable
    PROVE  LifeInv' /\ UNCHANGED vars /\ PathKept
  <1> USE DEF LifeInv, PartsTyped, Starting, Up, TierStopped, PathKept
  <1>0. StartUp \/ ColdUnavailable => UNCHANGED <<client, worker>> /\ UNCHANGED vars
    BY DEF vars, StartUp, Connect, OpenCold, OpenEngine, StartTierer, ColdUnavailable
  <1>1. CASE Connect
    BY <1>0, <1>1, ServiceSwitches DEF Connect
  <1>2. CASE OpenCold
    BY <1>0, <1>2 DEF OpenCold
  <1>3. CASE OpenEngine
    BY <1>0, <1>3 DEF OpenEngine
  <1>4. CASE StartTierer
    BY <1>0, <1>4, ServiceSwitches DEF StartTierer
  <1>5. CASE ColdUnavailable
    BY <1>0, <1>5 DEF ColdUnavailable, WithoutCold
  <1> QED
    BY <1>1, <1>2, <1>3, <1>4, <1>5, <1>0 DEF StartUp

PassStep(p) == BeginPass(p) \/ StartStatement(p) \/ EndStatement(p) \/ EndPass(p)

(* What a change of the passes and their statements must leave true.       *)
PassesFit ==
    /\ passes \subseteq {"loop", "request"} /\ statements \subseteq {"loop", "request"}
    /\ phase \in Starting => passes = {} /\ statements = {}
    /\ phase \in Up => statements \subseteq passes
    /\ phase = "stopTierer" => "request" \notin passes
    /\ phase \in TierStopped => passes = {} /\ statements \subseteq {"loop"}
    /\ passes # {} => engine = "open"

LEMMA OnlyPasses ==
    ASSUME LifeInv, UNCHANGED <<client, worker, phase, pool, cold, engine, tierer>>, PassesFit'
    PROVE  LifeInv'
  BY DEF LifeInv, PartsTyped, PassesFit

LEMMA PassKeeps ==
    ASSUME LifeInv, NEW p \in {"loop", "request"}, PassStep(p)
    PROVE  LifeInv' /\ UNCHANGED <<vars, cold>>
  <1>0. /\ UNCHANGED <<client, worker, phase, pool, cold, engine, tierer>>
        /\ UNCHANGED <<vars, cold>>
    BY DEF vars, PassStep, BeginPass, StartStatement, EndStatement, EndPass
  <1>1. PassesFit /\ phase \in Starting \cup Up \cup TierStopped
    BY DEF LifeInv, PartsTyped, PassesFit
  <1>2. /\ phase \in Starting => tierer = "none"
        /\ phase \in TierStopped => tierer \in {"none", "stopped"}
        /\ phase \in Up /\ tierer \in {"ready", "looping"} => engine = "open"
        /\ tierer \in {"none", "ready", "looping", "stopped"}
        /\ phase \in Up => tierer # "stopped"
    BY DEF LifeInv, PartsTyped
  <1>3. CASE BeginPass(p)
    <2>1. /\ passes' = passes \cup {p} /\ statements' = statements
          /\ \/ p = "loop" /\ tierer = "looping"
             \/ p = "request" /\ phase = "serving" /\ tierer # "none"
      BY <1>3 DEF BeginPass
    <2>2. phase \in Up /\ engine = "open"
      BY <2>1, <1>1, <1>2 DEF Up
    <2>3. PassesFit'
      BY <2>1, <2>2, <1>0, <1>1 DEF PassesFit, Up, Starting, TierStopped
    <2> QED
      BY <1>0, <2>3, OnlyPasses
  <1>4. CASE StartStatement(p)
    <2>1. p \in passes /\ statements' = statements \cup {p} /\ passes' = passes
      BY <1>4 DEF StartStatement
    <2>2. phase \in Up
      BY <2>1, <1>1 DEF PassesFit
    <2>3. PassesFit'
      BY <2>1, <2>2, <1>0, <1>1 DEF PassesFit, Up, Starting, TierStopped
    <2> QED
      BY <1>0, <2>3, OnlyPasses
  <1>5. CASE EndStatement(p)
    <2>1. statements' \subseteq statements /\ passes' = passes
      BY <1>5 DEF EndStatement
    <2>2. PassesFit'
      BY <2>1, <1>0, <1>1 DEF PassesFit
    <2> QED
      BY <1>0, <2>2, OnlyPasses
  <1>6. CASE EndPass(p)
    <2>1. p \in passes \ statements /\ passes' = passes \ {p} /\ statements' = statements
      BY <1>6 DEF EndPass
    <2>2. PassesFit'
      BY <2>1, <1>0, <1>1 DEF PassesFit
    <2> QED
      BY <1>0, <2>2, OnlyPasses
  <1> QED
    BY <1>0, <1>3, <1>4, <1>5, <1>6 DEF PassStep

LEMMA ShutDownKeeps ==
    ASSUME LifeInv, BeginShutdown \/ StopTierer \/ CloseEngine \/ CloseStore
    PROVE  LifeInv' /\ UNCHANGED <<vars, cold>>
  <1> USE DEF LifeInv, PartsTyped, Starting, Up, TierStopped
  <1>0. UNCHANGED <<client, worker>> /\ UNCHANGED <<vars, cold>>
    BY DEF vars, parts, BeginShutdown, StopTierer, CloseEngine, CloseStore
  <1>1. CASE BeginShutdown
    BY <1>0, <1>1 DEF BeginShutdown, parts
  <1>2. CASE StopTierer
    BY <1>0, <1>2 DEF StopTierer, PassesAfterStop
  <1>3. CASE CloseEngine
    BY <1>0, <1>3 DEF CloseEngine
  <1>4. CASE CloseStore
    BY <1>0, <1>4 DEF CloseStore, WorkersAwaited
  <1> QED
    BY <1>0, <1>1, <1>2, <1>3, <1>4

LEMMA StopBatcherKeeps ==
    ASSUME LifeInv, StopBatcher
    PROVE  LifeInv' /\ UNCHANGED cold
  <1> USE DEF LifeInv, PartsTyped, Starting, Up, TierStopped
  <1>1. /\ phase = "stopBatcher" /\ phase' = "closeStore"
        /\ UNCHANGED <<pool, cold, engine, tierer, passes, statements, client>>
    BY DEF StopBatcher, Stop, parts
  <1>2. \A i \in Workers : worker[i].pc = "done" => worker'[i].pc = "done"
    BY DEF StopBatcher, Stop, AfterCancel
  <1> QED
    BY <1>1, <1>2

LEMMA ServiceStep ==
    ASSUME ServiceInv, [ServiceNext]_serviceVars
    PROVE  ServiceInv' /\ PathKept
  <1>0. BatcherInv /\ LifeInv
    BY DEF ServiceInv
  <1>1. CASE StartUp \/ ColdUnavailable
    BY <1>0, <1>1, StartUpKeeps, QueueStutters DEF ServiceInv
  <1>2. CASE \E c \in Clients, size \in 1..MaxRequest, sync \in BOOLEAN :
                SendRequest(c, size, sync)
    <2>1. PICK c \in Clients, size \in 1..MaxRequest, sync \in BOOLEAN :
              SendRequest(c, size, sync)
      BY <1>2
    <2>2. /\ Send(c, size, sync) /\ UNCHANGED <<phase, parts>> /\ worker' = worker
          /\ phase \notin Starting /\ cold' = cold
      BY <2>1 DEF SendRequest, Accepting, Send, Starting, parts
    <2> QED
      BY <1>0, <2>2, SendKeeps, LifeKept DEF ServiceInv, PathKept
  <1>3. CASE WriteStep
    <2>1. cold' = cold
      BY <1>3 DEF WriteStep, parts
    <2> QED
      BY <1>0, <1>3, <2>1, WriteStepKeeps, WriteStepKeepsLife DEF WriteStep, ServiceInv, PathKept
  <1>4. CASE \E p \in {"loop", "request"} : PassStep(p)
    BY <1>0, <1>4, PassKeeps, QueueStutters DEF ServiceInv, PathKept
  <1>5. CASE BeginShutdown \/ StopTierer \/ CloseEngine \/ CloseStore
    BY <1>0, <1>5, ShutDownKeeps, QueueStutters DEF ServiceInv, PathKept
  <1>6. CASE StopBatcher
    BY <1>0, <1>6, StopBatcherKeeps, StopKeeps DEF StopBatcher, ServiceInv, PathKept
  <1>7. CASE UNCHANGED serviceVars
    <2>1. UNCHANGED vars /\ UNCHANGED <<phase, parts>>
          /\ UNCHANGED <<client, worker, cold>>
      BY <1>7 DEF serviceVars, vars, parts
    <2> QED
      BY <1>0, <2>1, QueueStutters, LifeKept DEF ServiceInv, PathKept
  <1> QED
    BY <1>1, <1>2, <1>3, <1>4, <1>5, <1>6, <1>7 DEF ServiceNext, ShutDown, PassStep

-----------------------------------------------------------------------------
(* The theorems                                                            *)

(* The queue's invariant and lifespan's hold together from start-up to     *)
(* shutdown, wherever start-up fails and whenever shutdown begins          *)
(* (create_app's lifespan in ingest/app/api.py, Batcher).                  *)
THEOREM ServiceInvariant == ServiceSpec => []ServiceInv
  <1>1. ServiceInit => ServiceInv
    BY NoPointsYet, NothingOpenYet DEF ServiceInit, ServiceInv
  <1>2. ServiceInv /\ [ServiceNext]_serviceVars => ServiceInv'
    BY ServiceStep
  <1> QED
    BY <1>1, <1>2, PTL DEF ServiceSpec

(* Clients, queue, workers and counters keep their types and bounds: the   *)
(* queue never holds more than its capacity, a buffer never more than a    *)
(* batch (Batcher._worker).                                                *)
THEOREM ServiceTypeCorrect == ServiceSpec => []TypeOK
  <1>1. ServiceInv => TypeOK
    BY InvImpliesTypes DEF ServiceInv
  <1> QED
    BY <1>1, ServiceInvariant, PTL

(* No point a client has handed over is lost, duplicated or invented       *)
(* between the queue, the buffers and the batches that were written, that  *)
(* failed or that were cut off by shutdown.                                *)
THEOREM PointsAccounted == ServiceSpec => []Accounted
  <1>1. ServiceInv => Accounted
    BY DEF ServiceInv, BatcherInv
  <1> QED
    BY <1>1, ServiceInvariant, PTL

(* lifespan closes the pool after the last worker has ended, and the       *)
(* engine when no pass is left that could send it a statement, with no     *)
(* request waiting for one.  Only a statement of the loop's cancelled pass *)
(* may still run, in its thread (Tierer.stop, DuckEngine.execute).         *)
THEOREM NothingClosedInUse == ServiceSpec => []ClosedAfterUse
  <1>1. ServiceInv => ClosedAfterUse
    <2> SUFFICES ASSUME LifeInv, engine # "open"
                 PROVE  passes = {} /\ statements \subseteq {"loop"}
      BY DEF ServiceInv, LifeInv, ClosedAfterUse
    <2>1. passes = {} /\ phase \in Starting \cup Up \cup TierStopped
      BY DEF LifeInv, PartsTyped
    <2> QED
      BY <2>1 DEF LifeInv
  <1> QED
    BY <1>1, ServiceInvariant, PTL

(* A serving process has the cold store, the engine and the tierer, or     *)
(* none of them: lifespan's except clause leaves no half of them behind.   *)
THEOREM ServesAllOrNothing == ServiceSpec => []ColdAllOrNothing
  <1>1. ServiceInv => ColdAllOrNothing
    BY DEF ServiceInv, LifeInv, PartsTyped, Up, ColdAllOrNothing
  <1> QED
    BY <1>1, ServiceInvariant, PTL

(* store.cold is set or taken away only before the first request: every    *)
(* batch a process acknowledges takes the same path.                       *)
THEOREM PathNeverChanges == ServiceSpec => WritePathFixed
  <1>1. ServiceInv /\ [ServiceNext]_serviceVars =>
          [cold' # cold => \A c \in Clients : client[c].sent = 0 /\ client[c].left = 0]_serviceVars
    BY ServiceStep DEF PathKept
  <1> QED
    BY <1>1, ServiceInvariant, PTL DEF ServiceSpec, WritePathFixed

-----------------------------------------------------------------------------
(* The service uses the queue as the queue is meant to be used             *)

(* Lifespan, fallback, tiering passes and shutdown add nothing to what the *)
(* write queue may do: each step of the service is one of Batcher's, or    *)
(* leaves the queue alone, so what holds of the queue holds in the service *)
(* (lifespan in ingest/app/api.py around Batcher).                         *)
THEOREM ServiceKeepsQueue == ServiceSpec => Spec
  <1>1. ServiceInit => Init
    BY DEF ServiceInit
  <1>2. [ServiceNext]_serviceVars => [Next]_vars
    <2> SUFFICES ASSUME [ServiceNext]_serviceVars PROVE [Next]_vars
      OBVIOUS
    <2>1. CASE StartUp \/ ColdUnavailable
      BY <2>1 DEF StartUp, Connect, OpenCold, OpenEngine, StartTierer, ColdUnavailable, vars
    <2>2. CASE \E c \in Clients, size \in 1..MaxRequest, sync \in BOOLEAN :
                  SendRequest(c, size, sync)
      BY <2>2 DEF SendRequest, Next, ClientNext
    <2>3. CASE WriteStep
      BY <2>3 DEF WriteStep, Next, ClientNext
    <2>4. CASE \E p \in {"loop", "request"} : PassStep(p)
      BY <2>4 DEF PassStep, BeginPass, StartStatement, EndStatement, EndPass, vars
    <2>5. CASE BeginShutdown \/ StopTierer \/ CloseEngine \/ CloseStore
      BY <2>5 DEF BeginShutdown, StopTierer, CloseEngine, CloseStore, vars, parts
    <2>6. CASE StopBatcher
      BY <2>6 DEF StopBatcher, Next
    <2>7. CASE UNCHANGED serviceVars
      BY <2>7 DEF serviceVars, vars
    <2> QED
      BY <2>1, <2>2, <2>3, <2>4, <2>5, <2>6, <2>7 DEF ServiceNext, ShutDown, PassStep
  <1> QED
    BY <1>1, <1>2, PTL DEF ServiceSpec, Spec

-----------------------------------------------------------------------------
(* The order of a client's updates.  Where a point stands between the      *)
(* client and the table is its place in a line: numbered, in the worker's  *)
(* buffer, in the queue.  One worker takes points off the line in order;   *)
(* what is written beside the queue would overtake it.                     *)

OneInOrder == ~ SyncRequests /\ \A i, j \in Workers : i = j

Earlier(S, T) == \A p \in S, q \in T : p.client = q.client => p.n < q.n
Rising(s) ==
    \A j, k \in 1..Len(s) : j < k /\ s[j].client = s[k].client => s[j].n < s[k].n

(* What the worker holds and write_batch has not numbered yet.             *)
Unnumbered(i) == IF worker[i].pc = "write" THEN <<>> ELSE worker[i].buf

InLine(i) ==
    /\ Rising(Unnumbered(i))
    /\ Earlier(Elems(log), Elems(Unnumbered(i)))
    /\ Earlier(Elems(Unnumbered(i)), Elems(queue))

OrderInv ==
    /\ \A c \in Clients : client[c].left > 0 => ~ client[c].sync
    /\ Elems(log) \subseteq SentPoints
    /\ Rising(log) /\ Rising(queue) /\ Earlier(Elems(log), Elems(queue))
    /\ \A i \in Workers : InLine(i)

LEMMA PointTypes ==
    ASSUME NEW p \in Point PROVE p.client \in Clients /\ p.n \in Nat
  BY BatcherSizes DEF Point

LEMMA NoneIsRising == Rising(<<>>) /\ Elems(<<>>) = {}
  BY DEF Rising, Elems

LEMMA RisingAppend ==
    ASSUME NEW s \in Seq(Point), NEW e \in Point, Rising(s), Earlier(Elems(s), {e})
    PROVE  Rising(Append(s, e))
  <1>1. Len(s) \in Nat /\ Len(Append(s, e)) = Len(s) + 1
    OBVIOUS
  <1>2. \A j \in 1..Len(s) : Append(s, e)[j] = s[j] /\ s[j] \in Elems(s)
    BY DEF Elems
  <1>3. Append(s, e)[Len(s) + 1] = e
    OBVIOUS
  <1>4. \A k \in 1..Len(s) + 1 : k \in 1..Len(s) \/ k = Len(s) + 1
    BY <1>1
  <1>5. ASSUME NEW j \in 1..Len(s) + 1, NEW k \in 1..Len(s) + 1, j < k,
               Append(s, e)[j].client = Append(s, e)[k].client
        PROVE  Append(s, e)[j].n < Append(s, e)[k].n
    <2>1. j \in 1..Len(s)
      BY <1>1, <1>4, <1>5
    <2>2. CASE k = Len(s) + 1
      BY <1>2, <1>3, <1>5, <2>1, <2>2 DEF Earlier
    <2>3. CASE k \in 1..Len(s)
      BY <1>2, <1>5, <2>1, <2>3 DEF Rising
    <2> QED
      BY <1>4, <2>2, <2>3
  <1> QED
    BY <1>1, <1>5 DEF Rising

LEMMA RisingConcat ==
    ASSUME NEW s \in Seq(Point), NEW t \in Seq(Point),
           Rising(s), Rising(t), Earlier(Elems(s), Elems(t))
    PROVE  Rising(s \o t) /\ Elems(s \o t) = Elems(s) \cup Elems(t)
  <1> DEFINE u == s \o t
             m == Len(s)
             n == Len(t)
  <1>1. m \in Nat /\ n \in Nat /\ Len(u) = m + n
    OBVIOUS
  <1>2. \A j \in 1..m : u[j] = s[j]
    OBVIOUS
  <1>3. \A j \in 1..(m + n) : ~ (j <= m) => j - m \in 1..n /\ u[j] = t[j - m]
    OBVIOUS
  <1>4. \A j \in 1..n : m + j \in 1..(m + n) /\ u[m + j] = t[j]
    OBVIOUS
  <1>5. /\ Elems(s) = {s[j] : j \in 1..m} /\ Elems(t) = {t[j] : j \in 1..n}
        /\ Elems(u) = {u[j] : j \in 1..(m + n)}
    BY <1>1 DEF Elems
  <1>6. \A j \in 1..m : s[j] \in Elems(s)
    BY <1>5
  <1>7. \A j \in 1..n : t[j] \in Elems(t)
    BY <1>5
  <1>8. \A j, k \in 1..m : j < k /\ s[j].client = s[k].client => s[j].n < s[k].n
    BY DEF Rising
  <1>9. \A j, k \in 1..n : j < k /\ t[j].client = t[k].client => t[j].n < t[k].n
    BY DEF Rising
  <1> HIDE DEF u, m, n
  <1>10. ASSUME NEW j \in 1..(m + n), NEW k \in 1..(m + n), j < k, u[j].client = u[k].client
         PROVE  u[j].n < u[k].n
    <2>1. CASE k <= m
      <3>1. j \in 1..m /\ k \in 1..m
        BY <1>1, <1>10, <2>1
      <3> QED
        BY <1>2, <1>8, <1>10, <3>1
    <2>2. CASE ~ (j <= m)
      <3>1. ~ (k <= m) /\ j - m < k - m
        BY <1>1, <1>10, <2>2
      <3>2. /\ j - m \in 1..n /\ u[j] = t[j - m]
            /\ k - m \in 1..n /\ u[k] = t[k - m]
        BY <1>3, <2>2, <3>1
      <3> QED
        BY <1>9, <1>10, <3>1, <3>2
    <2>3. CASE j <= m /\ ~ (k <= m)
      <3>1. j \in 1..m /\ k - m \in 1..n /\ u[k] = t[k - m]
        BY <1>1, <1>3, <2>3
      <3>2. u[j] \in Elems(s) /\ u[k] \in Elems(t)
        BY <1>2, <1>6, <1>7, <3>1
      <3> QED
        BY <1>10, <3>2 DEF Earlier
    <2> QED
      BY <2>1, <2>2, <2>3
  <1>11. Rising(u)
    BY <1>1, <1>10 DEF Rising
  <1>12. Elems(u) \subseteq Elems(s) \cup Elems(t)
    <2>1. ASSUME NEW j \in 1..(m + n) PROVE u[j] \in Elems(s) \cup Elems(t)
      <3>1. CASE j <= m
        <4>1. j \in 1..m
          BY <1>1, <3>1
        <4> QED
          BY <1>2, <1>6, <4>1
      <3>2. CASE ~ (j <= m)
        BY <1>3, <1>7, <3>2
      <3> QED
        BY <3>1, <3>2
    <2> QED
      BY <1>5, <2>1
  <1>13. Elems(s) \cup Elems(t) \subseteq Elems(u)
    <2>1. ASSUME NEW j \in 1..m PROVE s[j] \in Elems(u)
      <3>1. j \in 1..(m + n) /\ u[j] = s[j]
        BY <1>1, <1>2
      <3> QED
        BY <1>5, <3>1
    <2>2. ASSUME NEW j \in 1..n PROVE t[j] \in Elems(u)
      <3>1. m + j \in 1..(m + n) /\ u[m + j] = t[j]
        BY <1>4
      <3> QED
        BY <1>5, <3>1
    <2> QED
      BY <1>5, <2>1, <2>2
  <1> QED
    BY <1>11, <1>12, <1>13 DEF u

LEMMA RisingTail ==
    ASSUME NEW s \in Seq(Point), s # <<>>, Rising(s)
    PROVE  /\ Rising(Tail(s)) /\ Earlier({Head(s)}, Elems(Tail(s)))
  <1>1. Len(s) \in Nat \ {0} /\ Head(s) = s[1] /\ Len(Tail(s)) = Len(s) - 1
    BY HeadTailProperties, EmptySeq
  <1>2. \A j \in 1..(Len(s) - 1) : Tail(s)[j] = s[j + 1] /\ j + 1 \in 1..Len(s) /\ 1 < j + 1
    BY HeadTailProperties, <1>1
  <1>3. Rising(Tail(s))
    <2>1. ASSUME NEW j \in 1..(Len(s) - 1), NEW k \in 1..(Len(s) - 1), j < k,
                 Tail(s)[j].client = Tail(s)[k].client
          PROVE  Tail(s)[j].n < Tail(s)[k].n
      <3>1. j + 1 < k + 1
        BY <2>1
      <3> QED
        BY <1>2, <2>1, <3>1 DEF Rising
    <2> QED
      BY <1>1, <2>1 DEF Rising
  <1>4. Earlier({Head(s)}, Elems(Tail(s)))
    <2>1. ASSUME NEW j \in 1..(Len(s) - 1), s[1].client = Tail(s)[j].client
          PROVE  s[1].n < Tail(s)[j].n
      <3>1. 1 \in 1..Len(s)
        BY <1>1
      <3> QED
        BY <1>2, <2>1, <3>1 DEF Rising
    <2>2. Elems(Tail(s)) = {Tail(s)[j] : j \in 1..(Len(s) - 1)}
      BY <1>1 DEF Elems
    <2> QED
      BY <1>1, <2>1, <2>2 DEF Earlier
  <1> QED
    BY <1>3, <1>4

LEMMA OrderStart == OneInOrder /\ Init => OrderInv
  <1> SUFFICES ASSUME OneInOrder, Init PROVE OrderInv
    OBVIOUS
  <1>1. Rising(log) /\ Rising(queue) /\ Elems(log) = {} /\ Elems(queue) = {}
    BY NoneIsRising DEF Init
  <1>2. \A i \in Workers : Rising(Unnumbered(i)) /\ Elems(Unnumbered(i)) = {}
    BY NoneIsRising DEF Init, Unnumbered
  <1>3. \A c \in Clients : client[c].left = 0
    BY DEF Init
  <1> QED
    BY <1>1, <1>2, <1>3 DEF OrderInv, InLine, Earlier

(* A step that numbers nothing and leaves the queue alone: a worker may    *)
(* give up what it holds.                                                  *)
LEMMA LineKept ==
    ASSUME OrderInv, UNCHANGED <<log, queue>>, SentPoints \subseteq SentPoints',
           \A c \in Clients : client'[c].left > 0 => ~ client'[c].sync,
           \A i \in Workers : Unnumbered(i)' \in {Unnumbered(i), <<>>}
    PROVE  OrderInv'
  <1>1. /\ Elems(log)' = Elems(log) /\ Elems(queue)' = Elems(queue)
        /\ Rising(log)' /\ Rising(queue)'
    BY DEF OrderInv, Elems, Rising
  <1>2. ASSUME NEW i \in Workers PROVE InLine(i)'
    <2>1. InLine(i)
      BY DEF OrderInv
    <2> DEFINE u == Unnumbered(i)'
    <2>2. Rising(u) /\ Earlier(Elems(log), Elems(u)) /\ Earlier(Elems(u), Elems(queue))
      <3>1. CASE u = Unnumbered(i)
        BY <2>1, <3>1 DEF InLine
      <3>2. CASE u = <<>>
        <4> HIDE DEF u
        <4> QED
          BY <3>2, NoneIsRising DEF Earlier
      <3> QED
        BY <3>1, <3>2
    <2>3. Rising(Unnumbered(i))' <=> Rising(u)
      BY DEF Rising
    <2>4. Elems(Unnumbered(i))' = Elems(u)
      BY DEF Elems
    <2> HIDE DEF u
    <2> QED
      BY <1>1, <2>2, <2>3, <2>4 DEF InLine, Earlier
  <1> QED
    BY <1>1, <1>2 DEF OrderInv, Earlier

LEMMA SentKept ==
    ASSUME \A c \in Clients : client'[c].sent = client[c].sent
    PROVE  SentPoints \subseteq SentPoints'
  <1>1. ASSUME NEW p \in SentPoints PROVE p \in SentPoints'
    <2>1. p \in Point /\ p.client \in Clients
      BY PointTypes DEF SentPoints
    <2> QED
      BY <2>1 DEF SentPoints
  <1> QED
    BY <1>1

LEMMA SendInOrder ==
    ASSUME OneInOrder, BatcherInv, OrderInv,
           NEW c \in Clients, NEW size \in 1..MaxRequest, NEW sync \in BOOLEAN,
           Send(c, size, sync)
    PROVE  OrderInv'
  <1>1. ClientsFit /\ UNCHANGED <<log, queue, worker>> /\ ~ sync
    BY DEF BatcherInv, Send, OneInOrder
  <1>2. /\ client' = [client EXCEPT ![c].left = size, ![c].sync = sync]
        /\ client \in [Clients -> [sent : 0..MaxPoints, left : 0..MaxRequest, sync : BOOLEAN]]
    BY <1>1 DEF Send, ClientsFit
  <1>3. /\ \A d \in Clients : client'[d].sent = client[d].sent
        /\ client'[c].sync = sync
        /\ \A d \in Clients \ {c} : client'[d] = client[d]
    BY <1>2
  <1>4. SentPoints \subseteq SentPoints'
    BY <1>3, SentKept
  <1>5. \A d \in Clients : client'[d].left > 0 => ~ client'[d].sync
    BY <1>1, <1>3 DEF OrderInv
  <1>6. \A i \in Workers : Unnumbered(i)' = Unnumbered(i)
    BY <1>1 DEF Unnumbered
  <1> QED
    BY <1>1, <1>4, <1>5, <1>6, LineKept

(* A point that is put is the client's latest.                             *)
LEMMA PutInOrder ==
    ASSUME BatcherInv, OrderInv, NEW c \in Clients, Put(c)
    PROVE  OrderInv'
  <1> DEFINE e == [client |-> c, n |-> client[c].sent + 1]
  <1>1. /\ ClientsFit /\ queue \in Seq(Point) /\ log \in Seq(Point) /\ Accounted
        /\ UNCHANGED <<log, worker>> /\ queue' = Append(queue, e)
    BY DEF BatcherInv, QueueFits, Put
  <1>2. /\ client' = [client EXCEPT ![c].left = @ - 1, ![c].sent = @ + 1]
        /\ client \in [Clients -> [sent : 0..MaxPoints, left : 0..MaxRequest, sync : BOOLEAN]]
        /\ ~ client[c].sync /\ client[c].left > 0
    BY <1>1 DEF Put, ClientsFit
  <1>3. /\ client'[c].sent = client[c].sent + 1 /\ client'[c].sync = client[c].sync
        /\ \A d \in Clients \ {c} : client'[d] = client[d]
        /\ client[c].sent \in Nat /\ client[c].sent + 1 <= MaxPoints
    BY <1>1, <1>2, ClientType
  <1>4. e \in Point
    BY <1>3, BatcherSizes DEF Point
  <1>5. SentPoints \subseteq SentPoints'
    <2>1. ASSUME NEW p \in SentPoints PROVE p \in SentPoints'
      <3>1. p \in Point /\ p.client \in Clients /\ p.n \in Nat /\ p.n <= client[p.client].sent
        BY PointTypes DEF SentPoints
      <3>2. p.n <= client'[p.client].sent
        BY <1>3, <3>1
      <3> QED
        BY <3>1, <3>2 DEF SentPoints
    <2> QED
      BY <2>1
  <1>6. ASSUME NEW p \in SentPoints, p.client = e.client PROVE p.n < e.n
    <2>1. p.n \in Nat /\ p.n <= client[p.client].sent
      BY PointTypes DEF SentPoints
    <2> QED
      BY <1>3, <1>6, <2>1
  <1>7. Elems(queue) \subseteq SentPoints /\ Elems(log) \subseteq SentPoints
    BY <1>1 DEF Accounted, InQueue, OrderInv
  <1> HIDE DEF e
  <1>8. Rising(queue') /\ Elems(queue') = Elems(queue) \cup {e}
    <2>1. Earlier(Elems(queue), {e})
      BY <1>6, <1>7 DEF Earlier
    <2> QED
      BY <1>1, <1>4, <2>1, RisingAppend, ElemsAppend DEF OrderInv
  <1>9. Earlier(Elems(log), Elems(queue'))
    BY <1>6, <1>7, <1>8 DEF OrderInv, Earlier
  <1>10. ASSUME NEW i \in Workers
         PROVE  /\ Rising(Unnumbered(i)) /\ Earlier(Elems(log), Elems(Unnumbered(i)))
                /\ Earlier(Elems(Unnumbered(i)), Elems(queue'))
    <2>1. Elems(Unnumbered(i)) \subseteq SentPoints
      <3>1. Elems(worker[i].buf) \subseteq SentPoints
        BY <1>1 DEF Accounted, Buffered
      <3> QED
        BY <3>1, NoneIsRising DEF Unnumbered
    <2>2. InLine(i)
      BY DEF OrderInv
    <2> QED
      BY <1>6, <1>8, <2>1, <2>2 DEF InLine, Earlier
  <1>11. \A d \in Clients : client'[d].left > 0 => ~ client'[d].sync
    BY <1>2, <1>3 DEF OrderInv
  <1>12. /\ Elems(queue)' = Elems(queue') /\ (Rising(queue)' <=> Rising(queue'))
         /\ Elems(log)' = Elems(log) /\ (Rising(log)' <=> Rising(log))
         /\ \A i \in Workers : /\ Elems(Unnumbered(i))' = Elems(Unnumbered(i))
                               /\ Rising(Unnumbered(i))' <=> Rising(Unnumbered(i))
    BY <1>1 DEF Elems, Rising, Unnumbered
  <1>13. \A i \in Workers : InLine(i)'
    BY <1>10, <1>12 DEF InLine, Earlier
  <1>14. Elems(log) \subseteq SentPoints' /\ Rising(log)
    BY <1>5, <1>7 DEF OrderInv
  <1> QED
    BY <1>8, <1>9, <1>11, <1>12, <1>13, <1>14 DEF OrderInv, Earlier

(* The only worker takes the point that has waited longest.                *)
LEMMA GetInOrder ==
    ASSUME OneInOrder, BatcherInv, OrderInv, NEW i \in Workers, Get(i)
    PROVE  OrderInv'
  <1> DEFINE h == Head(queue)
             b == worker[i].buf
  <1>1. /\ WorkersFit /\ queue \in Seq(Point) /\ Distinct(queue) /\ queue # <<>>
        /\ worker[i].pc = "get" /\ queue' = Tail(queue) /\ UNCHANGED <<client, log>>
    BY DEF BatcherInv, QueueFits, Distinct, Get
  <1>2. b \in Seq(Point)
    BY <1>1, WorkerType
  <1>3. \E next \in {"get", "flush"} : worker' = [worker EXCEPT ![i] =
                [pc |-> next, buf |-> Append(b, h)]]
    BY DEF Get, AfterGet
  <1>4. worker'[i].pc # "write" /\ worker'[i].buf = Append(b, h)
    BY <1>1, <1>3 DEF WorkersFit
  <1>5. Unnumbered(i) = b /\ Unnumbered(i)' = Append(b, h)
    BY <1>1, <1>4 DEF Unnumbered
  <1>6. InLine(i) /\ Rising(queue) /\ Earlier(Elems(log), Elems(queue)) /\ Rising(log)
    BY DEF OrderInv
  <1>7. /\ h \in Point /\ h \in Elems(queue)
        /\ Elems(Tail(queue)) \subseteq Elems(queue)
    BY <1>1, ElemsTail
  <1>8. Rising(Tail(queue)) /\ Earlier({h}, Elems(Tail(queue)))
    BY <1>1, <1>6, RisingTail
  <1> HIDE DEF h, b
  <1>9. Rising(b) /\ Earlier(Elems(log), Elems(b)) /\ Earlier(Elems(b), Elems(queue))
    BY <1>5, <1>6 DEF InLine
  <1>10. /\ Rising(Append(b, h)) /\ Elems(Append(b, h)) = Elems(b) \cup {h}
    <2>1. Earlier(Elems(b), {h})
      BY <1>7, <1>9 DEF Earlier
    <2> QED
      BY <1>2, <1>7, <1>9, <2>1, RisingAppend, ElemsAppend
  <1>11. /\ Elems(queue)' = Elems(Tail(queue)) /\ Rising(queue)'
         /\ Elems(log)' = Elems(log) /\ Rising(log)'
         /\ Elems(Unnumbered(i))' = Elems(Append(b, h)) /\ Rising(Unnumbered(i))'
    BY <1>1, <1>5, <1>6, <1>8, <1>10 DEF Elems, Rising
  <1>12. InLine(i)'
    BY <1>6, <1>7, <1>8, <1>9, <1>10, <1>11 DEF InLine, Earlier
  <1>13. \A j \in Workers : InLine(j)'
    BY <1>12 DEF OneInOrder
  <1>14. Elems(log) \subseteq SentPoints' /\ Earlier(Elems(log), Elems(Tail(queue)))
    <2>1. SentPoints' = SentPoints
      BY <1>1 DEF SentPoints
    <2> QED
      BY <1>6, <1>7, <2>1 DEF OrderInv, Earlier
  <1>15. \A d \in Clients : client'[d].left > 0 => ~ client'[d].sync
    BY <1>1 DEF OrderInv
  <1> QED
    BY <1>11, <1>13, <1>14, <1>15 DEF OrderInv, Earlier

(* The rows of the batch are numbered before any that still waits.         *)
LEMMA TakeSeqsInOrder ==
    ASSUME OneInOrder, BatcherInv, OrderInv, NEW i \in Workers, TakeSeqs(i)
    PROVE  OrderInv'
  <1> DEFINE b == worker[i].buf
  <1>1. /\ WorkersFit /\ log \in Seq(Point) /\ Accounted
        /\ worker[i].pc = "flush" /\ log' = log \o b /\ UNCHANGED <<client, queue>>
        /\ worker' = [worker EXCEPT ![i].pc = "write"]
    BY DEF BatcherInv, TakeSeqs
  <1>2. b \in Seq(Point) /\ Elems(b) \subseteq SentPoints
    BY <1>1, WorkerType DEF Accounted, Buffered
  <1>3. Unnumbered(i) = b /\ Unnumbered(i)' = <<>>
    BY <1>1 DEF Unnumbered, WorkersFit
  <1>4. InLine(i) /\ Rising(queue) /\ Earlier(Elems(log), Elems(queue)) /\ Rising(log)
        /\ Elems(log) \subseteq SentPoints
    BY DEF OrderInv
  <1> HIDE DEF b
  <1>5. Rising(b) /\ Earlier(Elems(log), Elems(b)) /\ Earlier(Elems(b), Elems(queue))
    BY <1>3, <1>4 DEF InLine
  <1>6. Rising(log \o b) /\ Elems(log \o b) = Elems(log) \cup Elems(b)
    BY <1>1, <1>2, <1>4, <1>5, RisingConcat
  <1>7. /\ Elems(queue)' = Elems(queue) /\ Rising(queue)'
        /\ Elems(log)' = Elems(log \o b) /\ Rising(log)'
        /\ Elems(Unnumbered(i))' = {} /\ Rising(Unnumbered(i))'
    BY <1>1, <1>3, <1>4, <1>6, NoneIsRising DEF Elems, Rising
  <1>8. \A j \in Workers : InLine(j)'
    <2>1. InLine(i)'
      BY <1>7 DEF InLine, Earlier
    <2> QED
      BY <2>1 DEF OneInOrder
  <1>9. SentPoints' = SentPoints
    BY <1>1 DEF SentPoints
  <1>10. \A d \in Clients : client'[d].left > 0 => ~ client'[d].sync
    BY <1>1 DEF OrderInv
  <1> QED
    BY <1>2, <1>4, <1>5, <1>6, <1>7, <1>8, <1>9, <1>10 DEF OrderInv, Earlier

LEMMA WorkerInOrder ==
    ASSUME OneInOrder, BatcherInv, OrderInv, NEW i \in Workers,
           Due(i) \/ Written(i) \/ WriteFails(i)
    PROVE  OrderInv'
  <1>1. WorkersFit /\ UNCHANGED <<client, log, queue>>
    BY DEF BatcherInv, Due, Written, WriteFails
  <1>2. Unnumbered(i)' \in {Unnumbered(i), <<>>}
    <2>1. CASE Due(i)
      BY <1>1, <2>1 DEF Due, Unnumbered, WorkersFit
    <2>2. CASE Written(i) \/ WriteFails(i)
      <3>1. worker' = [worker EXCEPT ![i] = AfterFlush(i)]
        BY <2>2 DEF Written, WriteFails
      <3>2. worker'[i] = AfterFlush(i)
        BY <1>1, <3>1 DEF WorkersFit
      <3> QED
        BY <3>2 DEF AfterFlush, Unnumbered
    <2> QED
      BY <2>1, <2>2
  <1>3. \A j \in Workers : Unnumbered(j)' \in {Unnumbered(j), <<>>}
    BY <1>2 DEF OneInOrder
  <1>4. SentPoints' = SentPoints /\ \A c \in Clients : client'[c].left > 0 => ~ client'[c].sync
    BY <1>1 DEF SentPoints, OrderInv
  <1> QED
    BY <1>1, <1>3, <1>4, LineKept

LEMMA StopInOrder ==
    ASSUME BatcherInv, OrderInv, Stop
    PROVE  OrderInv'
  <1>1. WorkersFit /\ UNCHANGED <<client, log, queue>>
    BY DEF BatcherInv, Stop
  <1>2. ASSUME NEW i \in Workers PROVE Unnumbered(i)' \in {Unnumbered(i), <<>>}
    <2>1. worker'[i] = AfterCancel(i) /\ worker[i].buf = worker[i].buf
      BY DEF Stop
    <2>2. worker[i] \in [pc : {"get", "flush", "write", "done"}, buf : Seq(Point)]
      BY <1>1, WorkerType
    <2> QED
      BY <2>1, <2>2 DEF AfterCancel, Unnumbered
  <1>3. SentPoints' = SentPoints /\ \A c \in Clients : client'[c].left > 0 => ~ client'[c].sync
    BY <1>1 DEF SentPoints, OrderInv
  <1> QED
    BY <1>1, <1>2, <1>3, LineKept

(* With one worker and no synchronous writes the updates of each client    *)
(* are numbered in the order it sent them, also when batches fail, through *)
(* full queues and shutdown: what several workers break (Batcher._worker,  *)
(* Store.write_batch) is the order between workers and nothing else.       *)
THEOREM OneWorkerKeepsOrder == ASSUME OneInOrder PROVE ServiceSpec => []OrderKept
  <1>1. BatcherInv /\ OrderInv /\ [Next]_vars => OrderInv'
    <2> SUFFICES ASSUME BatcherInv, OrderInv, [Next]_vars PROVE OrderInv'
      OBVIOUS
    <2>1. ASSUME NEW c \in Clients, ClientNext(c) PROVE OrderInv'
      <3>1. ~ SyncWrite(c) /\ ~ SyncFails(c)
        BY DEF OrderInv, SyncWrite, SyncFails
      <3> QED
        BY <2>1, <3>1, SendInOrder, PutInOrder DEF ClientNext
    <2>2. ASSUME NEW i \in Workers, WorkerStep(i) \/ WriteFails(i) PROVE OrderInv'
      BY <2>2, GetInOrder, TakeSeqsInOrder, WorkerInOrder DEF WorkerStep
    <2>3. CASE Stop
      BY <2>3, StopInOrder
    <2>4. CASE UNCHANGED vars
      <3>1. UNCHANGED <<client, log, queue, worker>>
        BY <2>4 DEF vars
      <3>2. /\ SentPoints' = SentPoints /\ \A i \in Workers : Unnumbered(i)' = Unnumbered(i)
            /\ \A c \in Clients : client'[c].left > 0 => ~ client'[c].sync
        BY <3>1 DEF SentPoints, Unnumbered, OrderInv
      <3> QED
        BY <3>1, <3>2, LineKept
    <2> QED
      BY <2>1, <2>2, <2>3, <2>4 DEF Next
  <1>2. OrderInv => OrderKept
    BY DEF OrderInv, Rising, OrderKept
  <1>3. Init => OrderInv
    BY OrderStart
  <1> QED
    BY <1>1, <1>2, <1>3, QueueInvariant, ServiceKeepsQueue, PTL DEF Spec
====
