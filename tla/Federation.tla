---- MODULE Federation ----
(***************************************************************************)
(* Federated queries (tier=all, tier=cold) over the tiered store.  A       *)
(* request reads the manifest, replaces the view of the measurement in the *)
(* one DuckDB database all requests share, and then runs its SQL against   *)
(* whatever view is there (_run_query).  Writers and tiering passes go on  *)
(* as in module TieredStore.                                               *)
(***************************************************************************)
EXTENDS TieredStoreInv

CONSTANTS
    Queries,        \* concurrent requests
    Tiers,          \* the tiers they ask for: a subset of {"all", "cold"}
    Windows         \* the ranges they ask for; none given is all of time

Window == [from : 0..MaxTime, to : 0..MaxTime]

ASSUME QueriesAssumption == Tiers \subseteq {"all", "cold"} /\ Windows \subseteq Window

VARIABLES
    view,       \* refs of the view in the DuckDB database (NoRefs: none yet)
    query       \* query[q]: a request in progress, or its result

fedVars == <<vars, view, query>>

-----------------------------------------------------------------------------
(* Refs of a view: does it union the hypertable, and which objects?        *)
Refs == [hot : BOOLEAN, objs : SUBSET Object]
NoRefs == [hot |-> FALSE, objs |-> {}]

NoRows == [k \in Key |-> 0]
IdleQuery == [pc |-> "idle", tier |-> "all", window |-> [from |-> 0, to |-> MaxTime],
              refs |-> NoRefs, due |-> NoRows, answer |-> NoRows]

FederationTypeOK ==
    /\ view \in Refs
    /\ query \in [Queries -> [pc : {"idle", "register", "cold", "hot", "done", "failed"},
                              tier : {"all", "cold"}, window : Window, refs : Refs,
                              due : [Key -> 0..MaxSeq], answer : [Key -> 0..MaxSeq]]]

FedInit == Init /\ view = NoRefs /\ query = [q \in Queries |-> IdleQuery]

-----------------------------------------------------------------------------
(* _run_query, step by step                                                *)

(* Mutant of Overlapping: the end of the window is taken as exclusive.     *)
OverlappingOpen(w) == {m \in manifest : ~ (m.hi < w.from) /\ ~ (m.lo >= w.to)}

(* select_overlapping.                                                     *)
Overlapping(w) == {m \in manifest : ~ (m.hi < w.from) /\ ~ (m.lo > w.to)}

Picked(metas) == ObjectsOf(metas)

(* What the tiers asked for show when the request comes in (ghost).        *)
Visible(k, tier) == IF tier = "all" THEN Federated(k) ELSE Newest(k)
Due(tier, w) ==
    [k \in Key |-> IF w.from <= k.time /\ k.time <= w.to THEN Visible(k, tier) ELSE 0]

(* Tierer.view_specs.  A measurement without manifest rows gets no view    *)
(* for tier=cold, and the one that is there stays.                         *)
SelectObjects(q, tier, w) ==
    /\ query[q].pc \in {"idle", "done", "failed"}
    /\ query' = [query EXCEPT ![q] =
            [pc |-> IF tier = "cold" /\ manifest = {} THEN "cold" ELSE "register",
             tier |-> tier, window |-> w,
             refs |-> [hot |-> tier = "all", objs |-> Picked(Overlapping(w))],
             due |-> Due(tier, w), answer |-> NoRows]]
    /\ UNCHANGED <<vars, view>>

(* Can DuckDB bind these refs?  It rejects a SELECT without columns, which *)
(* is what no refs come to, and read_parquet of a missing object.          *)
Binds(refs) == refs # NoRefs /\ refs.objs \subseteq DOMAIN files

(* DuckEngine.register_views: CREATE OR REPLACE VIEW, under the lock.      *)
RegisterViews(q) ==
    /\ query[q].pc = "register"
    /\ Binds(query[q].refs)
    /\ view' = query[q].refs
    /\ query' = [query EXCEPT ![q].pc = "cold"]
    /\ UNCHANGED vars

(* The statement raises: answered 400, and the view that was there stays.  *)
RegisterFails(q) ==
    /\ query[q].pc = "register"
    /\ ~ Binds(query[q].refs)
    /\ query' = [query EXCEPT ![q].pc = "failed"]
    /\ UNCHANGED <<vars, view>>

SeqsIn(k, objs) == {r.seq : r \in {x \in RowsOf(objs) : x.key = k}}
TopSeq(S) == CHOOSE n \in S : IsHighest(n, S)

(* DuckEngine.query_rows, without the lock.  The SQL is bound to the view  *)
(* that is there now; the Parquet objects and the hypertable are not read  *)
(* at one moment.                                                          *)
ReadCold(q) ==
    /\ query[q].pc = "cold"
    /\ Binds(view)
    /\ query' = [query EXCEPT
            ![q].pc = "hot", ![q].refs = view,
            ![q].answer = [k \in Key |-> TopSeq({0} \cup SeqsIn(k, view.objs))]]
    /\ UNCHANGED <<vars, view>>

(* No view yet, or an object of it is gone: the request is answered 400.   *)
ReadFails(q) ==
    /\ query[q].pc = "cold"
    /\ ~ Binds(view)
    /\ query' = [query EXCEPT ![q].pc = "failed"]
    /\ UNCHANGED <<vars, view>>

ReadHot(q) ==
    /\ query[q].pc = "hot"
    /\ query' = [query EXCEPT
            ![q].pc = "done",
            ![q].answer = [k \in Key |->
                IF query[q].refs.hot THEN TopSeq({query[q].answer[k], hot[k]})
                ELSE query[q].answer[k]]]
    /\ UNCHANGED <<vars, view>>

QueryNext(q) ==
    \/ \E tier \in Tiers, w \in Windows : SelectObjects(q, tier, w)
    \/ RegisterViews(q)
    \/ RegisterFails(q)
    \/ ReadCold(q)
    \/ ReadFails(q)
    \/ ReadHot(q)

FedNext ==
    \/ Next /\ UNCHANGED <<view, query>>
    \/ \E q \in Queries : QueryNext(q)

FedSpec == FedInit /\ [][FedNext]_fedVars

-----------------------------------------------------------------------------
(* Properties                                                              *)

(* "Transparent, deduped across tiers", with range pruning: an answer has, *)
(* for every row in the window asked for, the version that was visible     *)
(* when the request came in or a newer one, whatever was written, merged,  *)
(* overwritten or evicted between its steps.                               *)
AnswerComplete ==
    \A q \in Queries : query[q].pc = "done" =>
        \A k \in Key : query[q].due[k] <= query[q].answer[k]

(* A request that asks for rows that exist is answered, not failed because *)
(* of what compaction does meanwhile.                                      *)
QueriesSucceed ==
    \A q \in Queries : query[q].pc = "failed" => query[q].due = NoRows

-----------------------------------------------------------------------------
(* The inductive invariant behind complete answers, in the safe regime of  *)
(* the store and with one query at a time: what a query still has to find  *)
(* is in an object of its view whose rows never change, until it is        *)
(* deleted, and then the query fails.                                      *)

OneQueryAtATime == \A p, q \in Queries : p = q

(* A listed merged object is not written again: the staging object its     *)
(* name comes from is gone, or the pass that wrote it is deleting it.      *)
MergedOnce ==
    \A o \in Listed : o.kind = "cold" /\ o.seq # 0 /\ StagingKey(o.seq) \in Listed
        => \E p \in Merging : o = pass[p].out

(* No later step writes o, as long as that holds: a staging object whose   *)
(* batch is past its put, a merged object that is listed.                  *)
Fixed(o) ==
    \/ /\ o.kind = "staging" /\ o.seq <= nextSeq
       /\ \A w \in Writers : writer[w].pc = "put" => writer[w].seq # o.seq
    \/ o.kind = "cold" /\ o.seq # 0 /\ o \in Listed

IsExport(o) == o.kind = "cold" /\ o.seq = 0
InRange(r, m) == m.lo <= r.key.time /\ r.key.time <= m.hi

(* The manifest tells the truth about the times of rows, except in exports *)
(* that replace each other, and so will the row a pass is about to write.  *)
RangeSound ==
    /\ \A m \in manifest : m.obj \in DOMAIN files /\ ~ IsExport(m.obj) =>
            \A r \in files[m.obj] : InRange(r, m)
    /\ \A p \in Passes : pass[p].pc = "record" =>
            \A r \in files[pass[p].out] : \E m \in pass[p].objs : InRange(r, m)

Holds(o, k, s) == o \in DOMAIN files => \E r \in files[o] : r.key = k /\ s <= r.seq
Answerable(k, s, objs) == \E o \in objs : Fixed(o) /\ Holds(o, k, s)

QueryInv ==
    \A q \in Queries :
        /\ query[q].pc = "register" =>
            \A k \in Key : query[q].due[k] # 0
                => Answerable(k, query[q].due[k], query[q].refs.objs)
        /\ query[q].pc = "cold" =>
            \A k \in Key : query[q].due[k] # 0
                => Answerable(k, query[q].due[k], view.objs)
        /\ query[q].pc \in {"hot", "done"} =>
            \A k \in Key : query[q].due[k] <= query[q].answer[k]

FedInv ==
    /\ FederationTypeOK
    /\ MergedOnce
    /\ RangeSound
    /\ QueryInv
====
