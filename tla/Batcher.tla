---- MODULE Batcher ----
(***************************************************************************)
(* The write queue: requests put their points one by one into a bounded    *)
(* queue and are answered when the last one is in; flush workers collect   *)
(* batches and hand them to Store.write_batch; shutdown cancels the        *)
(* workers.  A point is the n-th a client sends; which row it updates does *)
(* not matter here, all of them may update the same one.                   *)
(***************************************************************************)
EXTENDS Naturals, Sequences, FiniteSets

CONSTANTS
    Clients,        \* one connection each: a client waits for its answer
    Workers,        \* ingest_workers
    BatchSize,      \* ingest_batch_size
    Capacity,       \* queue size, 8 * ingest_batch_size in the code
    MaxRequest,     \* bound: points of a request
    MaxPoints,      \* bound: points a client sends
    SyncRequests,   \* do clients send ?sync=true?
    Faults,         \* may write_batch raise?
    MayStop         \* may the service be shut down?

ASSUME BatcherSizes ==
    /\ BatchSize \in Nat \ {0} /\ Capacity \in Nat \ {0}
    /\ MaxRequest \in Nat \ {0} /\ MaxPoints \in Nat
ASSUME BatcherSwitches ==
    SyncRequests \in BOOLEAN /\ Faults \in BOOLEAN /\ MayStop \in BOOLEAN

VARIABLES
    client,     \* client[c]: points sent, points of the request not yet put
    queue,      \* the asyncio.Queue
    worker,     \* worker[i]: a _worker task and its local buf
    stopping,   \* the _stopping event
    log,        \* points in the order they took their sequence numbers
    stored,     \* points write_batch has committed
    failed,     \* points of a batch whose write raised
    dropped     \* points of a batch whose task was cancelled (ghost)

vars == <<client, queue, worker, stopping, log, stored, failed, dropped>>

Point == [client : Clients, n : 1..MaxPoints]
Elems(s) == {s[j] : j \in 1..Len(s)}
PointsOf(c, lo, hi) == [j \in 1..(hi - lo + 1) |-> [client |-> c, n |-> lo + j - 1]]

TypeOK ==
    /\ client \in [Clients -> [sent : 0..MaxPoints, left : 0..MaxRequest, sync : BOOLEAN]]
    /\ Elems(queue) \subseteq Point /\ Len(queue) <= Capacity
    /\ \A i \in Workers :
        /\ worker[i].pc \in {"get", "flush", "write", "done"}
        /\ Elems(worker[i].buf) \subseteq Point /\ Len(worker[i].buf) <= BatchSize
        /\ worker[i].pc \in {"flush", "write"} => worker[i].buf # <<>>
    /\ stopping \in BOOLEAN
    /\ Elems(log) \subseteq Point
    /\ stored \cup failed \cup dropped \subseteq Point

Init ==
    /\ client = [c \in Clients |-> [sent |-> 0, left |-> 0, sync |-> FALSE]]
    /\ queue = <<>>
    /\ worker = [i \in Workers |-> [pc |-> "get", buf |-> <<>>]]
    /\ stopping = FALSE
    /\ log = <<>>
    /\ stored = {} /\ failed = {} /\ dropped = {}

-----------------------------------------------------------------------------
(* Requests                                                                *)

(* A client sends its next request once the last one is answered; the      *)
(* server takes none once it shuts down.                                   *)
Send(c, size, sync) ==
    /\ ~stopping
    /\ client[c].left = 0
    /\ client[c].sent + size <= MaxPoints
    /\ sync => SyncRequests
    /\ client' = [client EXCEPT ![c].left = size, ![c].sync = sync]
    /\ UNCHANGED <<queue, worker, stopping, log, stored, failed, dropped>>

(* await queue.put(p): blocks while the queue is full.  The last put       *)
(* answers the request.                                                    *)
Put(c) ==
    /\ client[c].left > 0 /\ ~client[c].sync
    /\ Len(queue) < Capacity
    /\ queue' = Append(queue, [client |-> c, n |-> client[c].sent + 1])
    /\ client' = [client EXCEPT ![c].left = @ - 1, ![c].sent = @ + 1]
    /\ UNCHANGED <<worker, stopping, log, stored, failed, dropped>>

(* submit_sync: the points pass the queue by.                              *)
SyncWrite(c) ==
    LET batch == PointsOf(c, client[c].sent + 1, client[c].sent + client[c].left)
    IN  /\ client[c].left > 0 /\ client[c].sync
        /\ log' = log \o batch
        /\ stored' = stored \cup Elems(batch)
        /\ client' = [client EXCEPT ![c].left = 0, ![c].sent = @ + client[c].left]
        /\ UNCHANGED <<queue, worker, stopping, failed, dropped>>

(* write_batch raises: the client gets an error, parts of the batch may    *)
(* have been committed.                                                    *)
SyncFails(c) ==
    LET batch == PointsOf(c, client[c].sent + 1, client[c].sent + client[c].left)
    IN  /\ Faults
        /\ client[c].left > 0 /\ client[c].sync
        /\ log' = log \o batch
        /\ \E part \in SUBSET Elems(batch) :
            part # Elems(batch) /\ stored' = stored \cup part
        /\ failed' = failed \cup Elems(batch)
        /\ client' = [client EXCEPT ![c].left = 0, ![c].sent = @ + client[c].left]
        /\ UNCHANGED <<queue, worker, stopping, dropped>>

-----------------------------------------------------------------------------
(* Workers                                                                 *)

(* Mutant of AfterGet: the size is compared with > instead of >=.          *)
AfterGetLate(size) == IF size > BatchSize THEN {"flush"} ELSE {"get", "flush"}

(* A full buffer is flushed, and so is one whose oldest point is due.      *)
AfterGet(size) == IF size >= BatchSize THEN {"flush"} ELSE {"get", "flush"}

Get(i) ==
    /\ worker[i].pc = "get"
    /\ queue # <<>>
    /\ \E next \in AfterGet(Len(worker[i].buf) + 1) :
        worker' = [worker EXCEPT ![i] = [pc |-> next, buf |-> Append(@.buf, Head(queue))]]
    /\ queue' = Tail(queue)
    /\ UNCHANGED <<client, stopping, log, stored, failed, dropped>>

(* Mutant of Due: the deadline flushes full buffers only.                  *)
DueWhenFull(i) ==
    /\ worker[i].pc = "get"
    /\ Len(worker[i].buf) = BatchSize
    /\ worker' = [worker EXCEPT ![i].pc = "flush"]
    /\ UNCHANGED <<client, queue, stopping, log, stored, failed, dropped>>

(* wait_for times out: flush_at has come.  Only a nonempty buffer has one. *)
Due(i) ==
    /\ worker[i].pc = "get"
    /\ worker[i].buf # <<>>
    /\ worker' = [worker EXCEPT ![i].pc = "flush"]
    /\ UNCHANGED <<client, queue, stopping, log, stored, failed, dropped>>

(* write_batch numbers the rows as it builds them.                         *)
TakeSeqs(i) ==
    /\ worker[i].pc = "flush"
    /\ log' = log \o worker[i].buf
    /\ worker' = [worker EXCEPT ![i].pc = "write"]
    /\ UNCHANGED <<client, queue, stopping, stored, failed, dropped>>

(* Mutants of AfterFlush: the buffer is not emptied; the task ends; the    *)
(* stop event is not looked at.                                            *)
KeepBuffer(i) == [pc |-> IF stopping THEN "done" ELSE "get", buf |-> worker[i].buf]
WorkerEnds(i) == [pc |-> "done", buf |-> <<>>]
WorkerStays(i) == [pc |-> "get", buf |-> <<>>]

AfterFlush(i) == [pc |-> IF stopping THEN "done" ELSE "get", buf |-> <<>>]

Written(i) ==
    /\ worker[i].pc = "write"
    /\ stored' = stored \cup Elems(worker[i].buf)
    /\ worker' = [worker EXCEPT ![i] = AfterFlush(i)]
    /\ UNCHANGED <<client, queue, stopping, log, failed, dropped>>

(* A batch is written measurement by measurement: those before the one     *)
(* that raises stay, and the whole batch is counted as failed.  Before the *)
(* rows are numbered the schema statements may raise.                      *)
WriteFails(i) ==
    /\ Faults
    /\ worker[i].pc \in {"flush", "write"}
    /\ \E part \in SUBSET Elems(worker[i].buf) :
        /\ part # Elems(worker[i].buf)
        /\ worker[i].pc = "flush" => part = {}
        /\ stored' = stored \cup part
    /\ failed' = failed \cup Elems(worker[i].buf)
    /\ worker' = [worker EXCEPT ![i] = AfterFlush(i)]
    /\ UNCHANGED <<client, queue, stopping, log, dropped>>

-----------------------------------------------------------------------------
(* Shutdown                                                                *)

(* Where a cancelled worker goes: one that waits for a point flushes what  *)
(* it has, one that is flushing ends there, because _flush does not catch  *)
(* CancelledError.                                                         *)
AfterCancel(i) ==
    IF worker[i].pc = "get" /\ worker[i].buf # <<>>
    THEN [worker[i] EXCEPT !.pc = "flush"]
    ELSE [pc |-> "done", buf |-> <<>>]

Flushing == {i \in Workers : worker[i].pc \in {"flush", "write"}}

(* Batcher.stop: requests in progress have been answered before.  What a   *)
(* cancelled write has committed of its batch stays.                       *)
Stop ==
    /\ MayStop
    /\ ~stopping
    /\ \A c \in Clients : client[c].left = 0
    /\ stopping' = TRUE
    /\ worker' = [i \in Workers |-> AfterCancel(i)]
    /\ dropped' = UNION {Elems(worker[i].buf) : i \in Flushing}
    /\ \E part \in SUBSET UNION {Elems(worker[i].buf) :
                                    i \in {j \in Workers : worker[j].pc = "write"}} :
        stored' = stored \cup part
    /\ UNCHANGED <<client, queue, log, failed>>

-----------------------------------------------------------------------------
ClientNext(c) ==
    \/ \E size \in 1..MaxRequest, sync \in BOOLEAN : Send(c, size, sync)
    \/ Put(c)
    \/ SyncWrite(c)
    \/ SyncFails(c)

WorkerStep(i) == Get(i) \/ Due(i) \/ TakeSeqs(i) \/ Written(i)

Next ==
    \/ \E c \in Clients : ClientNext(c)
    \/ \E i \in Workers : WorkerStep(i) \/ WriteFails(i)
    \/ Stop

Spec == Init /\ [][Next]_vars

(* The event loop runs every ready task: a waiting worker is woken by a    *)
(* point or by its timer, a commit returns or raises, a blocked put is     *)
(* woken when there is room.                                               *)
FairSpec ==
    /\ Spec
    /\ \A i \in Workers : WF_vars(WorkerStep(i) \/ WriteFails(i))
    /\ \A c \in Clients : WF_vars(Put(c) \/ SyncWrite(c) \/ SyncFails(c))

-----------------------------------------------------------------------------
(* Properties                                                              *)

Buffered == UNION {Elems(worker[i].buf) : i \in Workers}
InQueue == Elems(queue)
SentPoints == {p \in Point : p.n <= client[p.client].sent}

(* No point is lost, duplicated or invented on its way: each one a client  *)
(* has handed over is in the queue, in exactly one buffer, or accounted    *)
(* for, and what waits has not been accounted for.                         *)
Accounted ==
    /\ InQueue \cup Buffered \cup stored \cup failed \cup dropped = SentPoints
    /\ (InQueue \cup Buffered) \cap (stored \cup failed \cup dropped) = {}
    /\ InQueue \cap Buffered = {}
    /\ \A i, j \in Workers : i # j => Elems(worker[i].buf) \cap Elems(worker[j].buf) = {}

(* Updates of a row keep the order in which one client sent them: a later  *)
(* point takes a higher sequence number, whoever flushes it.               *)
OrderKept ==
    \A j, k \in 1..Len(log) :
        j < k /\ log[j].client = log[k].client => log[j].n < log[k].n

Stopped == stopping /\ \A i \in Workers : worker[i].pc = "done"

(* "Durably persisted ... before it's acked": once the service is down,    *)
(* every point it answered for is stored.                                  *)
AckedSurvivesStop == Stopped => SentPoints \subseteq stored

(* No request waits for ever, also when the queue is full and smaller than *)
(* the request.                                                            *)
EveryRequestAnswered == \A c \in Clients : client[c].left > 0 ~> client[c].left = 0

(* A queued point does not wait for the batch to fill up: it is stored or  *)
(* counted as failed, unless the service stops first.                      *)
EveryPointFlushed ==
    \A p \in Point : p \in InQueue ~> (p \in stored \cup failed \/ stopping)

-----------------------------------------------------------------------------
(* The inductive invariant behind TypeOK and Accounted.                    *)

(* A request has room for the points it has not put yet.                   *)
ClientsFit ==
    /\ client \in [Clients -> [sent : 0..MaxPoints, left : 0..MaxRequest, sync : BOOLEAN]]
    /\ \A c \in Clients : client[c].sent + client[c].left <= MaxPoints

(* A point waits at one place of the queue.                                *)
QueueFits ==
    /\ queue \in Seq(Point) /\ Len(queue) <= Capacity
    /\ \A j, k \in 1..Len(queue) : queue[j] = queue[k] => j = k

(* A worker that waits for a point has room for it, one that flushes has   *)
(* something to flush, and one that has ended holds nothing.               *)
Fits(w) ==
    /\ Len(w.buf) <= BatchSize
    /\ w.pc = "get" => Len(w.buf) < BatchSize
    /\ w.pc \in {"flush", "write"} => w.buf # <<>>
    /\ w.pc = "done" => w.buf = <<>>

WorkersFit ==
    /\ worker \in [Workers -> [pc : {"get", "flush", "write", "done"}, buf : Seq(Point)]]
    /\ \A i \in Workers : Fits(worker[i])

(* Nothing is dropped before shutdown.                                     *)
Dropping == stopping \in BOOLEAN /\ (stopping \/ dropped = {})

BatcherInv ==
    /\ ClientsFit
    /\ QueueFits
    /\ WorkersFit
    /\ Dropping
    /\ log \in Seq(Point)
    /\ Accounted
====
