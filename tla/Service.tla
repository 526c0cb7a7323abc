---- MODULE Service ----
(***************************************************************************)
(* The service around the write queue: create_app's lifespan opens the     *)
(* pool, the cold store, the query engine and the tiering loop in turn,    *)
(* falls back to the hypertables alone when one of them fails, serves, and *)
(* closes them again.  Requests and flush workers are those of Batcher.    *)
(***************************************************************************)
EXTENDS Batcher

CONSTANTS
    ColdWanted,     \* query_engine_enabled or tier_enabled or write_through
    TierEnabled     \* tier_enabled: does the background loop run?

ASSUME ServiceSwitches == ColdWanted \in BOOLEAN /\ TierEnabled \in BOOLEAN

VARIABLES
    phase,      \* where lifespan stands
    pool,       \* the Postgres pool: "none", "open" or "closed"
    cold,       \* is store.cold set, so that batches are written through?
    engine,     \* the DuckDB engine: "none", "open" or "closed"
    tierer,     \* the Tierer: "none", "ready", "looping" or "stopped"
    passes,     \* who runs a tiering pass: "loop", "request"
    statements  \* passes whose DuckDB statement runs, in a thread of its own

parts == <<pool, cold, engine, tierer, passes, statements>>
serviceVars == <<vars, phase, parts>>

ServiceInit ==
    /\ Init
    /\ phase = "off" /\ pool = "none" /\ cold = FALSE
    /\ engine = "none" /\ tierer = "none" /\ passes = {} /\ statements = {}

-----------------------------------------------------------------------------
(* Start-up                                                                *)

(* Store.connect; an error here ends the process.  The workers start.      *)
Connect ==
    /\ phase = "off"
    /\ pool' = "open"
    /\ phase' = IF ColdWanted THEN "cold" ELSE "serving"
    /\ UNCHANGED <<vars, cold, engine, tierer, passes, statements>>

(* ensure_manifest has run; writes go through from here on.                *)
OpenCold ==
    /\ phase = "cold"
    /\ cold' = TRUE
    /\ phase' = "engine"
    /\ UNCHANGED <<vars, pool, engine, tierer, passes, statements>>

OpenEngine ==
    /\ phase = "engine"
    /\ engine' = "open"
    /\ phase' = "tierer"
    /\ UNCHANGED <<vars, pool, cold, tierer, passes, statements>>

StartTierer ==
    /\ phase = "tierer"
    /\ tierer' = IF TierEnabled THEN "looping" ELSE "ready"
    /\ phase' = "serving"
    /\ UNCHANGED <<vars, pool, cold, engine, passes, statements>>

(* Mutant of WithoutCold: the store keeps its cold store.                  *)
WithoutEngine == cold' = cold /\ engine' = "none"

WithoutCold == cold' = FALSE /\ engine' = "none"

(* Whichever step failed, the service runs without any of the three.       *)
ColdUnavailable ==
    /\ Faults
    /\ phase \in {"cold", "engine", "tierer"}
    /\ WithoutCold
    /\ tierer' = "none"
    /\ phase' = "serving"
    /\ UNCHANGED <<vars, pool, passes, statements>>

-----------------------------------------------------------------------------
(* Service                                                                 *)

(* Mutant of Accepting: requests are taken as soon as the pool is open.    *)
AcceptingEarly == phase \in {"cold", "engine", "tierer", "serving"}

Accepting == phase = "serving"

SendRequest(c, size, sync) ==
    /\ Accepting
    /\ Send(c, size, sync)
    /\ UNCHANGED <<phase, parts>>

(* Requests go on and workers flush, in whatever phase.                    *)
WriteStep ==
    /\ \/ \E c \in Clients : Put(c) \/ SyncWrite(c) \/ SyncFails(c)
       \/ \E i \in Workers : WorkerStep(i) \/ WriteFails(i)
    /\ UNCHANGED <<phase, parts>>

(* The loop wakes up, or POST /api/v1/tier/run comes in.                   *)
BeginPass(p) ==
    /\ p \notin passes
    /\ \/ p = "loop" /\ tierer = "looping"
       \/ p = "request" /\ phase = "serving" /\ tierer # "none"
    /\ passes' = passes \cup {p}
    /\ UNCHANGED <<vars, phase, pool, cold, engine, tierer, statements>>

(* The pass, alone with the engine's lock, hands a COPY or the count after *)
(* it to a thread and awaits the thread.                                   *)
StartStatement(p) ==
    /\ p \in passes
    /\ passes \cap statements = {}
    /\ statements' = statements \cup {p}
    /\ UNCHANGED <<vars, phase, pool, cold, engine, tierer, passes>>

(* The thread returns, with a result or an error, awaited or not.          *)
EndStatement(p) ==
    /\ p \in statements
    /\ statements' = statements \ {p}
    /\ UNCHANGED <<vars, phase, pool, cold, engine, tierer, passes>>

EndPass(p) ==
    /\ p \in passes \ statements
    /\ passes' = passes \ {p}
    /\ UNCHANGED <<vars, phase, pool, cold, engine, tierer, statements>>

-----------------------------------------------------------------------------
(* Shutdown                                                                *)

(* Requests in progress have been answered before lifespan goes on.        *)
BeginShutdown ==
    /\ MayStop
    /\ phase = "serving"
    /\ \A c \in Clients : client[c].left = 0
    /\ "request" \notin passes
    /\ phase' = "stopTierer"
    /\ UNCHANGED <<vars, parts>>

(* Mutant of PassesAfterStop: the cancelled loop is not awaited.           *)
PassesUnawaited == passes

PassesAfterStop == {}

(* Tierer.stop cancels the loop and waits for the loop to end: a thread    *)
(* that the pass was waiting for runs on.                                  *)
StopTierer ==
    /\ phase = "stopTierer"
    /\ tierer' = IF tierer = "none" THEN "none" ELSE "stopped"
    /\ passes' = PassesAfterStop
    /\ phase' = "closeEngine"
    /\ UNCHANGED <<vars, pool, cold, engine, statements>>

(* The connection is closed whether or not a statement still runs on it.   *)
CloseEngine ==
    /\ phase = "closeEngine"
    /\ engine' = IF engine = "open" THEN "closed" ELSE engine
    /\ phase' = "stopBatcher"
    /\ UNCHANGED <<vars, pool, cold, tierer, passes, statements>>

StopBatcher ==
    /\ phase = "stopBatcher"
    /\ Stop
    /\ phase' = "closeStore"
    /\ UNCHANGED parts

(* Mutant of WorkersAwaited: stop only cancels the workers.                *)
WorkersCancelled == stopping

(* Batcher.stop awaits every worker.                                       *)
WorkersAwaited == stopping /\ \A i \in Workers : worker[i].pc = "done"

CloseStore ==
    /\ phase = "closeStore"
    /\ WorkersAwaited
    /\ pool' = "closed"
    /\ phase' = "down"
    /\ UNCHANGED <<vars, cold, engine, tierer, passes, statements>>

-----------------------------------------------------------------------------
StartUp == Connect \/ OpenCold \/ OpenEngine \/ StartTierer
ShutDown == StopTierer \/ CloseEngine \/ StopBatcher \/ CloseStore

ServiceNext ==
    \/ StartUp \/ ColdUnavailable
    \/ \E c \in Clients, size \in 1..MaxRequest, sync \in BOOLEAN : SendRequest(c, size, sync)
    \/ WriteStep
    \/ \E p \in {"loop", "request"} :
            BeginPass(p) \/ StartStatement(p) \/ EndStatement(p) \/ EndPass(p)
    \/ BeginShutdown \/ ShutDown

ServiceSpec == ServiceInit /\ [][ServiceNext]_serviceVars

(* The event loop as in Batcher; lifespan goes on.                         *)
FairServiceSpec ==
    /\ ServiceSpec
    /\ \A i \in Workers : WF_vars(WorkerStep(i) \/ WriteFails(i))
    /\ \A c \in Clients : WF_vars(Put(c) \/ SyncWrite(c) \/ SyncFails(c))
    /\ WF_serviceVars(ShutDown)

-----------------------------------------------------------------------------
(* Properties                                                              *)

(* The pool is open as long as a worker may still write to it, and the     *)
(* engine as long as a pass may send it a statement or a request waits for *)
(* one, whenever shutdown begins: what the engine may be closed under is   *)
(* the one statement the loop's cancelled pass has left behind.            *)
ClosedAfterUse ==
    /\ pool = "closed" => \A i \in Workers : worker[i].pc = "done"
    /\ engine # "open" => passes = {} /\ statements \subseteq {"loop"}

(* No statement runs on the engine when it is closed.  The loop's last one *)
(* may: Tierer.stop does not wait for its thread.                          *)
EngineIdleWhenClosed == engine = "closed" => statements = {}

(* A service that answers requests has all of cold store, engine and       *)
(* tierer, or none of them, wherever start-up failed.                      *)
ColdAllOrNothing ==
    phase = "serving" => (cold <=> engine = "open") /\ (cold <=> tierer # "none")

(* One process stores every point it accepts the same way: whether batches *)
(* are written through does not change once a request has been taken.      *)
WritePathFixed ==
    [][cold' # cold => \A c \in Clients : client[c].sent = 0 /\ client[c].left = 0]_serviceVars

(* Shutdown comes to an end, also with points in the queue, batches being  *)
(* written and a pass running.                                             *)
ShutdownEnds == phase = "stopTierer" ~> phase = "down"

(* "Durably persisted to Parquet before it's acked": with write-through    *)
(* configured, nothing is stored by a service without its cold store.      *)
AcknowledgedIsCold == ColdWanted /\ stored # {} => cold

-----------------------------------------------------------------------------
(* The inductive invariant behind them: what lifespan has opened and what  *)
(* it has closed, by where it stands.                                      *)

Starting == {"off", "cold", "engine", "tierer"}
Up == {"serving", "stopTierer"}
TierStopped == {"closeEngine", "stopBatcher", "closeStore", "down"}

PartsTyped ==
    /\ phase \in Starting \cup Up \cup TierStopped
    /\ pool \in {"none", "open", "closed"} /\ cold \in BOOLEAN
    /\ engine \in {"none", "open", "closed"}
    /\ tierer \in {"none", "ready", "looping", "stopped"}
    /\ passes \subseteq {"loop", "request"}
    /\ statements \subseteq {"loop", "request"}

LifeInv ==
    /\ PartsTyped
    /\ phase \in Starting =>
        /\ tierer = "none" /\ passes = {} /\ statements = {}
        /\ cold <=> phase \in {"engine", "tierer"}
        /\ engine = IF phase = "tierer" THEN "open" ELSE "none"
        /\ \A c \in Clients : client[c].sent = 0 /\ client[c].left = 0
    /\ phase \in Up =>
        /\ cold <=> engine = "open"
        /\ cold <=> tierer \in {"ready", "looping"}
        /\ tierer # "stopped"
        /\ statements \subseteq passes
    /\ phase = "stopTierer" => "request" \notin passes
    /\ phase \in TierStopped =>
        /\ passes = {} /\ tierer \in {"none", "stopped"}
        /\ statements \subseteq {"loop"}
    /\ passes # {} => engine = "open"
    /\ pool = "closed" => \A i \in Workers : worker[i].pc = "done"

ServiceInv == BatcherInv /\ LifeInv
====
