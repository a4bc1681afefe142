-------------------------------- MODULE Server --------------------------------
(***************************************************************************)
(* cmd/api/main.go and Runtime (register.go): one gateway process from      *)
(* start to exit.  The goroutines are main, the outbox worker, the          *)
(* consumer with its lane workers, the shutdown goroutine and the handlers. *)
(*                                                                         *)
(* Only where a goroutine is, and what it waits for, is kept of the workers *)
(* here; what they do is in Delivery.tla.                                   *)
(***************************************************************************)
EXTENDS Handlers, FiniteSets

CONSTANTS
    EnvValues,      \* integers SMS_WORKERS_* may be set to
    DefaultWorkers, \* fallback when it is unset or invalid
    PartitionCounts,\* what PartitionCount may say when there is metadata
    MaxSeeds        \* bound on the seed rows other instances insert

ASSUME ServerAssumption ==
    /\ EnvValues \subseteq Int
    /\ DefaultWorkers \in Nat \ {0}
    /\ PartitionCounts \subseteq Nat
    /\ MaxSeeds \in Nat

Lanes == {"express", "normal"}
Stores == {"otel", "db", "redis", "producer"}

VARIABLES
    main,           \* where main is
    signalled,      \* SIGTERM or SIGINT arrived: ctx is cancelled
    seedRows,       \* rows of users named defaultSeedUserName
    seed,           \* what EnsureByName returned
    requested,      \* requested[l]: SMS_WORKERS_* as config.Load read it
    partitions,     \* partitions[l]: what PartitionCount said
    workers,        \* workers[l]: Lane.Workers
    outbox,         \* the goroutine of OutboxWorker.Run
    consumer,       \* the goroutine of SMSConsumer.Run
    running,        \* running[l]: runWorker goroutines
    http,           \* the HTTP server
    stopper,        \* the shutdown goroutine
    stopTimedOut,   \* Runtime.Stop gave up after its timeout
    drainTimedOut   \* e.Shutdown gave up after its timeout

seedVars == <<seedRows, seed>>
laneVars == <<requested, partitions, workers>>
workerVars == <<outbox, consumer, running>>
stopVars == <<http, stopper, stopTimedOut, drainTimedOut>>
vars == <<handlerVars, open, main, signalled, seedVars, laneVars, workerVars, stopVars>>

MainPC ==
    {"otel", "db", "redis", "producer", "seed", "insert", "reread", "register",
     "start", "listen", "serving", "closeProducer", "closeRedis", "closeDB",
     "closeOtel", "exited", "fatal"}

\* Every variable has its type.
TypeOK ==
    /\ HandlersTypeOK
    /\ open \subseteq Stores /\ main \in MainPC /\ signalled \in BOOLEAN
    /\ seedRows \in Nat
    /\ seed \in {"none", "ready", "notfound", "error"}
    /\ requested \in [Lanes -> Nat \ {0}]
    /\ partitions \in [Lanes -> Nat] /\ workers \in [Lanes -> Nat]
    /\ outbox \in {"off", "run", "done"}
    /\ consumer \in {"off", "starting", "run", "done"}
    /\ running \in [Lanes -> Nat]
    /\ http \in {"new", "serving", "closed"}
    /\ stopper \in {"off", "wait", "stopping", "draining", "done"}
    /\ stopTimedOut \in BOOLEAN /\ drainTimedOut \in BOOLEAN

\* Mutant: zero is taken for a setting.
EnvIntZero == {n \in EnvValues : n >= 0} \cup {DefaultWorkers}
\* envInt: the value if it is a positive number (unset: nothing).
EnvInt == {n \in EnvValues : n > 0} \cup {DefaultWorkers}

\* PartitionCount: 0 when there is no metadata.
PartitionCount == PartitionCounts \cup {0}

AtLeastOne(n) == IF n < 1 THEN 1 ELSE n

\* Mutant: the number of partitions is a lower bound.
CapWorkersLow(n, parts) == IF parts > n THEN parts ELSE AtLeastOne(n)
CapWorkers(n, parts) ==
    IF parts > 0 /\ AtLeastOne(n) > parts THEN parts ELSE AtLeastOne(n)

\* Lane.Workers: capLaneWorkers, and once more a lower bound in NewSMSConsumer.
CapLaneWorkers(l, parts) == CapWorkers(requested[l], parts)
NewSMSConsumer(counts) == [l \in Lanes |-> AtLeastOne(CapLaneWorkers(l, counts[l]))]

Init ==
    /\ HandlersInit
    /\ open = {} /\ main = "otel" /\ signalled = FALSE
    /\ seedRows = 0 /\ seed = "none"
    /\ requested \in [Lanes -> EnvInt]
    /\ partitions = [l \in Lanes |-> 0] /\ workers = [l \in Lanes |-> 0]
    /\ outbox = "off" /\ consumer = "off" /\ running = [l \in Lanes |-> 0]
    /\ http = "new" /\ stopper = "off"
    /\ stopTimedOut = FALSE /\ drainTimedOut = FALSE

\* The process is there: os.Exit and the end of main end all goroutines.
Alive == main \notin {"exited", "fatal"}

-------------------------------------------------------------------------------
(***************************************************************************)
(* main                                                                    *)
(***************************************************************************)

\* A resource is opened, or log.Fatal ends the process without its defers.
Open(at, store, next) ==
    /\ main = at
    /\ \/ open' = open \cup {store} /\ main' = next
       \/ UNCHANGED open /\ main' = "fatal"
    /\ UNCHANGED <<handlerVars, signalled, seedVars, laneVars, workerVars, stopVars>>

Setup == Open("otel", "otel", "db")
ConnectDatabase == Open("db", "db", "redis")
ConnectRedis == Open("redis", "redis", "producer")

\* NewProducer dials nothing and cannot fail.
NewProducer ==
    /\ main = "producer"
    /\ open' = open \cup {"producer"} /\ main' = "seed"
    /\ UNCHANGED <<handlerVars, signalled, seedVars, laneVars, workerVars, stopVars>>

\* EnsureByName returns res; user.Register only logs an error.
Seeded(res) ==
    /\ seed' = res /\ main' = "register"
    /\ UNCHANGED seedRows

\* EnsureByName, statement by statement: other instances insert in between.
FindSeed ==
    /\ main = "seed"
    /\ \/ seedRows > 0 /\ Seeded("ready")
       \/ seedRows = 0 /\ main' = "insert" /\ UNCHANGED seedVars
       \/ Seeded("error")
    /\ UNCHANGED <<handlerVars, open, signalled, laneVars, workerVars, stopVars>>

\* Mutant: somebody else's row is taken for no row.
InsertLost == Seeded("notfound")
\* The INSERT matched nothing: another instance was faster.
InsertSkipped == main' = "reread" /\ UNCHANGED seedVars

\* A row that another instance commits while the INSERT runs is not in its
\* snapshot, and no unique index stops the second row.
InsertSeed ==
    /\ main = "insert"
    /\ \/ seedRows' = seedRows + 1 /\ seed' = "ready" /\ main' = "register"
       \/ seedRows > 0 /\ InsertSkipped
       \/ Seeded("error")
    /\ UNCHANGED <<handlerVars, open, signalled, laneVars, workerVars, stopVars>>

RereadSeed ==
    /\ main = "reread"
    /\ \/ seedRows > 0 /\ Seeded("ready")
       \/ seedRows = 0 /\ Seeded("notfound")
       \/ Seeded("error")
    /\ UNCHANGED <<handlerVars, open, signalled, laneVars, workerVars, stopVars>>

\* messaging.Register.
Register ==
    /\ main = "register"
    /\ partitions' \in [Lanes -> PartitionCount]
    /\ workers' = NewSMSConsumer(partitions')
    /\ main' = "start"
    /\ UNCHANGED <<handlerVars, open, signalled, seedVars, requested, workerVars, stopVars>>

\* rt.Start, and the shutdown goroutine.
Start ==
    /\ main = "start"
    /\ outbox' = "run" /\ consumer' = "starting" /\ stopper' = "wait"
    /\ main' = "listen"
    /\ UNCHANGED <<handlerVars, open, signalled, seedVars, laneVars, running, http,
                   stopTimedOut, drainTimedOut>>

\* e.Start: listens, or fails to (log.Fatal) even if the server has already been
\* shut down, or finds that it has been.
Listen ==
    /\ main = "listen"
    /\ \/ http = "new" /\ http' = "serving" /\ main' = "serving"
       \/ UNCHANGED http /\ main' = "fatal"
       \/ http = "closed" /\ UNCHANGED http /\ main' = "closeProducer"
    /\ UNCHANGED <<handlerVars, open, signalled, seedVars, laneVars, workerVars,
                   stopper, stopTimedOut, drainTimedOut>>

\* e.Start returns ErrServerClosed as soon as Shutdown has closed the listener,
\* whatever the handlers are doing, and main returns.
ServeReturns ==
    /\ main = "serving" /\ http = "closed"
    /\ main' = "closeProducer"
    /\ UNCHANGED <<handlerVars, open, signalled, seedVars, laneVars, workerVars, stopVars>>

\* A deferred close.
Close(at, store, next) ==
    /\ main = at
    /\ open' = open \ {store} /\ main' = next
    /\ UNCHANGED <<handlerVars, signalled, seedVars, laneVars, workerVars, stopVars>>

\* The deferred calls, the last one first; then the process ends.
DeferredCloses ==
    \/ Close("closeProducer", "producer", "closeRedis")
    \/ Close("closeRedis", "redis", "closeDB")
    \/ Close("closeDB", "db", "closeOtel")
    \/ Close("closeOtel", "otel", "exited")

MainStep ==
    \/ Setup \/ ConnectDatabase \/ ConnectRedis \/ NewProducer
    \/ FindSeed \/ InsertSeed \/ RereadSeed
    \/ Register \/ Start \/ Listen \/ ServeReturns \/ DeferredCloses

-------------------------------------------------------------------------------
(***************************************************************************)
(* Workers: they run until ctx is cancelled, and possibly longer           *)
(***************************************************************************)

OutboxEnds ==
    /\ Alive /\ outbox = "run" /\ signalled
    /\ outbox' = "done"
    /\ UNCHANGED <<handlerVars, open, main, signalled, seedVars, laneVars, consumer,
                   running, stopVars>>

\* SMSConsumer.Run starts the workers of both lanes.
SpawnWorkers ==
    /\ Alive /\ consumer = "starting"
    /\ running' = workers /\ consumer' = "run"
    /\ UNCHANGED <<handlerVars, open, main, signalled, seedVars, laneVars, outbox, stopVars>>

LaneWorkerEnds(l) ==
    /\ Alive /\ running[l] > 0 /\ signalled
    /\ running' = [running EXCEPT ![l] = @ - 1]
    /\ UNCHANGED <<handlerVars, open, main, signalled, seedVars, laneVars, outbox,
                   consumer, stopVars>>

\* wg.Wait in SMSConsumer.Run.
LanesDone == \A l \in Lanes : running[l] = 0

ConsumerEnds ==
    /\ Alive /\ consumer = "run" /\ signalled /\ LanesDone
    /\ consumer' = "done"
    /\ UNCHANGED <<handlerVars, open, main, signalled, seedVars, laneVars, outbox,
                   running, stopVars>>

-------------------------------------------------------------------------------
(***************************************************************************)
(* Shutdown                                                                *)
(***************************************************************************)

\* The signal may arrive at any time.
Signal ==
    /\ Alive /\ ~signalled
    /\ signalled' = TRUE
    /\ UNCHANGED <<handlerVars, open, main, seedVars, laneVars, workerVars, stopVars>>

StopBegins ==
    /\ Alive /\ stopper = "wait" /\ signalled
    /\ stopper' = "stopping"
    /\ UNCHANGED <<handlerVars, open, main, signalled, seedVars, laneVars, workerVars,
                   http, stopTimedOut, drainTimedOut>>

\* Mutant: Stop has no timeout.
TimeAfterNever == FALSE
\* Mutant: wg.Add(1), so that Stop waits for one of the two goroutines.
OneOfTwoDone == outbox = "done" \/ consumer = "done"

\* time.After(timeout) may fire while Stop waits.
TimeAfter == TRUE
\* r.wg.Wait in Runtime.Stop.
WaitDone == outbox = "done" /\ consumer = "done"

\* Runtime.Stop returns and e.Shutdown closes the listener.
StopReturns ==
    /\ Alive /\ stopper = "stopping"
    /\ \/ WaitDone /\ UNCHANGED stopTimedOut
       \/ TimeAfter /\ stopTimedOut' = TRUE
    /\ stopper' = "draining" /\ http' = "closed"
    /\ UNCHANGED <<handlerVars, open, main, signalled, seedVars, laneVars, workerVars,
                   drainTimedOut>>

\* e.Shutdown returns: no handler is left, or its context has expired.
ShutdownReturns ==
    /\ Alive /\ stopper = "draining"
    /\ \/ (\A r \in Reqs : ~InFlight(r)) /\ UNCHANGED drainTimedOut
       \/ drainTimedOut' = TRUE
    /\ stopper' = "done"
    /\ UNCHANGED <<handlerVars, open, main, signalled, seedVars, laneVars, workerVars,
                   http, stopTimedOut>>

StopperStep == StopBegins \/ StopReturns \/ ShutdownReturns

-------------------------------------------------------------------------------
Handle(r) ==
    /\ Alive
    /\ \/ http = "serving" /\ \E k \in RequestKinds : Receive(r, k)
       \/ Execute(r)
       \/ Reply(r)
    /\ UNCHANGED <<open, main, signalled, seedVars, laneVars, workerVars, stopVars>>

\* Another instance, started at the same time, commits its INSERT.
\* Once EnsureByName has returned nobody in this process reads the table.
OtherSeeds ==
    /\ Alive /\ seed = "none" /\ seedRows < MaxSeeds
    /\ seedRows' = seedRows + 1
    /\ UNCHANGED <<handlerVars, open, main, signalled, seed, laneVars, workerVars, stopVars>>

Next ==
    \/ MainStep
    \/ OutboxEnds \/ SpawnWorkers \/ ConsumerEnds
    \/ \E l \in Lanes : LaneWorkerEnds(l)
    \/ Signal \/ StopperStep
    \/ \E r \in Reqs : Handle(r)
    \/ OtherSeeds

Spec == Init /\ [][Next]_vars

\* main and the shutdown goroutine run, and their timers fire; nothing is
\* assumed of the workers and the handlers, which may hang.
FairSpec == Spec /\ WF_vars(MainStep) /\ WF_vars(StopperStep)

-------------------------------------------------------------------------------
\* No worker finds its database, Redis or Kafka client closed under it: the
\* deferred closes of main run after the last worker goroutine has ended,
\* unless Runtime.Stop gave up waiting.
StoresOutliveWorkers ==
    stopper # "off" /\ open # Stores =>
        stopTimedOut \/ (outbox = "done" /\ \A l \in Lanes : running[l] = 0)

\* EnsureByName comes back with a user unless a statement failed, whatever
\* other instances insert between its three statements.
SeedIsFound == seed # "notfound"

\* While the gateway serves, each lane has a worker, with or without partition
\* metadata and whatever SMS_WORKERS_* says; and no worker is left without a
\* partition when the metadata was there.
EveryLaneServed ==
    consumer = "run" /\ ~signalled =>
        \A l \in Lanes :
            /\ running[l] > 0
            /\ partitions[l] > 0 => running[l] <= partitions[l]

\* A signal ends the process, also when it arrives during start-up and when a
\* worker or a handler never returns.
SignalEndsProcess == signalled ~> ~Alive

\* README: after the workers, the HTTP server is shut down within five
\* seconds; a request in progress is only given up when they have passed.
DrainedBeforeExit ==
    main = "exited" => drainTimedOut \/ \A r \in Reqs : ~InFlight(r)
===============================================================================
