----------------------------- MODULE ServerProofs -----------------------------
(***************************************************************************)
(* One gateway process from start to exit, for any number of HTTP requests, *)
(* any worker settings, any partition counts and any number of instances    *)
(* that seed the users table at the same time.                             *)
(*                                                                         *)
(* The shutdown argument is a chain: the stores are closed by the defers of *)
(* main, which run after e.Start has returned; that is after the shutdown   *)
(* goroutine has closed the listener, which is after Runtime.Stop; and Stop *)
(* returns when both goroutines are done, or has given up.  The consumer's  *)
(* goroutine ends after its lane workers.  Each link is an invariant.       *)
(***************************************************************************)
EXTENDS Server, SequenceTheorems, TLAPS

\* main has not reached e.Start and has not started a goroutine.
Starting ==
    {"otel", "db", "redis", "producer", "seed", "insert", "reread", "register", "start"}

\* main runs its defers, or has returned.
Closing == {"closeProducer", "closeRedis", "closeDB", "closeOtel", "exited"}

\* Nothing runs beside main until rt.Start.
StartsAlone ==
    main \in Starting => stopper = "off" /\ http = "new" /\ consumer = "off"

\* main opens the stores in order and keeps them until its defers.
OpensInOrder ==
    /\ main = "db" => {"otel"} \subseteq open
    /\ main = "redis" => {"otel", "db"} \subseteq open
    /\ main = "producer" => {"otel", "db", "redis"} \subseteq open
    /\ main \in {"seed", "insert", "reread", "register", "start"} => open = Stores
    /\ stopper # "off" /\ main \notin Closing => open = Stores

\* main returns because the listener was closed, and it was closed because
\* Runtime.Stop returned.
ClosesLast ==
    /\ main \in Closing => http = "closed"
    /\ http = "closed" => stopTimedOut \/ WaitDone

\* The consumer's goroutine outlives its lane workers.
ConsumerOutlivesLanes == consumer = "done" => LanesDone

\* The row another instance inserted is still there when it is read again.
RereadFindsRow == main = "reread" => seedRows > 0

\* A registered lane has a worker, and not more workers than partitions.
LanesSized ==
    main = "start" \/ consumer # "off" =>
        \A l \in Lanes :
            /\ workers[l] > 0
            /\ partitions[l] > 0 => workers[l] <= partitions[l]

\* No lane worker ends before the signal.
LanesRun == consumer = "run" /\ ~signalled => running = workers

\* What is true of a readable request while its handler runs.
AnswersSoFar ==
    \A r \in Reqs :
        /\ hpc[r] \in {"idle", "exec"} => r \notin executed
        /\ hpc[r] # "done" /\ req[r].id /\ req[r].bound => bodies[r] = <<>>
        /\ hpc[r] \in {"reply", "done"} /\ r \in executed => outcome[r] \in {"ok", "error"}
        /\ hpc[r] = "reply" =>
              /\ outcome[r] # "none"
              /\ outcome[r] = "ok" /\ Writes(req[r]) => r \in executed

\* What is true of the goroutines.
ProcessInv ==
    /\ StartsAlone /\ OpensInOrder /\ ClosesLast /\ ConsumerOutlivesLanes
    /\ RereadFindsRow /\ SeedIsFound /\ LanesSized /\ LanesRun

\* The inductive invariant.
IndInv == TypeOK /\ ProcessInv /\ AnswersSoFar /\ OneTrueAnswer

-------------------------------------------------------------------------------
\* The settings and the partition counts are numbers.
LEMMA SettingsAreNumbers ==
  EnvInt \subseteq Nat \ {0} /\ PartitionCount \subseteq Nat
  <1>1. ASSUME NEW n \in EnvInt
        PROVE  n \in Nat \ {0}
    BY ServerAssumption DEF EnvInt
  <1>2. ASSUME NEW n \in PartitionCount
        PROVE  n \in Nat
    BY ServerAssumption DEF PartitionCount
  <1> QED
    BY <1>1, <1>2

\* The number of workers of a lane is positive and within its partitions.
LEMMA CapBounds ==
  ASSUME NEW n \in Int, NEW parts \in Nat
  PROVE  /\ AtLeastOne(CapWorkers(n, parts)) \in Nat \ {0}
         /\ parts > 0 => AtLeastOne(CapWorkers(n, parts)) <= parts
  BY DEF AtLeastOne, CapWorkers

\* What Register makes of them: every lane has a worker, and no more workers
\* than partitions.
LEMMA RegisterSizes ==
  ASSUME TypeOK, Register
  PROVE  /\ partitions' \in [Lanes -> Nat] /\ workers' \in [Lanes -> Nat]
         /\ \A l \in Lanes : /\ workers'[l] > 0
                             /\ partitions'[l] > 0 => workers'[l] <= partitions'[l]
  <1>1. partitions' \in [Lanes -> Nat]
    BY SettingsAreNumbers DEF Register
  <1>2. ASSUME NEW l \in Lanes
        PROVE  /\ workers'[l] \in Nat \ {0}
               /\ partitions'[l] > 0 => workers'[l] <= partitions'[l]
    <2>1. partitions'[l] \in Nat /\ requested[l] \in Int
      BY <1>1 DEF TypeOK
    <2>2. workers'[l] = AtLeastOne(CapWorkers(requested[l], partitions'[l]))
      BY DEF Register, NewSMSConsumer, CapLaneWorkers
    <2> QED
      BY <2>1, <2>2, CapBounds
  <1>3. workers' = [l \in Lanes |-> workers'[l]]
    BY DEF Register, NewSMSConsumer
  <1> QED
    BY <1>1, <1>2, <1>3

\* A handler's step keeps the types of what handlers work on.
LEMMA HandlersTyped ==
  ASSUME HandlersTypeOK, NEW r \in Reqs,
         (\E k \in RequestKinds : Receive(r, k)) \/ Execute(r) \/ Reply(r)
  PROVE  HandlersTypeOK'
  <1>1. ASSUME NEW k \in RequestKinds, Receive(r, k)
        PROVE  HandlersTypeOK'
    <2>1. Written(k) \in Seq(Statuses)
      <3>1. 400 \in Statuses
        BY DEF Statuses
      <3>2. <<>> \in Seq(Statuses) /\ <<400>> \in Seq(Statuses)
        BY <3>1
      <3>3. /\ PathID(k) \in Seq(Statuses) /\ Bind(k) \in Seq(Statuses)
            /\ (IF BindReturns(k) THEN <<>> ELSE Validate(k)) \in Seq(Statuses)
        BY <3>2 DEF PathID, Bind, Validate
      <3> QED
        BY <3>3, ConcatProperties DEF Written
    <2> QED
      BY <1>1, <2>1 DEF HandlersTypeOK, Receive
  <1>2. CASE Execute(r)
    <2>1. Results(req[r]) \subseteq Outcomes
      BY DEF Results, UseCaseResults, ListMessages, SendResults, UserResults, Outcomes
    <2> QED
      BY <1>2, <2>1 DEF HandlersTypeOK, Execute
  <1>3. CASE Reply(r)
    <2>1. FromError(outcome[r]) \in Statuses
      BY DEF FromError, Statuses
    <2>2. Append(bodies[r], FromError(outcome[r])) \in Seq(Statuses)
      BY <2>1 DEF HandlersTypeOK
    <2> QED
      BY <1>3, <2>2 DEF HandlersTypeOK, Reply
  <1> QED
    BY <1>1, <1>2, <1>3

\* A handler's step keeps the answers true, its own and those of the others.
LEMMA HandlersTruthful ==
  ASSUME HandlersTypeOK, AnswersSoFar, OneTrueAnswer, NEW r \in Reqs,
         (\E k \in RequestKinds : Receive(r, k)) \/ Execute(r) \/ Reply(r)
  PROVE  AnswersSoFar' /\ OneTrueAnswer'
  <1>1. ASSUME NEW k \in RequestKinds, Receive(r, k)
        PROVE  AnswersSoFar' /\ OneTrueAnswer'
    <2>1. /\ CallsUseCase(k) /\ k.id /\ k.bound => Written(k) = <<>>
          /\ ~CallsUseCase(k) /\ k.id /\ k.bound => Written(k) = <<400>>
      <3>1. <<>> \in Seq({400}) /\ <<400>> \in Seq({400})
        OBVIOUS
      <3>2. <<>> \o <<>> = <<>> /\ <<>> \o <<400>> = <<400>>
        BY <3>1, ConcatEmptySeq
      <3> QED
        BY <3>2 DEF CallsUseCase, Written, PathID, Bind, Validate, BindReturns
    <2>2. AnswersSoFar'
      BY <1>1, <2>1 DEF AnswersSoFar, HandlersTypeOK, Receive
    <2>3. OneTrueAnswer'
      BY <1>1, <2>1 DEF AnswersSoFar, OneTrueAnswer, HandlersTypeOK, Receive
    <2> QED
      BY <2>2, <2>3
  <1>2. CASE Execute(r)
    <2>1. PICK o \in Results(req[r]) :
            /\ outcome' = [outcome EXCEPT ![r] = o]
            /\ \/ /\ Writes(req[r]) /\ req[r].id /\ "db" \in open
                  /\ o \in {"ok", "error"}
                  /\ executed' = executed \cup {r}
               \/ /\ ~(Writes(req[r]) /\ o = "ok")
                  /\ UNCHANGED executed
      BY <1>2 DEF Execute
    <2>2. o # "none"
      BY DEF Results, UseCaseResults, ListMessages, SendResults, UserResults
    <2>3. AnswersSoFar'
      BY <1>2, <2>1, <2>2 DEF AnswersSoFar, HandlersTypeOK, Execute, Writes
    <2>4. OneTrueAnswer'
      BY <1>2, <2>1 DEF AnswersSoFar, OneTrueAnswer, HandlersTypeOK, Execute, Writes
    <2> QED
      BY <2>3, <2>4
  <1>3. CASE Reply(r)
    <2>1. AnswersSoFar'
      BY <1>3 DEF AnswersSoFar, HandlersTypeOK, Reply, Writes
    <2>2. ASSUME req[r].id, req[r].bound
          PROVE  /\ bodies'[r] = <<FromError(outcome[r])>>
                 /\ FromError(outcome[r]) = 200 => outcome[r] = "ok"
                 /\ FromError(outcome[r]) \in 400..499 => r \notin executed
      <3>1. bodies'[r] = Append(<<>>, FromError(outcome[r]))
        BY <1>3, <2>2 DEF AnswersSoFar, HandlersTypeOK, Reply
      <3>2. Append(<<>>, FromError(outcome[r])) = <<FromError(outcome[r])>>
        OBVIOUS
      <3>3. FromError(outcome[r]) = 200 => outcome[r] = "ok"
        BY DEF FromError
      <3>4. outcome[r] \in {"ok", "error"} => ~(FromError(outcome[r]) \in 400..499)
        BY DEF FromError
      <3>5. r \in executed => outcome[r] \in {"ok", "error"}
        BY <1>3 DEF AnswersSoFar, Reply
      <3> QED
        BY <3>1, <3>2, <3>3, <3>4, <3>5
    <2>3. OneTrueAnswer'
      BY <1>3, <2>2 DEF AnswersSoFar, OneTrueAnswer, HandlersTypeOK, Reply, Writes
    <2> QED
      BY <2>1, <2>3
  <1> QED
    BY <1>1, <1>2, <1>3

-------------------------------------------------------------------------------
\* Steps outside the handlers leave what the clients see alone.
LEMMA HandlersUntouched ==
  ASSUME AnswersSoFar, OneTrueAnswer, UNCHANGED handlerVars
  PROVE  AnswersSoFar' /\ OneTrueAnswer'
  BY DEF AnswersSoFar, OneTrueAnswer, handlerVars

\* The steps of main keep the types.
LEMMA MainTyped ==
  ASSUME TypeOK, MainStep
  PROVE  TypeOK'
  <1>0. HandlersTypeOK'
    <2>1. UNCHANGED handlerVars
      BY DEF MainStep, Setup, ConnectDatabase, ConnectRedis, NewProducer, Open, FindSeed,
             InsertSeed, RereadSeed, Register, Start, Listen, ServeReturns,
             DeferredCloses, Close
    <2> QED
      BY <2>1 DEF TypeOK, HandlersTypeOK, handlerVars
  <1>1. CASE Setup \/ ConnectDatabase \/ ConnectRedis \/ NewProducer
    <2>1. open' \subseteq Stores
      BY <1>1
      DEF TypeOK, Stores, Setup, ConnectDatabase, ConnectRedis, NewProducer, Open
    <2> QED
      BY <1>0, <1>1, <2>1
      DEF TypeOK, MainPC, Setup, ConnectDatabase, ConnectRedis, NewProducer, Open,
          seedVars, laneVars, workerVars, stopVars
  <1>2. CASE FindSeed \/ InsertSeed \/ RereadSeed
    BY <1>0, <1>2
    DEF TypeOK, MainPC, FindSeed, InsertSeed, InsertSkipped, RereadSeed, Seeded,
        seedVars, laneVars, workerVars, stopVars
  <1>3. CASE Register
    BY <1>0, <1>3, RegisterSizes DEF TypeOK, MainPC, Register, seedVars, workerVars, stopVars
  <1>4. CASE Start \/ Listen \/ ServeReturns
    BY <1>0, <1>4
    DEF TypeOK, MainPC, Start, Listen, ServeReturns, seedVars, laneVars, workerVars,
        stopVars
  <1>5. CASE DeferredCloses
    BY <1>0, <1>5
    DEF TypeOK, MainPC, DeferredCloses, Close, seedVars, laneVars, workerVars, stopVars
  <1> QED
    BY <1>1, <1>2, <1>3, <1>4, <1>5 DEF MainStep

\* So do those of the other goroutines and of the other instances.
LEMMA OthersTyped ==
  ASSUME TypeOK,
         \/ OutboxEnds \/ SpawnWorkers \/ ConsumerEnds
         \/ \E l \in Lanes : LaneWorkerEnds(l)
         \/ Signal \/ StopperStep \/ OtherSeeds
  PROVE  TypeOK'
  <1>0. HandlersTypeOK'
    <2>1. UNCHANGED handlerVars
      BY DEF OutboxEnds, SpawnWorkers, ConsumerEnds, LaneWorkerEnds, Signal, StopperStep,
             StopBegins, StopReturns, ShutdownReturns, OtherSeeds
    <2> QED
      BY <2>1 DEF TypeOK, HandlersTypeOK, handlerVars
  <1>1. CASE OutboxEnds \/ SpawnWorkers \/ ConsumerEnds
    BY <1>0, <1>1
    DEF TypeOK, OutboxEnds, SpawnWorkers, ConsumerEnds, seedVars, laneVars, stopVars
  <1>2. CASE Signal
    BY <1>0, <1>2 DEF TypeOK, Signal, seedVars, laneVars, workerVars, stopVars
  <1>3. CASE OtherSeeds
    BY <1>0, <1>3 DEF TypeOK, OtherSeeds, laneVars, workerVars, stopVars
  <1>4. CASE StopperStep
    BY <1>0, <1>4
    DEF TypeOK, StopperStep, StopBegins, StopReturns, ShutdownReturns,
        seedVars, laneVars, workerVars, stopVars
  <1>5. CASE \E l \in Lanes : LaneWorkerEnds(l)
    BY <1>0, <1>5 DEF TypeOK, LaneWorkerEnds, seedVars, laneVars, stopVars
  <1> QED
    BY <1>1, <1>2, <1>3, <1>4, <1>5

\* main on its way to e.Start.
LEMMA StartUpKeeps ==
  ASSUME TypeOK, ProcessInv,
         \/ Setup \/ ConnectDatabase \/ ConnectRedis \/ NewProducer
         \/ FindSeed \/ InsertSeed \/ RereadSeed \/ Register \/ Start
  PROVE  ProcessInv'
  <1> USE DEF seedVars, laneVars, workerVars, stopVars, Starting, Closing
  <1>1. CASE Setup \/ ConnectDatabase \/ ConnectRedis \/ NewProducer
    BY <1>1
    DEF Setup, ConnectDatabase, ConnectRedis, NewProducer, Open, TypeOK, ProcessInv,
        StartsAlone, OpensInOrder, ClosesLast, WaitDone, ConsumerOutlivesLanes, LanesDone,
        RereadFindsRow, SeedIsFound, LanesSized, LanesRun, Stores
  <1>2. CASE FindSeed \/ InsertSeed \/ RereadSeed
    BY <1>2
    DEF FindSeed, InsertSeed, InsertSkipped, RereadSeed, Seeded, TypeOK, ProcessInv,
        StartsAlone, OpensInOrder, ClosesLast, WaitDone, ConsumerOutlivesLanes, LanesDone,
        RereadFindsRow, SeedIsFound, LanesSized, LanesRun
  <1>3. CASE Register
    BY <1>3, RegisterSizes
    DEF Register, ProcessInv, StartsAlone, OpensInOrder, ClosesLast, WaitDone,
        ConsumerOutlivesLanes, LanesDone, RereadFindsRow, SeedIsFound, LanesSized,
        LanesRun
  <1>4. CASE Start
    BY <1>4
    DEF Start, ProcessInv, StartsAlone, OpensInOrder, ClosesLast, WaitDone,
        ConsumerOutlivesLanes, LanesDone, RereadFindsRow, SeedIsFound, LanesSized, LanesRun
  <1> QED
    BY <1>1, <1>2, <1>3, <1>4

\* main from e.Start to the end of the process.
LEMMA ServeKeeps ==
  ASSUME TypeOK, ProcessInv, Listen \/ ServeReturns \/ DeferredCloses
  PROVE  ProcessInv'
  <1> USE DEF seedVars, laneVars, workerVars, stopVars, Starting, Closing
  <1>1. StartsAlone' /\ OpensInOrder'
    BY DEF Listen, ServeReturns, DeferredCloses, Close, ProcessInv, StartsAlone,
           OpensInOrder
  <1>2. ClosesLast'
    BY DEF Listen, ServeReturns, DeferredCloses, Close, TypeOK, ProcessInv, ClosesLast,
           WaitDone
  <1>3. /\ ConsumerOutlivesLanes' /\ RereadFindsRow' /\ SeedIsFound' /\ LanesSized'
        /\ LanesRun'
    BY DEF Listen, ServeReturns, DeferredCloses, Close, ProcessInv, ConsumerOutlivesLanes,
           LanesDone, RereadFindsRow, SeedIsFound, LanesSized, LanesRun
  <1> QED
    BY <1>1, <1>2, <1>3 DEF ProcessInv

\* The workers, the signal and the other instances.
LEMMA WorkersKeep ==
  ASSUME TypeOK, ProcessInv,
         \/ OutboxEnds \/ SpawnWorkers \/ ConsumerEnds
         \/ \E l \in Lanes : LaneWorkerEnds(l)
         \/ Signal \/ OtherSeeds
  PROVE  ProcessInv'
  <1> USE DEF seedVars, laneVars, workerVars, stopVars
  <1>1. StartsAlone' /\ OpensInOrder' /\ SeedIsFound' /\ LanesSized'
    BY DEF OutboxEnds, SpawnWorkers, ConsumerEnds, LaneWorkerEnds, Signal, OtherSeeds,
           ProcessInv, StartsAlone, OpensInOrder, SeedIsFound, LanesSized
  <1>2. ClosesLast'
    BY DEF OutboxEnds, SpawnWorkers, ConsumerEnds, LaneWorkerEnds, Signal, OtherSeeds,
           ProcessInv, ClosesLast, WaitDone
  <1>3. ConsumerOutlivesLanes'
    BY DEF OutboxEnds, SpawnWorkers, ConsumerEnds, LaneWorkerEnds, Signal, OtherSeeds,
           TypeOK, ProcessInv, ConsumerOutlivesLanes, LanesDone
  <1>4. RereadFindsRow'
    BY DEF OutboxEnds, SpawnWorkers, ConsumerEnds, LaneWorkerEnds, Signal, OtherSeeds,
           TypeOK, ProcessInv, RereadFindsRow
  <1>5. LanesRun'
    BY DEF OutboxEnds, SpawnWorkers, ConsumerEnds, LaneWorkerEnds, Signal, OtherSeeds,
           ProcessInv, LanesRun
  <1> QED
    BY <1>1, <1>2, <1>3, <1>4, <1>5 DEF ProcessInv

\* The shutdown goroutine: it closes the listener after Runtime.Stop.
LEMMA StopperKeeps ==
  ASSUME TypeOK, ProcessInv, StopperStep
  PROVE  ProcessInv'
  <1> USE DEF seedVars, laneVars, workerVars, stopVars
  <1>1. StartsAlone' /\ OpensInOrder'
    BY DEF StopperStep, StopBegins, StopReturns, ShutdownReturns, ProcessInv,
           StartsAlone, OpensInOrder
  <1>2. ClosesLast'
    BY DEF StopperStep, StopBegins, StopReturns, ShutdownReturns, ProcessInv, ClosesLast,
           WaitDone
  <1>3. /\ ConsumerOutlivesLanes' /\ RereadFindsRow' /\ SeedIsFound' /\ LanesSized'
        /\ LanesRun'
    BY DEF StopperStep, StopBegins, StopReturns, ShutdownReturns, ProcessInv,
           ConsumerOutlivesLanes, LanesDone, RereadFindsRow, SeedIsFound, LanesSized,
           LanesRun
  <1> QED
    BY <1>1, <1>2, <1>3 DEF ProcessInv

\* A handler's step.
LEMMA HandleKeeps ==
  ASSUME IndInv, NEW r \in Reqs, Handle(r)
  PROVE  IndInv'
  <1> USE DEF seedVars, laneVars, workerVars, stopVars
  <1>1. (\E k \in RequestKinds : Receive(r, k)) \/ Execute(r) \/ Reply(r)
    BY DEF Handle
  <1>2. AnswersSoFar' /\ OneTrueAnswer' /\ HandlersTypeOK'
    BY <1>1, HandlersTyped, HandlersTruthful DEF IndInv, TypeOK
  <1>3. TypeOK'
    BY <1>2 DEF Handle, IndInv, TypeOK
  <1>4. ProcessInv'
    BY DEF Handle, IndInv, ProcessInv, StartsAlone, OpensInOrder, ClosesLast, WaitDone,
           ConsumerOutlivesLanes, LanesDone, RereadFindsRow, SeedIsFound, LanesSized,
           LanesRun
  <1> QED
    BY <1>2, <1>3, <1>4 DEF IndInv

\* The invariant holds when the process starts.
LEMMA InitHolds ==
  ASSUME Init
  PROVE  IndInv
  <1>1. HandlersTypeOK
    BY DEF Init, HandlersInit, HandlersTypeOK, NoRequest, RequestKinds, Routes, Outcomes
  <1>2. requested \in [Lanes -> Nat \ {0}]
    BY SettingsAreNumbers DEF Init
  <1>3. TypeOK
    BY <1>1, <1>2 DEF Init, TypeOK, MainPC
  <1>4. ProcessInv
    BY DEF Init, ProcessInv, StartsAlone, OpensInOrder, ClosesLast, ConsumerOutlivesLanes,
           RereadFindsRow, SeedIsFound, LanesSized, LanesRun, Closing
  <1>5. AnswersSoFar /\ OneTrueAnswer
    BY DEF Init, HandlersInit, AnswersSoFar, OneTrueAnswer
  <1> QED
    BY <1>3, <1>4, <1>5 DEF IndInv

\* No step breaks it.
LEMMA StepKeeps ==
  ASSUME IndInv, [Next]_vars
  PROVE  IndInv'
  <1>1. CASE MainStep
    <2>1. UNCHANGED handlerVars
      BY <1>1 DEF MainStep, Setup, ConnectDatabase, ConnectRedis, NewProducer, Open,
             FindSeed, InsertSeed, RereadSeed, Register, Start, Listen, ServeReturns,
             DeferredCloses, Close
    <2>2. ProcessInv'
      BY <1>1, StartUpKeeps, ServeKeeps DEF IndInv, MainStep
    <2> QED
      BY <1>1, <2>1, <2>2, MainTyped, HandlersUntouched DEF IndInv
  <1>2. CASE \/ OutboxEnds \/ SpawnWorkers \/ ConsumerEnds
             \/ \E l \in Lanes : LaneWorkerEnds(l)
             \/ Signal \/ StopperStep \/ OtherSeeds
    <2>1. UNCHANGED handlerVars
      BY <1>2 DEF OutboxEnds, SpawnWorkers, ConsumerEnds, LaneWorkerEnds, Signal,
             StopperStep, StopBegins, StopReturns, ShutdownReturns, OtherSeeds
    <2>2. ProcessInv'
      BY <1>2, WorkersKeep, StopperKeeps DEF IndInv
    <2> QED
      BY <1>2, <2>1, <2>2, OthersTyped, HandlersUntouched DEF IndInv
  <1>3. CASE UNCHANGED vars
    <2>1. TypeOK' /\ AnswersSoFar' /\ OneTrueAnswer'
      BY <1>3, HandlersUntouched
      DEF IndInv, TypeOK, HandlersTypeOK, vars, handlerVars, seedVars, laneVars,
          workerVars, stopVars
    <2>2. ProcessInv'
      BY <1>3
      DEF IndInv, vars, seedVars, laneVars, workerVars, stopVars, ProcessInv, StartsAlone,
          OpensInOrder, ClosesLast, WaitDone, ConsumerOutlivesLanes, LanesDone,
          RereadFindsRow, SeedIsFound, LanesSized, LanesRun
    <2> QED
      BY <2>1, <2>2 DEF IndInv
  <1> QED
    BY <1>1, <1>2, <1>3, HandleKeeps DEF Next

-------------------------------------------------------------------------------
\* The inductive invariant is an invariant of the process.
THEOREM ServerInvariance == Spec => []IndInv
  BY InitHolds, StepKeeps, PTL DEF Spec

\* Every variable of the process has its type.
THEOREM ServerTypeCorrect == Spec => []TypeOK
  <1>1. IndInv => TypeOK
    BY DEF IndInv
  <1> QED
    BY <1>1, ServerInvariance, PTL

\* No database, Redis or Kafka client is closed under a running worker, unless
\* Runtime.Stop gave up waiting for it.
THEOREM StoresOutlive == Spec => []StoresOutliveWorkers
  <1>1. IndInv => StoresOutliveWorkers
    BY DEF IndInv, ProcessInv, OpensInOrder, ClosesLast, WaitDone, ConsumerOutlivesLanes,
           LanesDone, StoresOutliveWorkers
  <1> QED
    BY <1>1, ServerInvariance, PTL

\* EnsureByName returns a user or an error, however many instances seed the
\* table at once.
THEOREM SeedsAreFound == Spec => []SeedIsFound
  <1>1. IndInv => SeedIsFound
    BY DEF IndInv, ProcessInv
  <1> QED
    BY <1>1, ServerInvariance, PTL

\* Every lane has a worker until the signal, and no more than it has
\* partitions, for every setting and every partition count.
THEOREM LanesAreServed == Spec => []EveryLaneServed
  <1>1. IndInv => EveryLaneServed
    BY DEF IndInv, ProcessInv, LanesSized, LanesRun, EveryLaneServed
  <1> QED
    BY <1>1, ServerInvariance, PTL

\* A readable request gets one answer at most, and a true one, for any number
\* of concurrent requests and also while the process shuts down.
THEOREM AnswersAreTrue == Spec => []OneTrueAnswer
  <1>1. IndInv => OneTrueAnswer
    BY DEF IndInv
  <1> QED
    BY <1>1, ServerInvariance, PTL
===============================================================================
