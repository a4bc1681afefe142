# SMS gateway: TLA+ models and proofs

The gateway takes SMS requests over HTTP, charges the user, stores the messages
with an outbox row each, publishes the outbox rows to Kafka and delivers the
records to an SMS provider. Several instances of the process run side by side
over one PostgreSQL, one Redis and one Kafka; every instance runs all the parts.
This directory models the parts that hold or change shared state, checks them
with TLC and proves the central safety properties with TLAPS.

## 1. The system

| Part | State | Operations | Talks to |
|---|---|---|---|
| `usecase.go`: Send | none of its own; a transaction while it runs | idempotency lookup (Redis, then PostgreSQL), `persistSend`, wait after a conflict | `repo.go`, `redis_store.go`, `plan.go` |
| `redis_store.go` | one entry per user and idempotency key, 24 h | get (with hash comparison), set | Redis |
| `plan.go` | local | one pass over the recipients: payable, rejected, skipped | called by Send |
| `repo.go` | `users.balance`, `requests`, `messages`, `outbox_events` | one SQL statement or transaction per method | PostgreSQL |
| `worker.go`: outbox worker | the batch it has claimed | claim, publish, mark, record a failure, dead-letter and finalize | `repo.go`, Kafka |
| `consumer.go`: SMS consumers, two lanes | reader position, record being processed, attempt number | fetch, claim the message, call the provider, mark, DLQ, commit | `repo.go`, Kafka, provider |
| `utils/kafka` | partitions, committed offsets (in the broker) | publish, publish to the DLQ, fetch, commit | Kafka |
| `internal/user` | `users.balance` | add balance, get, seed a user at start-up | `repo.go` of its own |
| `handler.go`, `dto.go`, `utils/response` | none | bind, validate, call the use case, write the answer | `usecase.go`, `internal/user` |
| `cmd/api`, `register.go`, `utils/config` | goroutines, open clients, timers | open the stores, seed, size the lanes, start, listen, stop, close | everything |

What is hard: nothing is held across two statements except the row lock of
`persistSend`, so workers and consumers of all instances interleave between any
two database or Kafka calls; claims expire by time (one minute for an outbox
row, two for a message) whether or not their holder is still at work; an error
does not say whether the call took effect (Publish, Commit, every UPDATE); Kafka
delivers records again after a rebalance; a process may die anywhere. Within one
process, main, the shutdown goroutine, the workers and the handlers end in an
order that only a wait group, two timers and the return of `e.Start` decide.

What makes each part correct:

* money: what a user paid in is the balance plus the price of the messages that
  were accepted and not refunded; a refund happens once and only for a message
  that is over;
* outbox: a row marked published was written; the number of copies is bounded;
  every row settles; settled rows stay settled;
* consumers: a message marked sent was accepted by the provider; one sender at a
  time; a committed record is dealt with; every message settles;
* DLQ: nothing is reported before it is over;
* Send: an idempotency key is executed and paid for once, every successful
  answer is the result of that execution, the cache knows nothing that was not
  committed, no call waits for ever;
* planning: the valid recipients in order, cut where the money ends;
* HTTP: a request gets one answer, and the answer is true;
* process: each lane has workers; a signal ends the process; nothing is closed
  under a worker or a request that has not been given up.

## 2. Modules

```
Repo ── Broker ─┬─ OutboxWorker ─┐
                └─ SMSConsumer ──┴─ Delivery ── MCDelivery
                                      │  └─ DeliveryProofs ── InvariantProofs ─┬─ LedgerProofs
                                      │                                        └─ OutboxProofs ── ConsumerProofs
                                      └─ implements Ledger
Send (implements IdempotentSend) ─┬─ MCSend         PlanSend ─┬─ MCPlanSend
                                  └─ SendProofs               └─ PlanProofs
Handlers ── Server ─┬─ MCServer
                    └─ ServerProofs
```

* **Repo** holds the tables as functions of the message id (a message and its
  outbox row are inserted together and share the id here) and one operator per
  statement of `repo.go`, with its WHERE clause as condition. Timestamps are
  reduced to "older than the limit" (`obAged`, `msgAged`), which
  `OutboxClaimAges` and `MessageClaimAges` set. `refunded` and `deposited` are
  history variables. `PersistSend` is the whole ingress transaction.
* **Broker** is Kafka as the code uses it: a log and a committed offset per
  partition, and the DLQ as a set. It never loses a record, and one Publish
  writes one record. Kafka is external to the repository.
* **OutboxWorker** is `ProcessOnce` and `deadLetter`: claim (`SKIP LOCKED`,
  express first, `LIMIT`), publish, then mark, record the failure, or dead-letter
  and finalize. `events[w][m]` is the attempts value the claim returned, which is
  what the code compares later. Every statement and every Kafka call is a step.
* **SMSConsumer** is `runWorker` and `Process`: fetch, claim, up to
  `maxProviderAttempts` provider calls, mark, DLQ, commit. On an error the loop
  goes on with the next record, as in the code. Rebalances reset the read
  positions to the committed offsets.
* **Delivery** composes the two over the shared tables and the log, with
  requests, deposits, time, and crashes of whole instances. It states the
  properties.
* **Ledger** is the abstract specification of the money: charge, refund, deposit.
* **Send** opens up `persistSend`: cache lookup, SELECT, row lock, plan and
  debit, insert with its unique key, commit, cache write, and the wait after a
  conflict, for concurrent calls. **IdempotentSend** is its abstract contract.
* **PlanSend** is the loop of `planSend` with `planOne` as its three branches,
  and the reference it is compared with: a recipient is accepted when it is valid
  and the balance pays for it after all valid recipients before it.
* **Handlers** is what the four kinds of handler do with a request: what PathID,
  Bind and validate write, whether the use case is called, what it returns and
  what is written then. A request is reduced to three questions (is the path id
  accepted, does the body bind, do the bound fields validate). `bodies[r]` keeps
  every body that was written, because Bind and PathID return nil after writing
  a 400 and the handler goes on.
* **Server** is one process: main with its set-up calls and deferred closes,
  `EnsureByName` statement by statement next to other instances, the sizing of
  the lanes (`envInt`, `PartitionCount`, `CapWorkers`), `Runtime.Start` and
  `Stop`, the shutdown goroutine and the return of `e.Start`. Workers and
  handlers may end, or hang; what the workers do is in Delivery.

Errors, crashes, rebalances and delays are *faults*: `FaultKinds` says which may
happen, `MaxFaults` how many. Two delays are told apart, because the code limits
them with two constants: a `stall` lets the claim on an outbox row pass
`outboxClaimStaleAfter` while its worker is still at the batch, `slow` lets the
claim on a message pass `sendingStaleAfter` while its consumer is still sending.
Failures of the publisher and of the provider are
not counted as faults; they may happen at every call. An error of a database
call leaves its effect open where the caller goes on differently (the claim, the
finalize, the marks of the consumer, the commit of Send).

Operators named in a comment as *Mutant* are deliberate variations of the
definition that follows them; nothing uses them in the models.

## 3. Runs

| Run | Bounds | Shows |
|---|---|---|
| `outbox` | 2 workers, 2 messages in 2 lanes, batch 1, 2 attempts, 2 faults of crash, stall, database error | `PublishedIsInLog`, `CopiesBounded`, `ExhaustionIsEarned`, `OutboxSettles` |
| `delivery` | 1 message (paid for by a deposit), 2 instances with a consumer each, 2 attempts (so that copies of a record exist), 2 provider attempts, any 2 faults of crash, database error, cancellation, rebalance, lost commit, stalled batch | `TypeOK`, `LedgerBalanced`, `RefundedIsOver`, `ExhaustedLeavesNothingOpen`, `SentWasDelivered`, `DeadLetterIsEarned`, `ProviderCallsBounded`, `SingleSender`, `NeverReopened`, `SentIsFinal`, `ImplementsLedger` |
| `delivery_live` | 1 message with up to 2 copies of its record, 2 consumers, any 2 faults of rebalance, slow consumer, lost commit, foreign record (so that a later offset can be committed past an earlier one) | `CommittedIsHandled`, `ProviderCallsBounded`, `NeverReopened`, `EveryMessageSettles` |
| `send` | 5 calls: a retry, the key with another payload, another key, an unknown user; 1 credit, 1 fault | idempotency, cache, row lock, `ImplementsIdempotentSend`, `EveryCallReturns` |
| `plan` | up to 3 + 3 recipients, balances from -1 to 7 | `PlanIsReference`, `EveryRecipientAnswered` |
| `api` | 1 process, 1 request of any kind, 2 workers per lane wanted, one partition or no metadata, 1 seed row of another instance, a signal at any time | `OneTrueAnswer`, `StoresOutliveWorkers`, `SeedIsFound`, `EveryLaneServed`, `SignalEndsProcess` |

The bounds are the smallest in which every race of two happens: two workers on
one row through a stale claim, two copies of a record with two consumers, a
retry next to a conflicting payload. Two faults cover a failure and another one
during its recovery. Behaviours of the bounded models end when the messages are
used up, so deadlock is not an error there.

Requests of one process meet only in the database, which Send covers, so one
request is enough for `api`; two workers per lane are the fewest of which one
can end while the other hangs, and one partition the fewest that caps them.

`ExhaustionIsEarned` and `ProviderCallsBounded` say what a fault may cost: each
claim counts as an attempt before anything is published, so a crash, an error or
a stalled batch may take one of the `OUTBOX_MAX_ATTEMPTS` away, but nothing else
does; and a message is sent by one claim plus one more per fault, each with at
most `maxProviderAttempts` calls. Both compare a history variable (`tries`,
`calls`) with the number of faults.

`SingleSender` and `SentIsFinal` hold while no consumer is slower than
`sendingStaleAfter`, whatever else fails, stalled outbox batches included;
`CommittedIsHandled` holds while no process dies and no database call fails or is
cancelled, slow consumers included. The runs say so by their faults, and the
theorems by their hypotheses. A slow consumer and the one that takes its message
over may both send it, which the code leaves to the provider's idempotency key
(README of the repository, "Provider idempotency"); `delivery_live` shows that
even then the calls are bounded and the message settles.

`EveryCallReturns` is about the row lock: each statement of `persistSend` may
fail, and only the deferred Rollback then lets the other calls and the credits of
the user go on.

Fairness: the outbox worker's ticker and the loops of the consumers go on as
long as the process lives, and a claim nobody works on grows old. `Outbox(w)`,
`Consume(c)` and the ageing of abandoned claims are weakly fair; nothing is
assumed of the publisher, the provider, the users or the faults. In Send a call
keeps running until it returns. In Server main and the shutdown goroutine are
weakly fair: the set-up calls and the closes come back, and the timers of Stop
and Shutdown fire. Workers and handlers get no fairness, so `SignalEndsProcess`
holds when they hang.

### What the documentation says and the code does not do

| Run | Statement | What happens |
|---|---|---|
| `exhausted_sent` | after the last attempt outbox and message are failed and refunded | Publish fails after the broker has the record; the worker fails and refunds the message, the consumer sends it and `MarkMessageSent` overwrites the status: sent, and free of charge |
| `skipped_record` | an in-flight record is not committed and is delivered again | the loop goes on with the next record, whose commit passes the skipped one; if the holder dies the message stays in sending for ever |
| `recipient_order` | records of one recipient keep their order | two workers, or a retried publish, reverse them |
| `bad_request` | Bind answers 400 when the body is wrong | it does, and returns nil: the handler goes on with the fields that were bound, carries the request out and writes a second body |
| `low_balance` | a send by a low-balance user gets 402 (Postman collection) | `planSend` cuts the request down to what the balance pays for; it is answered as a success with the rest skipped, even if the balance is zero. The repository's README and its end-to-end test say the same as the code |
| `shutdown` | after the workers the HTTP server has five seconds to finish | `e.Start` returns as soon as Shutdown begins; main closes the stores and exits under the requests in progress |

For `bad_request` an add-balance body, which has one field, has to repeat its key
to leave a valid amount bound; a send body needs one ill-typed field. PathID
returns nil after a 400 as well, but with id 0, which no user has.

The Postman collection and `docs/swagger.yaml` also list other prices (50, 20 and
30) than `smsCost` and the README (1 for every message). No property depends on
the number: the models use `smsCost`.

## 4. Proofs

Every safety property a passing run checks, both refinements and the two action
properties are also theorems: they hold for every number of users, messages,
instances, consumers, partitions, calls, requests, workers and faults, under the
named assumptions of the modules. These ask that message ids are positive and
finitely many, that consumers are finitely many, that owners, topics, keys and
payloads are total functions, that initial balances are natural numbers, that a
partition belongs to the topic of its messages, and that the attempts and the
batch size are positive; the worker settings and the balance `planSend` reads
may be any integers.

| Module | Theorems |
|---|---|
| `DeliveryProofs` | **TypeCorrect** |
| `InvariantProofs` | **Invariance**, **RefundsAreFinal**, **NoExhaustedMessageOpen**, **PublishedRecordsExist**, **SentMessagesDelivered**, **DeadLettersEarned**, **SettledStaysSettled** |
| `LedgerProofs` | **MoneyConserved**, **GatewayImplementsLedger** |
| `OutboxProofs` | **CountInvariance**, **CopiesAreBounded**, **ExhaustionEarned** |
| `ConsumerProofs` | **OneSenderAtATime**, **SentStaysSent**, **ProviderCallsAreBounded**, **CommittedRecordsHandled** |
| `SendProofs` | **SendInvariance**, **SendTypeCorrect**, **KeysExecutedOnce**, **CacheIsCoherent**, **PlansAreCurrent**, **FirstPollsSucceed**, **SendImplementsContract** |
| `PlanProofs` | **PlanInvariance**, **PlanTypeCorrect**, **PlanMatchesReference**, **RecipientsAnswered** |
| `ServerProofs` | **ServerInvariance**, **ServerTypeCorrect**, **StoresOutlive**, **SeedsAreFound**, **LanesAreServed**, **AnswersAreTrue** |

**Delivery.** None of the promises is inductive by itself: that a row is marked
only when its record is in the log depends on what the worker did two steps
earlier, while others changed the row. `IndInv` adds what the processes remember:
`WorkersRemember` (the batch holds existing rows with attempts that were
counted; before a mark the record is in the log; before a finalize the attempts
are used up), `ConsumersRemember` (before `MarkMessageSent` the provider has
accepted; before the DLQ the message is settled) and `RowsTogether`. The
argument: every step does one of the things `TableChange` lists to the tables
(lemma `TableChanges`); whatever it does, rows stay, attempts do not shrink and
settled stays settled (`StepMonotone`), and the log and the provider forget
nothing (`LogGrows`); so what one process remembers is stable under the steps of
all others, and each promise follows from the one statement that can touch it.
The money adds that a finalize which settles a message finds it charged and not
refunded, because of `RefundedIsOver`. That balances stay natural numbers rests
on the guard of `PersistSend`.

**Counting in the outbox.** The attempts value a claim returns numbers the
claims of a row. `ClaimsApart` says that a number is in one worker's memory at
most. `Counted` keeps the account: copies in the log are at most the tries,
tries at most the claims that are used (`Used`), and the used claims together
with the ones overtaken by a later claim (`Overtaken`) are at most the tries plus
the faults. A step moves a claim number from one set to another, so the proofs
compare cardinalities of sets that differ by one element. `CopiesBounded` is the
first half of the account, `ExhaustionIsEarned` the second.

**Consumers.** Three arguments on top of `IndInv`.

* One sender: `HeldIsProtected` says that the row of a message some consumer is
  sending is in sending and not old, or failed, so nobody else can claim it. A
  claim grows old under its holder only if the holder is slow, hence the
  hypothesis `"slow" \notin FaultKinds`: no consumer works on a message longer than
  `sendingStaleAfter`. Crashes, errors, cancellations, rebalances
  and stalled outbox batches are allowed.
* Provider calls, without hypothesis: `CallsBudgeted` gives each message
  `maxProviderAttempts` calls, and as many again per fault, and compares them
  with the calls made, the calls its running claims may still make (`Slots`) and
  the calls of a claim that is possible now or later (`NextClaim`). A message can
  be claimed again only after a fault, which pays for the new round.
* Committed records: `OrderInv` says that the read positions and the
  committed offsets lie within the log (`PositionsInLog`), that a partition has
  one reader (`GroupsApart`), that what a consumer holds is the next record of
  the log (`Job`), and that behind a read position every record is handled or is
  the one being read (`ReadersInOrder`). Since the loop leaves a record behind after
  an error, this needs `FaultKinds \cap {"crash", "db", "cancel"} = {}`; the run
  `skipped_record` shows what happens otherwise.

**Send.** The row lock carries the proof. `TxHoldsLock` and `LockIsTx` say that
the transactions past `GetBalanceForUpdate` are exactly the holders of the rows;
so the balance a transaction has read stays true, and so does the absence of a
row it has checked (`KeyStillFree`) until it commits. `ResultIsStored` and
`CacheCoherent` are stable because rows are never deleted. Two
facts about the code came out: the conditional UPDATE of `DebitBalance` cannot
refuse after `planSend` (a step of `CallStepKeeps`), and the poll after a unique
violation succeeds the first time (`NeverPollsAgain`), so the repetitions of
`waitIdempotentFromDB` are spare. The refinement maps each step of a call to a step of `IdempotentSend` or to stuttering.

**Planning.** The properties speak of the end of the loop; `PlanInv` says the
same of the recipients handled so far. `FirstValid` makes it inductive: while
money is left the accepted recipients are *all* valid ones seen, so comparing
their number with `affordable` decides as the reference does. The reference is
written with sets and cardinalities, so no induction over the request is needed.

**Server.** The stores are closed after `e.Start` returns, which is after the
listener was closed, which is after `Runtime.Stop` returned, which is after the
goroutines ended or Stop gave up: `OpensInOrder`, `ClosesLast` and
`ConsumerOutlivesLanes` are the links. `LanesSized` and `LanesRun` are about the
workers, `RereadFindsRow` about the seeding race. `AnswersSoFar` is about each
request while its handler runs; the steps of the others leave it alone.

Only model-checked: the liveness properties `OutboxSettles`,
`EveryMessageSettles`, `EveryCallReturns` and `SignalEndsProcess`. They depend on
fairness, which the proof system cannot reason about.

## 5. Not modelled

* The texts: which bodies bind and which fields validate, the shape of the
  response bodies, templates and mobile numbers, topic names, addresses. What
  the code decides on them is a parameter of the models.
* Metrics, spans, middlewares, `/health`, the API documentation and the stress
  script: nothing reads what they write.
* Loss of acknowledged records by Kafka (`RequireOne`), and copies a Kafka
  client makes by retrying inside one Publish.
* The provider's own deduplication (`LogSender` keeps one per process), the
  lengths of backoffs, int64 overflow of balances.
* A steady load of express rows, which could keep normal rows from being
  claimed: the messages of a behaviour are finitely many.
* `MarkOutboxFailed` (no caller). `ListMessages` and `GetByID` only read and are
  reduced to their outcomes; so are the validate functions, and `otelx.Setup`,
  which succeeds or ends the process.
* Request rows without a hash or without a response: `loadIdempotentFromDB`
  exempts the former from the comparison and ignores the latter, but no code
  writes such a row (`payloadHash` is never empty, and the response is stored in
  the transaction that inserts the row).
* The number of seed users. Two instances that start at once may both insert one
  (a behaviour of Server); the comment on `EnsureByName` promises no
  duplicate for names that differ in case only, and the first row by id is used.

## 6. Plan

1. Safety parts of the liveness properties that a proof can reach: for
   `SignalEndsProcess` that each step of the shutdown goes forward, for
   `EveryMessageSettles` that an open message is always in a row somebody can
   claim, a record somebody will read, or somebody's hands.
2. The link between PlanSend and the operator `Plan` of Send (the number of
   accepted recipients is the smaller of the valid ones and the affordable
   ones), which each module now states for itself.
