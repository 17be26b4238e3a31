# TLA+ verification of the transaction orchestrator

TLA+ models of the saga engine in this repository, TLC runs that check them on
small instances, and TLAPS proofs of their main safety properties for every
instance. `PROJECT.json` is the machine-readable index: components, runs,
mutants, the map from definitions to source lines, findings, hazards, theorems.

- [The system](#the-system) – inventory
- [Modules](#modules) – which module models what, and how
- [Runs](#runs) – what each configuration checks and shows
- [Bounds](#bounds) and [fairness](#fairness)
- [Proofs](#proofs)
- [Where the code departs from its documentation](#where-the-code-departs-from-its-documentation)
- [Limits](#limits) and [plan](#plan)

## The system

The orchestrator takes a crypto purchase through six steps, each a call to a
partner service: POLICY, PAYMENT, KYT, MPC_SIGN, BROADCAST, LEDGER. State is
durable in Postgres; several replicas of the process run at the same time.

| Component | State it keeps | Operations | Talks to |
|---|---|---|---|
| State machine (`internal/statemachine`) | none (tables) | `Transition`, `StepAfter`, `StateForStep` | executor, store |
| Executor (`internal/saga/saga.go`) | locals of one `Run` or one cascade: loaded transaction, loaded saga, attempt, position of the cascade | `Run`, `runStepWithRetry`, `runStepOnce`, `persistTerminal`, `advanceToConfirmed`, `persistConfirmedInline`, `compensateCascade` | store, steps, lease |
| Steps (`internal/saga/*_step.go`) | none; results go into the saga payload | `Execute`, `Compensate` | partner services |
| Store (`internal/store/pg.go`) | `transactions`, `saga_state`, `transaction_steps`, `outbox_events` | versioned updates inside serializable SQL transactions, claims with SKIP LOCKED | Postgres |
| In-memory store (`internal/store/store.go`) | the same rows in maps and slices under one mutex | the same methods; `RunInTx` without isolation or rollback | DEV_MODE, `orchctl replay` |
| Dispatcher and Control (`internal/worker`) | one bounded channel per worker | `Submit`, `Recover`, `Start`, `Stop`, `Retry`, `Compensate` | executor, store |
| API (`internal/api`, `internal/authtoken`, `internal/quotelocker`) | the requests under way | create, get, retry, compensate, behind a token that expires | store, Control |
| Lease (`internal/lease`) | one Redis key per transaction, one renewer goroutine per holder; or a map under a mutex | `Acquire`, release | Redis |
| Outbox relay and publisher (`internal/outbox`) | the batch it works on | `drainOnce` | store, Kafka |
| Confirmation poller (`internal/saga/confirm_poller.go`) | the saga it loaded | polls and saves CONFIRMED | store, blockchain; nothing starts it |
| Process (`cmd/orchestrator`, `internal/config`, `internal/grpcclient`, `internal/migrations`, `cmd/migrate`) | what is open, which goroutines run, which partners are stubs | start, serve, stop | all of the above |
| `orchctl` | none | retry, compensate (over HTTP), replay | API, store |
| Partner messages, logging, generated stubs | – | – | – |

What is hard here, and what makes each part correct:

* **Executor.** The saga and the transaction are loaded before the lease is
  taken and used over many calls; two replicas, or a replica and an operator,
  may drive the same saga; a process may die between a partner's answer and the
  SQL transaction that records it; Commit may succeed and report an error.
  Correct means: no recorded result is overwritten, nothing acts ahead of the
  record it depends on, one event per transition, a step that is skipped was
  done.
* **Steps and compensation.** A partner may carry out a call and lose the
  reply. Correct means: whatever was captured is given back when the saga says
  so, and what is on chain is not silently refunded.
* **Lease.** The key expires by itself, and every decision about it takes two
  Redis calls. Correct means: one holder, which keeps the lease as long as its
  step takes, and no lock-out after a crash.
* **Dispatcher.** Bounded channels are filled before anybody reads from them.
  Correct means: no saga is dropped, none runs twice at once, startup ends.
* **API.** An answer may be lost or a commit not acknowledged; a handler waits
  for room in a channel; a token dies on the way. Correct means: an answer is
  true, an accepted retry is honoured, and every request is answered.
* **Readers.** `GET` reads three tables one after the other and the poller saves
  from a row it loaded earlier, while the executor moves on. Correct means: what
  a client is shown fits together, and what the poller reports has happened.
* **Process.** Each missing setting makes it exit, go on without a part, or use
  a stub; a shutdown takes things away while goroutines use them. Correct means:
  production never runs on a stub that has a real counterpart, start and stop
  come to an end, nothing is used after it is closed.
* **In-memory store.** The calls of one `RunInTx` interleave with those of
  others and stay when a later one fails. Correct means: the versions and the
  order of the writes still protect the saga and its events.
* **Relay.** Claim, publish and mark are three separate transactions. Correct
  means: no event twice, none marked that was not sent, all delivered, in order.

The `hazards` list in `PROJECT.json` gives each of these at the line where it
bites, with the properties that would catch it going wrong.

## Modules

```
StateMachine <- SagaStore <- SagaExecutor <- SagaProperties <- MCSagaExecutor
                                                |   ^   ^
              SagaLifecycle  <-- INSTANCE ------+   |   +--- SagaClients <- MCSagaClients
                                                    |                |
                              SagaExecutor_proofs --+                |
                                   ^                                 |
                              SagaRecords_proofs (also EXTENDS ------+)
                                   ^
                              SagaSolo_proofs
Dispatcher    <- MCDispatcher
Dispatcher    <- Api <- Api_proofs, MCApi
Dispatcher    <- Process <- Process_proofs, MCProcess
InMemoryLease <-- INSTANCE -- RedisLease <- RedisLease_proofs, MCRedisLease
OutboxRelay   <- OutboxRelay_proofs, MCOutboxRelay
MemStore      <- MemStore_proofs, MCMemStore
```

**StateMachine** holds the tables of `statemachine.go`, `validatePath`, and the
keys each step merges into the payload. A payload is the set of its keys: no
property depends on the values. Keys nobody reads (`in_mempool`, `confirmed`)
are left out.

**SagaStore** holds the rows of one transaction (every operation of the
executor touches the rows of one `tx_id`) and the two kinds of SQL transaction
the executor uses. *Strict* ones return every error: they commit only if both
compare-and-swaps match and the event's dedup key is new. *Lax* ones ignore the
errors of their writes (`persistTerminal`, the end of `compensateCascade`): each
write applies or not on its own, and a duplicate dedup key aborts all of it,
because Postgres refuses to commit a transaction in which a statement failed.
A serialization failure of a lax transaction is the `"store"` fault; of a strict
one it is an error like any other.

**SagaExecutor** models `Run`, the six steps and the cascade for one
transaction, driven by any number of replicas and operator requests. An action
is one store call, one SQL transaction or one partner call; `pc` names the call
a process makes next, and between two calls anybody may act.

| Variable | Code |
|---|---|
| `snapTx`, `snap` | `tx` (its version) and `sg` as loaded by `Run`, `advanceToConfirmed`, `compensateCascade` |
| `att`, `idx` | the attempt of `runStepWithRetry`; the loop variable of `compensateCascade` |
| `lease` | holder of the transaction's lease; `Orphan` if the holder died |
| `queued`, `up` | the id waits in the dispatcher of a replica; the replica runs |
| `effects` | what partners have carried out, counted up to `EffectCap` |
| `crashes`, `requests`, `faults` | counters for the bounds |

`queued` is a Boolean although a channel may hold an id several times: a second
copy only makes `Run` be called again, which `Retry` may cause at any time. The
same transaction is always on the same worker of a replica (proved for
`Dispatcher`), so that a replica is one process here. The lease does not expire
while its holder lives; under which conditions that is so is the subject of
`RedisLease`. A graceful stop waits for running sagas; `Crash` is the other one.

**SagaLifecycle** is the abstract specification clients are promised: the state
follows the forward table or fails, status and event change with it, terminal
states are final. `SagaProperties` instantiates it with
`state <- saga.state, status <- tx.status, events <- Cardinality(outbox)`.

**OutboxRelay** models `drainOnce` of several relays. The lock that
`FOR UPDATE SKIP LOCKED` takes is the batch of a relay whose claim has not yet
committed; a claim may fail, or commit without the relay learning of it. Events
are numbered in the order of `created_at`; the bus is the sequence of messages
it accepted. Which Kafka partition a message goes to is external.

**RedisLease** models one key, its remaining time, and for each owner the
holder's side, the renewer goroutine and its ticker. Every Redis call is a step,
and `Tick` advances time between any two of them: between SET NX and its reply
(`Acquired`, which starts the renewer), between the renewer's GET and EXPIRE,
between release's GET and DEL. `Delay` is the longest that each of these takes
(`MayWait`); `late` counts it for the calls of the holder, the ticker itself for
those of the renewer. What the calls find when they arrive is not assumed: the key
may have expired and be somebody else's. `broken` marks a lease one of whose
renewals failed, or that the late release of such an owner has deleted.

**InMemoryLease** is the lease as the in-memory manager has it: acquire and
release are atomic and exclusive. It is also the abstract specification of a
lease, the one `SagaExecutor` is written against. `RedisLease` instantiates it
with `locks <- Holders`, the owners that have acquired the lease and neither
released it nor crashed, and whose lease is not `broken`: `AtomicLease` says that
every step of the Redis protocol, calls in between included, is a step of the atomic
lease or none.

**Dispatcher** models the startup order (scan, submit, start workers), the
channels, the workers, creation, retry and compensation of sagas by several
callers at a time, and restarts. What a run of a saga does is left to
`SagaExecutor`; here it ends the saga or it does not: `RunFails` is a run that returns
an error, and also one that returns nil over a saga that is not terminal (the errors
of the cascade's last write are ignored). To the dispatcher the two are the same.

**Api** puts the HTTP handlers in front of it. A caller sends a request with no
token or one that has some life left; time passes; `Middleware` compares; then
each handler goes on store call by store call to its answer. `known` and `lost`
record what a caller has been told, `buyer` what is in the store on its behalf.
A commit may be carried out without being acknowledged, and an answer may be
lost with the connection. `orchctl retry` and `compensate` are callers that send
no token.

**Process** models `run()` of `cmd/orchestrator` over a set of environments. The
main goroutine is a program counter through the startup calls, the wait for a
signal and the deferred calls in their order; the workers of `Dispatcher`, the
relay loop, the server and its handlers run beside it. A handler is accepted while the
server is up (`Accept`) and comes to its end later, by itself (`Handle`,
`HandleFails`, `Submits`): after a signal `srv.Shutdown` waits for it
(`ServerDrained`) or gives up (`ShutdownTimeout`, remembered in `forced`), and the
deferred calls then close things under it. `log.Fatal`, `os.Exit` and
a returned error are all `main = "exited"`. The process may be killed anywhere and
is launched again; an operator may drop and recreate the tables under it with
`cmd/migrate`. `grpc.NewClient` does not connect, so only the TLS files and a URL
that does not parse can make a dial fail.

**SagaClients** adds to the executor those who look at its rows: the
confirmation poller, which saves CONFIRMED in its place, and `handleGet`, which
makes three reads with anything in between.

**MemStore** models the in-memory store with the rows of one transaction and
the executor, cascades and relays as its callers. An action is one method call,
the unit the mutex protects; `RunInTx` is nothing but the sequence of its calls.
A saga is reduced to how many steps it has passed and whether it is open: which
step it is makes no difference to the store. After a conflict the executor tries
the next attempt with the same snapshot, as it does with Postgres; any error may also
be one that is not retriable, after which it gives up at once (`GiveUp`). A cascade
marks each step COMPENSATING, calls its `Compensate` and marks it again. The load and
the update of such a mark are one step here: what is written is the status alone,
whatever was loaded.

Definitions whose comment begins with *Defect* are variants of the one that
follows them, each with one plausible mistake. No specification uses them; they
exist to check that the properties can tell (`mutants` in `PROJECT.json`).

## Runs

| Run | Checks | Shows |
|---|---|---|
| `race` | `TypeOK`, `SnapshotCoherent`, `PayloadMatchesStep`, `EffectsFollowRecords`, `RecordsFollowEffects`, `SucceededIsPassed`, `OneEventPerStep`, `TransitionsHaveEvents`, `NoLostUpdate` | two replicas on one saga without a lease: versions alone keep rows, events and partner effects consistent |
| `operator` | `OneEventPerStep`, `NoLostUpdate` | the same against two compensate requests and retries; a request may be aborted half way, or a commit not be acknowledged |
| `solo` | `CaptureRefunded`, `RepeatsExplained`, `MonitoredRefund`, `LifecycleSpec` | one replica, one crash, two failures of any reported kind: it refines the promised life cycle, compensates what it has on record, and a partner acts twice only for a reason |
| `lease` | `SingleFlight` | two replicas, the lease, one crash: nobody else is inside a step |
| `termination` | `ReachesTerminal` | a saga ends in spite of a crash, failing partners, lost acknowledgements of Commit and a confirmation that does not come |
| `clients` | `PollerTruthful`, `ResponseCoherent` | poller and reader against a replica that fails, crashes and compensates |
| `relay` | `NoDoublePublish`, `PublishedIsOnBus`, `OvertakesOthersOnly`, `Settled` | two relays with crashes and failures of store and bus; a relay never overtakes itself; while nothing fails every event is published and marked |
| `redis_lease` | `HolderHasKey`, `AtomicLease`, `DeletesOwnKey`, `OrphansExpire` | three owners, a crash, any Redis call may fail, time passes between any two calls: it implements the atomic lease, and DEL finds the key that GET saw |
| `memstore` | `UniqueKeys`, `EventsFollowSaves`, `ClaimedOnce`, `SavesBuildOnRow` | two workers, an operator's cascade and two relays interleave call by call on the in-memory store |
| `api` | `OneWorkerPerTx`, `AnswersAreTrue`, `AcceptedFinishes`, `CallsAnswered` | two callers, three transactions, full channels, failing runs, a restart |
| `process` | `NoUseAfterClose`, `ProductionIsReal`, `LaunchEnds`, `StopsAfterSignal`, `RecoveredFinish` | launches, crashes and shutdowns in all the environments of `AllEnvs`, with handlers that outlive the server, full channels and a roll-back of the schema |
| `refund_after_broadcast` | `NoRefundOnceBroadcast` | TLC refutes it, see [below](#where-the-code-departs-from-its-documentation) |

What some of them show that is worth knowing:

* `RepeatsExplained`: a repeated partner call goes back to a failure, a crash or
  (for the ledger) to a transaction that is not confirmed yet: `LEDGER` posts and
  is then refused by `validatePath`, on every attempt.
* `ResponseCoherent` excepts answers given after the poller has confirmed: the
  executor's cascade then loses the saga row but still writes its failure as the
  status of the transaction, so a client may see FAILED over a saga that goes on.
* `AnswersAreTrue` says nothing of the answer to a compensate request: 202 is
  also given when the cascade lost the row to a worker and changed nothing, and
  409 also when it ended the saga in FAILED.
* `NoUseAfterClose` covers the operator's cascade, which runs in the goroutine of its
  handler, as long as `srv.Shutdown` waits for it. Its exception is the shutdown whose
  15 s are over: then pool and connections are closed under the handler
  (`HandlersKeepConnections` in `process_claims.cfg`, which TLC refutes).
* `LaunchEnds` is stated for launches whose in-flight sagas fit into the channels
  (`Fits`), and checked up to the last place: with one more, `Submit` blocks before any
  worker runs (`recovery_blocked`).
* `DeletesOwnKey` and the other lease properties need calls that are short compared to
  the TTL: see the assumption `Prompt` under [proofs](#the-other-components).
* `AcceptedFinishes` is what a created transaction depends on: nothing else
  submits it before the next start (`created_idle`).

`solo` leaves out the lost acknowledgement of Commit: with it a LEDGER step that
did complete the saga is retried, and a cascade may then leave COMPLETED
(`compensateCascade` checks no transition). `termination` includes it.

Deadlock is not checked in the runs of the executor, its clients, the relays, the
API, the process and the in-memory store: a finished saga, an empty outbox and an
idle or exited process may stay as they are. In `RedisLease` somebody can always act, and deadlock is checked.

### Bounds

* `MaxRetries = 2` is the least number with a retry; `operator` and `lease` use
  1, since what they ask does not depend on a second attempt.
* Two replicas and one operator with two requests: the writes of the executor
  conflict in pairs, and a third process repeats what the second can do. The
  theorems about the executor hold for any number.
* `MaxFaults = 2`, `MaxCrashes = 1`: one failure in a step and one in its
  compensation, and a crash anywhere.
* `EffectCap = 1` where a property asks whether a partner acted, 2 in the runs
  that ask whether it acted twice.
* Four events of two transactions and batches of two: a batch is split by a
  failure, several batches are in flight.
* `redis_lease`: `Delay = 1` is the least with time between two calls, and
  `HalfTTL = 4` the least for which `3 * Delay < HalfTTL`. With `HalfTTL = 3` TLC
  refutes `HolderHasKey`, so that the bound is tight. Three owners: one whose lease
  breaks, one that gets the key, one that the first one's late release lets in.
* `Concurrency = 2` with two sagas in one partition fills a channel exactly; the
  third one in `recovery_blocked` is one too many.
* `api`: two callers with `MaxCalls = 1` request each, so that every pair of
  requests races; `TokenLife = 1` has a token that is fresh, at its last second
  and expired; `MaxFails`, `MaxScanFails`, `MaxDbFails` and `MaxRestarts` of 1 allow one
  failure of each kind. `IdsLeft` keeps an unused id for every create request,
  as a UUID generator does.
* `process`: two sagas of one partition whose channel holds one (`Concurrency = 1`), so
  that a launch finds none, one that fills the channel, or too many, and a retry waits in
  `Submit`; one caller; 131 environments (`AllEnvs`: complete production,
  production without a secret, production with every kind of mistake, two kinds of
  stub mode); one second launch and one roll-back (`MaxDowns`).
* `race` has neither crash nor lost acknowledgement: with them it is beyond a routine
  run. `operator` has the lost acknowledgement, `solo` and `termination` have the crash,
  and the theorems about the executor have all of them.
* `clients`: one replica, `MaxRetries = 1`, one failure and one crash; one call of
  the poller and any number of reads.
* `memstore`: one step with two attempts, two workers, one cascade, two relays
  with batches of one. Sagas of two steps hold too but take longer than a
  routine run should; `no_rollback` uses two steps.
* `SYMMETRY` is used for the replicas in `race` and `lease` and for the workers
  and relays in `memstore`, which check invariants and an action property and no
  liveness.

### Fairness

* Executor: weak fairness of each replica's next call (every call has a
  timeout), of the restart of a crashed process (its supervisor) and of the
  expiry of an orphaned lease (Redis). No fairness of operators, of partners or
  of a particular outcome: `ReachesTerminal` holds even if the chain never
  confirms.
* Relay: weak fairness of `Drain` (the ticker of `Relay.loop`). None of appends.
* Lease: weak fairness of time, of the reply to SET NX and of the calls the renewer and
  release make; nobody has to acquire the lease or finish a step.
* Dispatcher and API: weak fairness of recovery, of each worker and of each
  handler; a run ends, which `termination` checks on the executor. Nobody has to
  send a request.
* Process: weak fairness of the main goroutine (which leaves `srv.Shutdown` at its
  deadline at the latest), the workers and the relay loop; none of handlers.
  Leaving the loop has strong fairness, for workers and relay: `select` chooses at
  random among the channels that are ready, so a closed stop channel is taken
  sooner or later even if there is always another id or tick. No fairness of
  signals, crashes, launches or requests.

## Proofs

All obligations are checked by TLAPS. Nothing is assumed but the named `ASSUME`s
on constants, which TLC evaluates in every run, and what a theorem states after
its own `ASSUME`. Every safety property of the passing runs - invariants, action
properties and refinements - is stated by a theorem.

The proofs share one plan. The actions of a component are first sorted into a few
*kinds of step* (a relation between a state and the next one), with one lemma per
group of actions; each part of the invariant is then preserved by every kind of
step, without another look at the actions.

### Executor, any sets of replicas and operators

`SagaExecutor_proofs`:

* `TypeCorrect: Spec => []TypeOK`. One lemma per group of actions; the delicate
  part is that `att` stays within `MAX_RETRIES`, and that the row saved after a
  success is well formed.
* `SnapshotsCoherent: Spec => []SnapshotCoherent` – a snapshot is the stored row
  or an older one with no more keys and no later step. Not inductive as it
  stands: after a process finishes its snapshot variables are reset to the
  initial row, so that one must know that version 1 is the initial row.
  `SnapshotInv` adds the types and `FirstVersion`. The frame lemma `NextFrame`
  reduces the actions to two cases: the row is unchanged, or one process saved a
  row derived from its own snapshot whose version is the stored one.
* `UpdatesKept: Spec => NoLostUpdate` – the action property follows from
  `SnapshotInv`: the process that saves has the current version, hence the
  current row, and what it derives keeps keys and order.
* `StepsSingleFlight: ASSUME LeaseOn PROVE Spec => []SingleFlight` – from
  `HolderInStep`: a replica inside a step holds the lease. Every other action
  leaves the lease alone and keeps its process out of the steps (`KeepsOut`).

`SagaRecords_proofs`: what is on record, and what partners have done. The theorems
`PayloadExact`, `EffectsAfterRecords`, `RecordsAreTrue`, `SkipsAreSafe`,
`EventsExact` and `TransitionsAnnounced` are parts of one inductive invariant,
`RecordInv`:

* `RowsWellFormed`: state, current step and payload of the stored row *and of every
  snapshot* agree. It is needed for snapshots because a stale process goes on
  calling partners with what it has.
* `InsideStep`: a process inside a step took its snapshot in a state that was not
  terminal, captures for PAYMENT only, and waits to persist only what its partner
  has carried out. This is what connects a save to the effect it records.
* The kinds of step (`RecordStep`): three SQL transactions write the saga row –
  success, confirmation, failure – each with its event; whatever else happens leaves
  the row, the step events and the SUCCEEDED rows alone. For the effects (`Acts`):
  a process has its partner act only when the earlier keys are in its snapshot,
  which `SnapshotCoherent` makes keys of the stored row.

`PollerIsTruthful: ClientsSpec => []PollerTruthful` adds `PollerInv`: the poller's row
is the stored one or an older version. Its save is a `SavesConfirmed` step, so
`RecordInv` holds with the poller at work too.

### Executor, one replica

`SagaSolo_proofs` assumes `Solo(r)`: one replica, no operator, and no commit that is
carried out and reported as failed. Each part is needed: with an operator
(`two_cascades.cfg`), or with a second replica in its place, TLC refutes
`CaptureRefunded` and `FailureIsFinal`, and a lost acknowledgement lets a cascade leave
COMPLETED. Everything else may fail, any number of times, and the replica may crash
and restart any number of times, with or without the lease.

* `SoloInv` says that what the worker holds *is* the stored row wherever it uses it
  (`Current`), so that every compare-and-swap matches; that nothing was announced
  before it happened (`Announced`), so that no dedup key is taken and no lax
  transaction aborts; how far the cascade has come and what it has therefore done
  (`Walk`); and that while nothing has failed a partner that has acted is about to be
  recorded (`Once`).
* `CapturesAreRefunded`, `RepeatsHaveReasons` and `RefundsAreMonitored` (an action
  property) follow from it.
* `ImplementsLifecycle: Spec => LifecycleSpec` is the refinement: the row, the
  status and the number of events start as the abstract ones do, and each kind of
  step is `Advance`, `Settle`, `Fail` or a stutter. That the number of events grows by
  one is where `Announced` is needed.
* `ResponsesFitTogether: ClientsSpec => ResponseCoherent`. `History`: steps on
  record are listed as over, and before the first crash as succeeded unless a cascade
  has begun, which is then the end of the saga. `Reading`: each read of `handleGet`
  finds the saga where the one before found it or further on. Both hold until the
  poller has answered nil (`GetInv`).

### The other components

**Relay** (`OutboxRelay_proofs`), any number of relays and events, any batch size:
`NeverPublishedTwice` and `MarksAreTrue`, from `RelayInv`: claims are disjoint;
rows of an uncommitted claim are PENDING and locked, of a committed one
INFLIGHT; what is on the bus is INFLIGHT or PUBLISHED and in no batch that will
still be published. `RelayKeepsOrder: Spec => OvertakesOthersOnly`, from `OrderInv`: events
of a transaction are appended in order; while nothing fails no claimed row is
forgotten, and whoever has an event has the earlier ones of its transaction, save
those on the bus or with another relay. The lemma under it is that
`ORDER BY created_at LIMIT n` never takes a row and leaves an older one.

**Lease** (`RedisLease_proofs`), any number of owners and any TTL:
`StepsKeepTheLease`, `LeaseIsExclusive`, `OnlyOwnKeyDeleted` and
`RedisImplementsAtomicLease` assume `Prompt == 3 * Delay < HalfTTL`: the time to
acquire, the time a wake-up takes and the time a release takes, one after the other, are
less than half a TTL. It says how fast calls are and nothing of what they find. They are
about owners whose lease is not `broken`; releases, other owners' renewals and processes
may fail as they like. The invariant `LeaseInv` is about time: `OwnerInv`, between SET NX
and DEL an owner that is not broken has the key, and time enough is left on it (`Slack`
relates that time to the ticker and to a wake-up that is pending); `RenewerInv`, only an
owner inside a step or in release has a renewer. What
makes it inductive is that a step of one owner leaves the others' alone
(`OthersKeepOwner`): their keys are not its own, so that its EXPIRE and DEL, which do
not look, cannot meet them unless it is itself broken; hence the ghost follows the damage
a broken owner does. In `OnlyOwnKeyDeleted` the case that matters is the clock moving
between GET and DEL: the key is the owner's until `HalfTTL - 2 * Delay` after the call of
release at least, and DEL arrives within `Delay`.
`RedisImplementsAtomicLease: ASSUME Prompt PROVE Spec => AtomicLease` is the refinement:
no owner holds the key initially, and each action leaves `Holders` alone, adds an
owner to an empty set, or removes one. That the set is empty when the reply to `SET NX`
arrives is where the invariant is needed. Without the restrictions TLC refutes
the claims (`lease_lost.cfg`, `foreign_delete.cfg`).

**Dispatcher and API** (`Api_proofs`), any partitioning, any number of callers:
`WorkersSingleFlight`, from `Routed`: an id is only in the channel and on the worker
of its partition. `ApiImplementsDispatcher`: every step of a handler is a step of
`Dispatcher` or leaves it alone, hence `ApiSingleFlight`. `ApiTellsTheTruth: ApiSpec =>
[]AnswersAreTrue`, from `ApiInv`: which request each stage serves (`CallShape`), a
request leaves its caller without an answer at most once (`LostCounted`), what a
refusal says (`RefusalsTrue`), and `BooksBalance`: what a caller has bought is what it
was told of and at most one transaction per lost answer. The set of callers is
assumed not to contain the value that stands for nobody (`Idle`).

**Process** (`Process_proofs`), any environments, workers, sagas and callers:
`ClosesLast: ProcessSpec => []NoUseAfterClose` and `NoStubInProduction: ProcessSpec =>
[]ProductionIsReal`, from `ProcessInv`: where the main goroutine stands says what is
open, which goroutines run, and what the checks of startup have let pass. Its part
`HandlersWithin` is about handlers: unless `srv.Shutdown` has run into its deadline, one is
at work only while the server is up or main waits in `srv.Shutdown`, before the first
deferred call.

**In-memory store** (`MemStore_proofs`), any number of workers, cascades and
relays, steps and attempts: `SavesAreKept: Spec => SavesBuildOnRow`, from
`RowInv`: a snapshot with the stored version is the stored row, and version 1 is
the row `CreateTx` inserted. `EventsAreTrue: Spec => []EventsFollowSaves`, from
`EventInv`: a worker between its save and its event has the saga past its step,
and `passed` never decreases by the first theorem's invariant. `KeysAreUnique` and
`ClaimsAreDisjoint`, from `KeyInv`: `InsertStep` and `AppendOutbox` look and append under
one lock, and a claim takes PENDING rows only.

### Only model-checked

Liveness: `ReachesTerminal`, `Settled`, `OrphansExpire`, `AcceptedFinishes`,
`CallsAnswered`, `LaunchEnds`, `StopsAfterSignal`, `RecoveredFinish`. It rests on
fairness and `ENABLED`, which the prover does not support.

## Where the code departs from its documentation

Each has a configuration in which TLC finds a behaviour of the code that
contradicts the quoted sentence. One is a run of the project (`findings` in
`PROJECT.json` has the lines): in `refund_after_broadcast` (`NoRefundOnceBroadcast`) a
transaction is not confirmed within one timeout, the LEDGER step can never save its
result from BROADCASTED, and the cascade refunds a transaction that is on chain.

The other configurations are kept to be run by hand
(`tlc -config <name>.cfg MC<Module>`); TLC refutes the property in each. Properties
of the same instance share a file, in which all but one are commented out:

| Configuration | Property | Sentence | What happens |
|---|---|---|---|
| `stuck` | `ReachesTerminal` | "Run drives the saga from the current saga state to a terminal state" (`saga.go:162`) | a failure event left by a cascade that lost the race makes every later cascade abort: the saga never ends |
| `relay_lost` | `Delivered` | "outbox relay guarantees delivery" (`README.md:73`) | one failed publish leaves the rest of the batch INFLIGHT for good |
| `lost_reply` | `BroadcastOnce` | "a tx is never broadcast twice" (`README.md:71`) | the reply to Broadcast is lost: the next attempt broadcasts again |
| `two_cascades` | `RefundOnce` | "`Refund` is called exactly once" (`PROJECT_PLAN.md:170`) | a second or repeated cascade refunds again: nothing records a refund before the cascade's last write |
| `completed_refunded` | `CompletedKeepsPayment` | "Atomic end-to-end transaction flow" (`README.md:44`) | the replica crashes in its cascade, after the refund; recovered, it completes the saga: COMPLETED and refunded |
| `lost_reply`, second | `CaptureGivenBack` | "if captured, refund payment" (`README.md:105`) | the reply to Capture is lost: only a void follows, FAILED_COMPENSATED keeps the money |
| `stray_authorization` | `NoStrayAuthorization` | "persist auth_id so compensate can void" (`payment_step.go:54`) | Capture and the void both fail: the auth_id is dropped with the error |
| `two_cascades`, fourth | `FailureIsFinal` | "terminal and cannot be left" (`statemachine.go:130`) | a second cascade replaces FAILED by FAILED_COMPENSATED or the reverse |
| `two_cascades`, second | `FailureEventsAreTrue` | "atomic state + event persistence" (`README.md:205`) | a cascade that loses the race still publishes its failure event |
| `two_cascades`, third | `CaptureRefunded` | "if captured, refund payment" (`README.md:105`) | an operator's cascade starts from a step read too early and misses the capture |
| `cascade_unleased` | `OneReplicaAtWork` | "Two orchestrator replicas cannot execute the same tx concurrently" (`PROJECT_PLAN.md:339`) | the lease is released before the cascade: another replica executes meanwhile |
| `relay_reordered` | `InOrder` | "consumers receive per-tx ordering" (`publisher.go:72`) | two relays publish a transaction's events out of order |
| `lease_lost` | `LeaseNeverLost` | "long-running steps do not lose the lease" (`redis.go:5`) | one failed GET ends the renewer: a long step loses the lease |
| `foreign_delete` | `DeletesOwnKey` | "Delete only if we still own the lease" (`redis.go:88`) | a process paused for longer than a TTL (`Delay = 4`, `HalfTTL = 2`): the key changes hands between GET and DEL of release |
| `recovery_blocked` | `RecoveryCompletes` | "Called on startup; must complete within 30s (enforced by ctx)" (`worker.go:92`) | more in-flight sagas in a partition than its channel holds: startup never ends |
| `recovery_skipped` | `InflightAlwaysFinish` | "no in-flight saga is lost on process crash" (`README.md:69`) | a failed recovery scan is logged and forgotten |
| `no_rollback` | `RollsBack` | "committing on nil and rolling back on error" (`store.go:114`) | the in-memory store keeps the writes made before an error: a step is SUCCEEDED that the saga has not passed |
| `created_idle` | `CreatedPickedUp` | "an in-process worker picks it up" (`PROJECT_PLAN.md:125`) | nothing submits a created transaction |
| `quote_reused` | `QuoteLocked` | "two concurrent purchases against the same quote cannot both succeed" (`quotelocker.go:9`) | `NoopLocker`, the only implementation, lets everybody in |
| `process_claims` | `RefusedDoesNothing` | "In prod an unset secret is fatal at startup" (`middleware.go:36`) | fatal, but after recovery and `Start`: sagas run before the process refuses, and are cut off |
| `process_claims`, second | `PaymentIsReal` | "DEV_MODE!=1 (the compose default): real partners are required" (`cmd/orchestrator/main.go:80`) | payment and blockchain are stubs in every mode that starts: a URL for them is fatal in production |
| `process_claims`, third | `ListenErrorExits` | "cancel()" after a listen error (`cmd/orchestrator/main.go:149`) | workers and relay end, the main goroutine goes on waiting for a signal: the process stays, doing nothing |
| `process_claims`, fourth | `HandlersKeepConnections` | "serves the REST API with graceful shutdown on SIGTERM/SIGINT" (`cmd/orchestrator/main.go:3`) | an operator's cascade is still at work when the deadline of `srv.Shutdown` passes: connections and pool are closed under it |

Also seen while modelling, with no sentence to set against it: `orchctl` sends no
token, so that its retry and compensate are refused (401) outside development; and
`orchctl replay` compares only the steps that succeeded, with a run against stubs
that all succeed, so that a failed saga matches its replay too.

## Limits

* One transaction at a time in `SagaExecutor`: sagas of different transactions
  share no rows. `Dispatcher` and `OutboxRelay` cover what they do share.
* The values of payload, amounts and addresses, idempotency keys as strings,
  backoff and timeouts as durations are abstracted; what they decide is not.
  A partner is taken to act on every call it accepts: whether it recognises a
  repeated idempotency key is outside of this repository, and a new attempt
  uses a new key.
* An unknown policy decision is treated as "allow" by `PolicyStep`; the model
  has it as one of the accepted answers.
* `Process` takes a run as one step of a worker, and what a handler leaves behind as
  its last step; that the steps of a run or a cascade survive a crash anywhere is the
  subject of `SagaExecutor`.
* In `SagaExecutor` only the lease of a process that died expires. That a live holder
  keeps its lease is what `RedisLease` shows, under its assumptions; where they fail, the
  runs without any lease (`race`, `operator`) and the theorems that do not assume
  `LeaseOn` apply.
* `MonitoredRefund` says that monitoring was asked for: `BroadcastStep.Compensate`
  ignores an error of `Record`.
* `MAX_RETRIES = 0`, which the configuration accepts, makes `Run` compensate without an
  attempt; the models assume at least one.
* A request's own context (a client that hangs up in the middle) is not modelled;
  a lost answer is.
* Not modelled, because there is no state to check: logging, request ids, health
  checks, JSON and flag parsing, the output of `orchctl`, the messages exchanged
  with partners, generated code. The HMAC of a token is taken to be sound. How
  Kafka spreads messages over partitions is external; that `LeastBytes` ignores
  the key is listed as a hazard.
* `ledger.reconcile_required` and `transaction.completed` events, which the
  documentation names, are emitted nowhere in the code and so not in the model.

## Plan

Done: the executor with its store, the components it relies on, then what
surrounds them (API, process, clients of the rows), the lease as a refinement, and
a theorem for every safety property of the runs. Next, in this order:

1. What the versions still protect when the lease fails: theorems about several
   replicas that keep as much of `SagaSolo_proofs` as holds for them (a cascade of
   the only process that compensates; sagas that never fail).
2. The refinement of `Dispatcher` by `Process`, as for `Api`.
3. An outbox with the executor's events: end to end from transition to bus, with
   consumers that drop duplicates by dedup key.
4. An abstract store that `SagaStore` implements and `MemStore` does not, and
   which of its promises the latter keeps.
