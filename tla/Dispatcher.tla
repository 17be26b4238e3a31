----------------------------- MODULE Dispatcher -----------------------------
(***************************************************************************)
(* The dispatcher of ONE orchestrator process (internal/worker): one       *)
(* bounded channel and one worker per partition, crash recovery that fills *)
(* the channels before the workers start, and the API requests that create *)
(* a transaction or re-queue its saga.  What a saga does while it runs is  *)
(* the subject of SagaExecutor; here a run ends it or gives up.            *)
(***************************************************************************)
EXTENDS Integers, Sequences

CONSTANTS
  Txs,          \* transaction ids
  Old,          \* the ones that are in flight when the process first starts
  Concurrency,  \* WORKER_CONCURRENCY: workers, and capacity of a channel
  PartitionOf,  \* partitionOf: the hash of a transaction id
  Callers,      \* API clients, each with one request at a time
  Idle,         \* a worker or a request with no transaction
  MaxFails,     \* bound on the runs that return an error
  MaxScanFails, \* bound on the recovery scans that do
  MaxRestarts   \* bound on the restarts of the process

Worker == 1 .. Concurrency

ASSUME DispatcherAssumption ==
  /\ Old \subseteq Txs
  /\ Idle \notin Txs
  /\ Concurrency \in Nat \ {0}
  /\ PartitionOf \in [Txs -> Worker]
  /\ MaxFails \in Nat
  /\ MaxScanFails \in Nat
  /\ MaxRestarts \in Nat

VARIABLES
  sagas,     \* the saga_state rows: absent, in flight or terminal
  phase,     \* "scan", "recovering": Recover runs; "running": the workers run
  todo,      \* in-flight ids that Recover has still to submit
  partitions,\* the channel of each worker
  running,   \* the transaction each worker runs
  retrying,  \* the id each caller's retry request is about to Submit
  fails,     \* runs that returned an error
  scanFails, \* recovery scans that did
  restarts

counters == <<fails, scanFails, restarts>>
vars == <<sagas, phase, todo, partitions, running, retrying, counters>>

TypeOK ==
  /\ sagas \in [Txs -> {"absent", "inflight", "terminal"}]
  /\ phase \in {"scan", "recovering", "running"}
  /\ todo \in SUBSET Txs
  /\ partitions \in [Worker -> Seq(Txs)]
  /\ \A w \in Worker : Len(partitions[w]) <= Concurrency
  /\ running \in [Worker -> Txs \cup {Idle}]
  /\ retrying \in [Callers -> Txs \cup {Idle}]
  /\ fails \in 0 .. MaxFails
  /\ scanFails \in 0 .. MaxScanFails
  /\ restarts \in 0 .. MaxRestarts

Inflight == {t \in Txs : sagas[t] = "inflight"}

\* The process is started for the first time.
Init ==
  /\ sagas = [t \in Txs |-> IF t \in Old THEN "inflight" ELSE "absent"]
  /\ phase = "scan"
  /\ todo = {}
  /\ partitions = [w \in Worker |-> <<>>]
  /\ running = [w \in Worker |-> Idle]
  /\ retrying = [c \in Callers |-> Idle]
  /\ fails = 0 /\ scanFails = 0 /\ restarts = 0

-----------------------------------------------------------------------------
\* Defect: any partition with room will do.
SubmitAnywhere(t) ==
  \E w \in Worker :
    /\ Len(partitions[w]) < Concurrency
    /\ partitions' = [partitions EXCEPT ![w] = Append(@, t)]

\* Defect: the last place of a channel is not used.
SubmitShort(t) ==
  LET w == PartitionOf[t]
  IN  /\ Len(partitions[w]) < Concurrency - 1
      /\ partitions' = [partitions EXCEPT ![w] = Append(@, t)]

\* Submit puts the id into the channel of its partition and waits while
\* that is full.
Submit(t) ==
  LET w == PartitionOf[t]
  IN  /\ Len(partitions[w]) < Concurrency
      /\ partitions' = [partitions EXCEPT ![w] = Append(@, t)]

\* Recover lists the rows that are not terminal.
Scan ==
  /\ phase = "scan"
  /\ phase' = "recovering"
  /\ todo' = Inflight
  /\ UNCHANGED <<sagas, partitions, running, retrying, counters>>

\* The scan fails: main logs a warning and goes on to start the workers.
ScanFails ==
  /\ phase = "scan" /\ scanFails < MaxScanFails
  /\ scanFails' = scanFails + 1
  /\ phase' = "recovering"
  /\ UNCHANGED <<sagas, todo, partitions, running, retrying, fails, restarts>>

\* Recover submits the ids it has listed one by one.
RecoverNext(t) ==
  /\ phase = "recovering" /\ t \in todo
  /\ Submit(t)
  /\ todo' = todo \ {t}
  /\ UNCHANGED <<sagas, phase, running, retrying, counters>>

\* Recover returns; only now the workers and the API are started.
Start ==
  /\ phase = "recovering" /\ todo = {}
  /\ phase' = "running"
  /\ UNCHANGED <<sagas, todo, partitions, running, retrying, counters>>

\* handleCreate inserts the rows; it submits nothing.
Create(t) ==
  /\ phase = "running" /\ sagas[t] = "absent"
  /\ sagas' = [sagas EXCEPT ![t] = "inflight"]
  /\ UNCHANGED <<phase, todo, partitions, running, retrying, counters>>

\* Control.Retry: only a saga that is not terminal is submitted.
Retry(c, t) ==
  /\ phase = "running" /\ retrying[c] = Idle /\ t \in Inflight
  /\ retrying' = [retrying EXCEPT ![c] = t]
  /\ UNCHANGED <<sagas, phase, todo, partitions, running, counters>>

RetrySubmit(c) ==
  /\ retrying[c] # Idle
  /\ Submit(retrying[c])
  /\ retrying' = [retrying EXCEPT ![c] = Idle]
  /\ UNCHANGED <<sagas, phase, todo, running, counters>>

\* Control.Compensate has run the cascade in the request's own goroutine,
\* whatever the workers do with the saga meanwhile.
Compensated(t) ==
  /\ phase = "running" /\ t \in Inflight
  /\ sagas' = [sagas EXCEPT ![t] = "terminal"]
  /\ UNCHANGED <<phase, todo, partitions, running, retrying, counters>>

\* Defect: a worker returns after a run that has failed.
DequeueUntilError(w) ==
  /\ phase = "running" /\ running[w] = Idle /\ partitions[w] # <<>>
  /\ fails = 0
  /\ running' = [running EXCEPT ![w] = Head(partitions[w])]
  /\ partitions' = [partitions EXCEPT ![w] = Tail(@)]
  /\ UNCHANGED <<sagas, phase, todo, retrying, counters>>

\* Worker w receives an id and calls Run.
Dequeue(w) ==
  /\ phase = "running" /\ running[w] = Idle /\ partitions[w] # <<>>
  /\ running' = [running EXCEPT ![w] = Head(partitions[w])]
  /\ partitions' = [partitions EXCEPT ![w] = Tail(@)]
  /\ UNCHANGED <<sagas, phase, todo, retrying, counters>>

\* Run returns once the saga is terminal ...
RunEnds(w) ==
  /\ running[w] # Idle
  /\ sagas' = [sagas EXCEPT ![running[w]] = "terminal"]
  /\ running' = [running EXCEPT ![w] = Idle]
  /\ UNCHANGED <<phase, todo, partitions, retrying, counters>>

\* ... or with an error, which is logged, or with nil although the saga is not
\* terminal (the cascade's save conflicted or failed, which nobody looks at):
\* nobody submits the id again.
RunFails(w) ==
  /\ running[w] # Idle /\ fails < MaxFails
  /\ fails' = fails + 1
  /\ running' = [running EXCEPT ![w] = Idle]
  /\ UNCHANGED <<sagas, phase, todo, partitions, retrying, scanFails, restarts>>

\* Defect: no recovery scan at startup.
RestartNoScan ==
  /\ restarts < MaxRestarts
  /\ restarts' = restarts + 1
  /\ phase' = "recovering"
  /\ todo' = {}
  /\ partitions' = [w \in Worker |-> <<>>]
  /\ running' = [w \in Worker |-> Idle]
  /\ retrying' = [c \in Callers |-> Idle]
  /\ UNCHANGED <<sagas, fails, scanFails>>

\* The process stops, by a signal or a crash, and is started again: what
\* was in its channels is gone.
Restart ==
  /\ restarts < MaxRestarts
  /\ restarts' = restarts + 1
  /\ phase' = "scan"
  /\ todo' = {}
  /\ partitions' = [w \in Worker |-> <<>>]
  /\ running' = [w \in Worker |-> Idle]
  /\ retrying' = [c \in Callers |-> Idle]
  /\ UNCHANGED <<sagas, fails, scanFails>>

Recover == Scan \/ Start \/ \E t \in Txs : RecoverNext(t)
Work(w) == Dequeue(w) \/ RunEnds(w)

Next ==
  \/ Recover \/ ScanFails \/ Restart
  \/ \E t \in Txs : Create(t) \/ Compensated(t) \/ \E c \in Callers : Retry(c, t)
  \/ \E c \in Callers : RetrySubmit(c)
  \/ \E w \in Worker : Work(w) \/ RunFails(w)

Spec == Init /\ [][Next]_vars

\* The goroutine of Recover and those of the workers are scheduled, and a
\* run comes to an end (each partner call has a timeout, attempts are
\* bounded).
FairSpec ==
  Spec /\ WF_vars(Recover) /\ \A w \in Worker : WF_vars(Work(w))

-----------------------------------------------------------------------------
(* Properties.                                                             *)

\* "The same tx is always processed by the same worker": two workers of one
\* process never run one saga at the same time, however often it has been
\* submitted.
OneWorkerPerTx ==
  \A v, w \in Worker : running[v] = running[w] /\ running[v] # Idle => v = w

\* "No in-flight saga is lost on process crash": what is in flight when the
\* process starts is driven to its end, also when the recovery scan fails.
InflightAlwaysFinish ==
  \A t \in Txs : phase = "scan" /\ t \in Inflight ~> sagas[t] = "terminal"

\* "Recovery completes within 30s of startup": in the end it completes.
RecoveryCompletes == phase = "recovering" ~> phase = "running"

\* "When a saga_state row enters created, an in-process worker picks it up".
CreatedPickedUp == \A t \in Txs : sagas[t] = "inflight" ~> sagas[t] = "terminal"
=============================================================================
