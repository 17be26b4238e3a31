------------------------------- MODULE Process -------------------------------
(***************************************************************************)
(* ONE orchestrator process from its start to its exit (cmd/orchestrator): *)
(* what the environment makes run() do, in its order; the dispatcher of    *)
(* Dispatcher, the outbox relay and the HTTP server it starts; and the     *)
(* deferred calls of a shutdown, while workers, the relay and handlers are *)
(* still at work.  A handler is a goroutine of its own: it may outlive the *)
(* server that started it.  The main goroutine is a program counter; a     *)
(* crash, a signal before signal.Notify, and a supervisor's new launch may *)
(* happen at any time.                                                     *)
(***************************************************************************)
EXTENDS Dispatcher, FiniteSets

CONSTANTS
  Envs,         \* the environments the process may be started in
  MaxDowns      \* bound on the roll-backs of the schema by an operator

GrpcPartner == {"policy", "kyt", "mpc", "ledger"}

\* What run() reads of the environment: DEV_MODE, ENABLE_STUB_PARTNERS,
\* SERVICE_TOKEN_SECRET, DB_URL and REDIS_URL set or not; EVENT_BUS_URL;
\* PAYMENT_URL or BLOCKCHAIN_URL set; the partner URLs ("unset" is also
\* stub://); the three TLS files.
Env == [dev: BOOLEAN, stub: BOOLEAN, secret: BOOLEAN, db: BOOLEAN,
        redis: BOOLEAN, bus: {"unset", "memory", "kafka", "unknown"},
        rest: BOOLEAN, url: [GrpcPartner -> {"unset", "ok", "malformed"}],
        tls: {"none", "partial", "unreadable", "good"}]

ASSUME ProcessAssumption == Envs \subseteq Env /\ MaxDowns \in Nat

VARIABLES
  env,     \* the environment
  main,    \* what the main goroutine does next
  open,    \* "pool", "conns", "redis", "publisher": opened and not closed
  real,    \* partners whose stub has been replaced by a gRPC client
  server,  \* the goroutine of ListenAndServe
  handling,\* the request each caller's handler is working on
  forced,  \* srv.Shutdown has given up on the handlers that are left
  relay,   \* the goroutine of the relay
  alive,   \* workers whose goroutine runs
  stopped, \* Dispatcher.Stop has closed the stop channel
  ctxDone, \* the root context is cancelled
  schema,  \* the tables exist
  downs    \* roll-backs so far

http == <<handling, forced>>
mainVars == <<env, main, open, real, server, relay, alive, stopped, ctxDone,
              http>>
db == <<schema, downs>>
dispatcher == <<sagas, phase, todo, partitions, running, retrying, counters>>
pvars == <<dispatcher, mainVars, db>>

Request == {"create", "retry", "compensate"}

Startup == <<"load", "store", "partners", "lease", "recover", "relay", "mux",
             "listen">>
Shutdown == <<"relayStop", "pubClose", "workersStop", "redisClose",
              "connsClose", "poolClose">>
Places(seq) == {seq[i] : i \in DOMAIN seq}

ProcessTypeOK ==
  /\ TypeOK
  /\ env \in Envs
  /\ main \in Places(Startup) \cup {"wait", "drain"} \cup Places(Shutdown)
              \cup {"exited"}
  /\ open \subseteq {"pool", "conns", "redis", "publisher"}
  /\ real \subseteq GrpcPartner
  /\ server \in {"off", "starting", "up", "failed", "closed"}
  /\ handling \in [Callers -> Request \cup {"none"}] /\ forced \in BOOLEAN
  /\ relay \in {"off", "idle", "draining", "done"}
  /\ alive \subseteq Worker
  /\ stopped \in BOOLEAN /\ ctxDone \in BOOLEAN /\ schema \in BOOLEAN
  /\ downs \in 0 .. MaxDowns

ProcessInit ==
  /\ Init
  /\ env \in Envs
  /\ main = "load" /\ open = {} /\ real = {} /\ alive = {}
  /\ server = "off" /\ relay = "off"
  /\ handling = [c \in Callers |-> "none"] /\ forced = FALSE
  /\ stopped = FALSE /\ ctxDone = FALSE
  /\ schema = env.db /\ downs = 0

-----------------------------------------------------------------------------
(* run(): startup.  An error, os.Exit and log.Fatal all end the process;   *)
(* what it has opened or started by then goes with it.                     *)

GoMain(l) == main' = l
stubMode == env.dev \/ env.stub

\* config.Load: only EVENT_BUS_URL is required.
Load ==
  /\ main = "load"
  /\ GoMain(IF env.bus = "unset" THEN "exited" ELSE "store")
  /\ UNCHANGED <<dispatcher, env, open, real, server, relay, alive, stopped,
                 ctxDone, db, http>>

\* Without DB_URL the store is a new, empty one, in DEV_MODE only.
OpenMemStore ==
  /\ main = "store" /\ ~env.db
  /\ IF env.dev
     THEN GoMain("partners") /\ sagas' = [t \in Txs |-> "absent"]
     ELSE GoMain("exited") /\ UNCHANGED sagas
  /\ UNCHANGED <<phase, todo, partitions, running, retrying, counters, env,
                 open, real, server, relay, alive, stopped, ctxDone, db,
                 http>>

\* migrations.Up creates what is missing, migrations.Down drops everything.
MigrationsUp == schema' = TRUE
MigrationsDown == schema' = FALSE /\ sagas' = [t \in Txs |-> "absent"]

\* NewPgStore opens the pool and creates the tables that are missing ...
OpenPgStore ==
  /\ main = "store" /\ env.db
  /\ open' = open \cup {"pool"}
  /\ MigrationsUp
  /\ GoMain("partners")
  /\ UNCHANGED <<dispatcher, env, real, server, relay, alive, stopped, ctxDone,
                 downs, http>>

\* ... or tries again for 30s and gives up.
OpenPgStoreFails ==
  /\ main = "store" /\ env.db /\ scanFails < MaxScanFails
  /\ scanFails' = scanFails + 1
  /\ GoMain("exited")
  /\ UNCHANGED <<sagas, phase, todo, partitions, running, retrying, fails,
                 restarts, env, open, real, server, relay, alive, stopped,
                 ctxDone, db, http>>

\* The credentials of a dial; without the three files only DEV_MODE may
\* dial, in clear.
loadTLSConfig ==
  CASE env.tls = "none" -> IF env.dev THEN "insecure" ELSE "error"
    [] env.tls = "good" -> "tls"
    [] OTHER -> "error"

\* NewPolicy and its like.  grpc.NewClient only parses the target: nothing
\* is sent before the first call, so a partner that is down is not noticed.
NewClient(p) == loadTLSConfig # "error" /\ env.url[p] # "malformed"

\* dialOnePartner yields a client.
Dials(p) == env.url[p] # "unset" /\ NewClient(p)

\* Defect: a failed dial falls back to the stub in every mode.
DialFatalNever == env.rest

\* What is fatal outside stub mode: a REST-only partner with a URL, a gRPC
\* partner without one or that cannot be dialled.
DialFatal == env.rest \/ \E p \in GrpcPartner : ~Dials(p)

dialPartners ==
  /\ main = "partners"
  /\ IF DialFatal /\ ~stubMode
     THEN GoMain("exited") /\ UNCHANGED <<open, real>>
     ELSE /\ GoMain("lease")
          /\ real' = {p \in GrpcPartner : Dials(p)}
          /\ open' = open \cup {"conns"}
  /\ UNCHANGED <<dispatcher, env, server, relay, alive, stopped, ctxDone, db,
                 http>>

\* NewRedisLease does not connect and cannot fail; else NoopLease.
BuildLease ==
  /\ main = "lease"
  /\ open' = IF env.redis THEN open \cup {"redis"} ELSE open
  /\ GoMain("recover")
  /\ UNCHANGED <<dispatcher, env, real, server, relay, alive, stopped, ctxDone, db,
                 http>>

\* Recover and then Start.  The scan needs the tables.
RecoverStep ==
  /\ main = "recover"
  /\ \/ (env.db => schema) /\ Scan
     \/ \E t \in Txs : RecoverNext(t)
  /\ UNCHANGED <<mainVars, db>>

\* A failed scan is logged and startup goes on; without tables it fails.
RecoverFails ==
  /\ main = "recover"
  /\ \/ ScanFails
     \/ /\ env.db /\ ~schema /\ phase = "scan" /\ phase' = "recovering"
        /\ UNCHANGED <<sagas, todo, partitions, running, retrying, counters>>
  /\ UNCHANGED <<mainVars, db>>

\* Defect: the loop over the partitions starts with the second one.
StartWorkersFromTwo ==
  /\ main = "recover"
  /\ Start
  /\ alive' = Worker \ {1}
  /\ GoMain("relay")
  /\ UNCHANGED <<env, open, real, server, relay, stopped, ctxDone, db, http>>

StartWorkers ==
  /\ main = "recover"
  /\ Start
  /\ alive' = Worker
  /\ GoMain("relay")
  /\ UNCHANGED <<env, open, real, server, relay, stopped, ctxDone, db, http>>

\* NewPublisher knows kafka:// (also implied by host:port) and memory://.
NewPublisher == env.bus # "unknown"

\* Without a publisher the process goes on, and publishes nothing.
StartRelay ==
  /\ main = "relay"
  /\ IF NewPublisher
     THEN open' = open \cup {"publisher"} /\ relay' = "idle"
     ELSE UNCHANGED <<open, relay>>
  /\ GoMain("mux")
  /\ UNCHANGED <<dispatcher, env, real, server, alive, stopped, ctxDone, db, http>>

\* Outside DEV_MODE a missing secret is fatal.
SecretFromEnv == env.secret \/ env.dev

Mux ==
  /\ main = "mux"
  /\ GoMain(IF SecretFromEnv THEN "listen" ELSE "exited")
  /\ UNCHANGED <<dispatcher, env, open, real, server, relay, alive, stopped,
                 ctxDone, db, http>>

\* The server goroutine is started and signals are caught from now on.
Listen ==
  /\ main = "listen"
  /\ server' = "starting"
  /\ GoMain("wait")
  /\ UNCHANGED <<dispatcher, env, open, real, relay, alive, stopped, ctxDone, db,
                 http>>

-----------------------------------------------------------------------------
(* The goroutines.                                                         *)

Up == main # "exited"

\* ListenAndServe binds the port, or its error cancels the root context.
Bind ==
  /\ Up /\ server = "starting"
  /\ \/ server' = "up" /\ UNCHANGED ctxDone
     \/ server' = "failed" /\ ctxDone' = TRUE
  /\ UNCHANGED <<dispatcher, env, main, open, real, relay, alive, stopped, db,
                 http>>

\* A handler is started for a request, while the server accepts them.
Accept(c) ==
  /\ Up /\ server = "up" /\ handling[c] = "none" /\ retrying[c] = Idle
  /\ \E op \in Request : handling' = [handling EXCEPT ![c] = op]
  /\ UNCHANGED <<dispatcher, env, main, open, real, server, relay, alive,
                 stopped, ctxDone, db, forced>>

HandlerEnds(c) == handling' = [handling EXCEPT ![c] = "none"]
StoreWorks == env.db => "pool" \in open /\ schema

\* The handler reaches its end, at a time of its own: a create has inserted
\* its rows, a retry goes on to Submit, the cascade of a compensate, with its
\* partner calls, is done.
Handle(c) ==
  /\ Up /\ StoreWorks
  /\ \E t \in Txs :
       \/ handling[c] = "create" /\ Create(t)
       \/ handling[c] = "retry" /\ Retry(c, t)
       \/ handling[c] = "compensate" /\ "conns" \in open /\ Compensated(t)
  /\ HandlerEnds(c)
  /\ UNCHANGED <<env, main, open, real, server, relay, alive, stopped, ctxDone,
                 db, forced>>

\* It answers with an error: the saga is terminal, or a call of the store or
\* of a partner failed.
HandleFails(c) ==
  /\ Up /\ handling[c] # "none"
  /\ HandlerEnds(c)
  /\ UNCHANGED <<dispatcher, env, main, open, real, server, relay, alive,
                 stopped, ctxDone, db, forced>>

\* The id a retry has been waiting to Submit finds room in its channel.
Submits(c) ==
  /\ Up
  /\ RetrySubmit(c)
  /\ UNCHANGED <<mainVars, db>>

\* Submit on a stopped dispatcher drops the id; the request is answered 202.
SubmitDropped(c) ==
  /\ Up /\ stopped /\ retrying[c] # Idle
  /\ retrying' = [retrying EXCEPT ![c] = Idle]
  /\ UNCHANGED <<sagas, phase, todo, partitions, running, counters, mainVars, db>>

\* A worker takes an id from its channel, or a run of it comes to its end.
WorkerRuns(w) ==
  /\ Up /\ w \in alive
  /\ running[w] # Idle => sagas[running[w]] # "absent"
  /\ Work(w)
  /\ UNCHANGED <<mainVars, db>>

WorkerFails(w) ==
  /\ Up /\ w \in alive
  /\ RunFails(w)
  /\ UNCHANGED <<mainVars, db>>

\* A run under a cancelled context, or whose rows are gone, returns an error.
RunCancelled(w) ==
  /\ Up /\ w \in alive /\ running[w] # Idle
  /\ ctxDone \/ sagas[running[w]] = "absent"
  /\ running' = [running EXCEPT ![w] = Idle]
  /\ UNCHANGED <<sagas, phase, todo, partitions, retrying, counters, mainVars, db>>

\* Defect: the worker looks at the context only.
WorkerExitsOnContext(w) ==
  /\ Up /\ w \in alive /\ running[w] = Idle /\ ctxDone
  /\ alive' = alive \ {w}
  /\ UNCHANGED <<dispatcher, env, main, open, real, server, relay, stopped,
                 ctxDone, db, http>>

\* Between two runs a worker sees the stop channel or the context.
WorkerExits(w) ==
  /\ Up /\ w \in alive /\ running[w] = Idle
  /\ stopped \/ ctxDone
  /\ alive' = alive \ {w}
  /\ UNCHANGED <<dispatcher, env, main, open, real, server, relay, stopped,
                 ctxDone, db, http>>

\* The loop of the relay: a drain at each tick, until it is told to stop.
RelayLoop ==
  /\ Up
  /\ \/ relay = "idle" /\ relay' = "draining"
     \/ relay = "draining" /\ relay' = "idle"
  /\ UNCHANGED <<dispatcher, env, main, open, real, server, alive, stopped,
                 ctxDone, db, http>>

RelayExits ==
  /\ Up /\ relay = "idle"
  /\ main = "relayStop" \/ ctxDone
  /\ relay' = "done"
  /\ UNCHANGED <<dispatcher, env, main, open, real, server, alive, stopped,
                 ctxDone, db, http>>

-----------------------------------------------------------------------------
(* run(): shutdown.  Stop and Close are deferred calls, last one first.    *)

\* SIGTERM or SIGINT: the server stops accepting.
Signal ==
  /\ main = "wait"
  /\ GoMain("drain")
  /\ server' = IF server = "failed" THEN server ELSE "closed"
  /\ UNCHANGED <<dispatcher, env, open, real, relay, alive, stopped, ctxDone, db,
                 http>>

\* Defect: main does not wait for the handlers.
ServerNotDrained ==
  /\ main = "drain"
  /\ GoMain("relayStop")
  /\ UNCHANGED <<dispatcher, env, open, real, server, relay, alive, stopped,
                 ctxDone, db, http>>

\* srv.Shutdown returns once no handler is left ...
ServerDrained ==
  /\ main = "drain"
  /\ \A c \in Callers : handling[c] = "none" /\ retrying[c] = Idle
  /\ GoMain("relayStop")
  /\ UNCHANGED <<dispatcher, env, open, real, server, relay, alive, stopped,
                 ctxDone, db, http>>

\* ... or after 15s, and leaves the handlers alone.
ShutdownTimeout ==
  /\ main = "drain"
  /\ \E c \in Callers : handling[c] # "none" \/ retrying[c] # Idle
  /\ GoMain("relayStop")
  /\ forced' = TRUE
  /\ UNCHANGED <<dispatcher, env, open, real, server, relay, alive, stopped,
                 ctxDone, db, handling>>

\* Where the call that the main goroutine waits for leads.
AfterDefer(l) ==
  LET i == CHOOSE n \in DOMAIN Shutdown : Shutdown[n] = l
  IN  IF i = Len(Shutdown) THEN "exited" ELSE Shutdown[i + 1]

\* Relay.Stop waits for the drain that is under way.
RelayStop ==
  /\ main = "relayStop" /\ relay \in {"off", "done"}
  /\ GoMain(AfterDefer(main))
  /\ UNCHANGED <<dispatcher, env, open, real, server, relay, alive, stopped,
                 ctxDone, db, http>>

\* Dispatcher.Stop closes the channel, and waits for every worker.
WorkersStop ==
  /\ main = "workersStop"
  /\ \/ ~stopped /\ stopped' = TRUE /\ UNCHANGED main
     \/ stopped /\ alive = {} /\ GoMain(AfterDefer(main)) /\ UNCHANGED stopped
  /\ UNCHANGED <<dispatcher, env, open, real, server, relay, alive, ctxDone, db,
                 http>>

Closes == [pubClose |-> "publisher", redisClose |-> "redis",
           connsClose |-> "conns", poolClose |-> "pool"]

Close ==
  /\ main \in DOMAIN Closes
  /\ open' = open \ {Closes[main]}
  /\ GoMain(AfterDefer(main))
  /\ UNCHANGED <<dispatcher, env, real, server, relay, alive, stopped, ctxDone, db,
                 http>>

-----------------------------------------------------------------------------
(* The world around the process.                                           *)

\* A crash, or a signal that is not caught yet.
Kill ==
  /\ Up
  /\ GoMain("exited")
  /\ UNCHANGED <<dispatcher, env, open, real, server, relay, alive, stopped,
                 ctxDone, db, http>>

\* The supervisor starts the process again, in the same environment.
Launch ==
  /\ main = "exited"
  /\ Restart
  /\ GoMain("load")
  /\ open' = {} /\ real' = {} /\ alive' = {}
  /\ server' = "off" /\ relay' = "off"
  /\ handling' = [c \in Callers |-> "none"] /\ forced' = FALSE
  /\ stopped' = FALSE /\ ctxDone' = FALSE
  /\ UNCHANGED <<env, db>>

\* cmd/migrate -direction down drops the tables, up creates them again.
MigrateDown ==
  /\ env.db /\ downs < MaxDowns
  /\ MigrationsDown
  /\ downs' = downs + 1
  /\ UNCHANGED <<phase, todo, partitions, running, retrying, counters, mainVars>>

MigrateUp ==
  /\ env.db /\ ~schema
  /\ MigrationsUp
  /\ UNCHANGED <<dispatcher, mainVars, downs>>

-----------------------------------------------------------------------------
WorkerStep(w) == WorkerRuns(w) \/ RunCancelled(w)

Main ==
  \/ Load \/ OpenMemStore \/ OpenPgStore \/ dialPartners \/ BuildLease
  \/ RecoverStep \/ RecoverFails \/ StartWorkers \/ StartRelay \/ Mux \/ Listen
  \/ ServerDrained \/ ShutdownTimeout \/ RelayStop \/ WorkersStop \/ Close

ProcessNext ==
  \/ Main \/ OpenPgStoreFails \/ Signal \/ Kill \/ Launch
  \/ Bind \/ RelayLoop \/ RelayExits
  \/ \E c \in Callers : \/ Accept(c) \/ Handle(c) \/ HandleFails(c)
                        \/ Submits(c) \/ SubmitDropped(c)
  \/ \E w \in Worker :
       WorkerStep(w) \/ WorkerFails(w) \/ WorkerExits(w)
  \/ MigrateDown \/ MigrateUp

ProcessSpec == ProcessInit /\ [][ProcessNext]_pvars

\* Every goroutine is scheduled; a run and a drain come to an end; select
\* takes a ready stop channel sooner or later (hence the strong fairness).
ProcessFairness ==
  /\ WF_pvars(Main) /\ WF_pvars(RelayLoop) /\ SF_pvars(RelayExits)
  /\ \A w \in Worker : WF_pvars(WorkerStep(w)) /\ SF_pvars(WorkerExits(w))

ProcessFairSpec == ProcessSpec /\ ProcessFairness
-----------------------------------------------------------------------------
(* Properties.                                                             *)

\* A handler has the pool, and a cascade the partners, until it answers.
HandlersKeepConnections ==
  \A c \in Callers :
    Up /\ handling[c] # "none" =>
      /\ env.db => "pool" \in open
      /\ handling[c] = "compensate" => "conns" \in open

\* The deferred calls of run() never take away what a goroutine still uses: a
\* saga runs only with its pool, its partner connections and its lease client
\* open, a drain only with its publisher and its pool, and so do handlers,
\* the operator's cascade among them, unless srv.Shutdown ran into its
\* deadline and left them behind.
NoUseAfterClose ==
  Up =>
    /\ (\E w \in alive : running[w] # Idle) =>
         /\ "conns" \in open
         /\ env.db => "pool" \in open
         /\ env.redis => "redis" \in open
    /\ relay = "draining" => "publisher" \in open /\ (env.db => "pool" \in open)
    /\ ~forced => HandlersKeepConnections

\* Outside stub mode no saga is screened, signed or booked by a stub: when a
\* worker runs one, the four gRPC partners are real and dialled over TLS,
\* and the sagas are in Postgres.
ProductionIsReal ==
  Up /\ ~stubMode /\ (\E w \in alive : running[w] # Idle) =>
    real = GrpcPartner /\ env.tls = "good" /\ env.db

\* The in-flight sagas of each partition fit into its channel.
Fits ==
  \A w \in Worker :
    Cardinality({t \in Inflight : PartitionOf[t] = w}) <= Concurrency

\* A launch whose in-flight sagas fit into the channels comes to an end: the
\* process waits for a signal, or it has exited.  Recovery, which fills the
\* channels to the last place before anybody reads them, is over also when
\* its scan fails or its tables are gone.  (With one saga more it is not:
\* recovery_blocked.cfg.)
LaunchEnds == main = "load" /\ Fits ~> main \in {"wait", "exited"}

\* "graceful shutdown on SIGTERM/SIGINT": a signal ends the process, also
\* when the server never came up, a drain or a run is under way, ids are
\* queued or a request waits in Submit.
StopsAfterSignal == main = "drain" ~> main = "exited"

Stopping == main \in {"drain", "exited"} \cup Places(Shutdown)

\* "No in-flight saga is lost on process crash": what recovery finds in the
\* store is driven to its end by this process, unless a run or the scan
\* fails, the process stops, the port could not be bound, or recovery does
\* not come to its end because a channel is too small.
RecoveredFinish ==
  \A t \in Txs :
    main = "recover" /\ phase = "scan" /\ t \in Inflight /\ Fits
      ~> \/ sagas[t] # "inflight" \/ fails + scanFails + downs > 0
         \/ Stopping \/ server = "failed"

-----------------------------------------------------------------------------
(* What comments say of the program and the code does not do.              *)

\* "In prod an unset secret is fatal at startup": the process refuses before
\* it drives any saga.
RefusedDoesNothing ==
  Up /\ ~env.secret /\ ~env.dev => \A w \in Worker : running[w] = Idle

\* "real partners are required" outside stub mode.
PaymentIsReal ==
  Up /\ ~stubMode /\ (\E w \in alive : running[w] # Idle) =>
    {"payment", "blockchain"} \subseteq real

\* A server that cannot listen ends the process.
ListenErrorExits == server = "failed" ~> main = "exited"
=============================================================================
