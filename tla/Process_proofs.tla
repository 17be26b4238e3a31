---------------------------- MODULE Process_proofs ----------------------------
(***************************************************************************)
(* What run() opens it does not close under those who use it, and outside  *)
(* stub mode it lets nobody work with a stub: for every set of             *)
(* environments, any number of workers, sagas and callers, and any crash,  *)
(* signal or roll-back of the schema.                                      *)
(*                                                                         *)
(* The argument: where the main goroutine stands says what is open and     *)
(* which goroutines run.  Deferred calls run last one first, and Stop      *)
(* waits for the goroutines it stops: so what a goroutine uses was opened  *)
(* before it was started and is closed after it has ended.  Handlers are   *)
(* different: nobody waits for them but srv.Shutdown, and not for long.    *)
(* They are under way only while the server is up or being drained, unless *)
(* Shutdown has given up on them.                                          *)
(***************************************************************************)
EXTENDS Process, TLAPS

\* Where the main goroutine stands while a worker, or the relay, may run ...
WithWorkers == {"relay", "mux", "listen", "wait", "drain", "relayStop", "pubClose",
                "workersStop"}
WithRelay == {"mux", "listen", "wait", "drain", "relayStop"}

\* ... and while the lease client, the connections and the pool are open.
WithRedis == WithWorkers \cup {"recover", "redisClose"}
WithConns == WithRedis \cup {"lease", "connsClose"}
WithPool == WithConns \cup {"partners", "poolClose"}

\* A goroutine runs only while the main goroutine is between its start and
\* the end of its Stop.
GoroutinesWithin ==
  /\ alive # {} => main \in WithWorkers \cup {"exited"}
  /\ relay \in {"idle", "draining"} => main \in WithRelay \cup {"exited"}

\* Handlers are started by a server that is up, between the start of the
\* server goroutine and the signal; they are done when the server is drained.
HandlersWithin ==
  /\ handling \in [Callers -> Request \cup {"none"}]
  /\ server \in {"starting", "up"} => main \in {"wait", "exited"}
  /\ ~forced =>
       \A c \in Callers : handling[c] # "none" => main \in {"wait", "drain", "exited"}

\* What has been opened and not yet closed.
StillOpen ==
  /\ main \in WithPool /\ env.db => "pool" \in open
  /\ main \in WithConns => "conns" \in open
  /\ main \in WithRedis /\ env.redis => "redis" \in open
  /\ main \in WithRelay /\ relay \in {"idle", "draining"} => "publisher" \in open

\* What the checks of startup let pass outside stub mode.
Checked ==
  /\ main \in WithPool /\ ~env.dev => env.db
  /\ main \in WithConns /\ ~stubMode => real = GrpcPartner /\ env.tls = "good"

ProcessInv == GoroutinesWithin /\ HandlersWithin /\ StillOpen /\ Checked

-----------------------------------------------------------------------------
\* Deferred calls run in the order of Shutdown.
LEMMA NextDefer ==
  /\ AfterDefer("relayStop") = "pubClose"
  /\ AfterDefer("pubClose") = "workersStop"
  /\ AfterDefer("workersStop") = "redisClose"
  /\ AfterDefer("redisClose") = "connsClose"
  /\ AfterDefer("connsClose") = "poolClose"
  /\ AfterDefer("poolClose") = "exited"
<1> DEFINE At(l) == CHOOSE n \in DOMAIN Shutdown : Shutdown[n] = l
<1>1. /\ DOMAIN Shutdown = 1 .. 6 /\ Len(Shutdown) = 6
      /\ Shutdown[1] = "relayStop" /\ Shutdown[2] = "pubClose"
      /\ Shutdown[3] = "workersStop" /\ Shutdown[4] = "redisClose"
      /\ Shutdown[5] = "connsClose" /\ Shutdown[6] = "poolClose"
  BY DEF Shutdown
<1>2. \A n \in 1 .. 6 : n = 1 \/ n = 2 \/ n = 3 \/ n = 4 \/ n = 5 \/ n = 6
  OBVIOUS
<1>3. /\ At("relayStop") = 1 /\ At("pubClose") = 2 /\ At("workersStop") = 3
      /\ At("redisClose") = 4 /\ At("connsClose") = 5 /\ At("poolClose") = 6
  BY <1>1, <1>2
<1>4. \A l : AfterDefer(l) = IF At(l) = 6 THEN "exited" ELSE Shutdown[At(l) + 1]
  BY <1>1 DEF AfterDefer
<1> HIDE DEF At
<1> QED BY <1>1, <1>3, <1>4

\* Which deferred call closes what.
LEMMA ClosesWhat ==
  /\ DOMAIN Closes = {"pubClose", "redisClose", "connsClose", "poolClose"}
  /\ Closes["pubClose"] = "publisher" /\ Closes["redisClose"] = "redis"
  /\ Closes["connsClose"] = "conns" /\ Closes["poolClose"] = "pool"
BY DEF Closes

\* A process starts with nothing open and no goroutine.
LEMMA ProcessInitInv == ProcessInit => ProcessInv
BY DEF ProcessInit, ProcessInv, GoroutinesWithin, HandlersWithin, StillOpen, Checked,
     WithPool, WithConns,
   WithRedis, WithWorkers, WithRelay

\* Steps after which the main goroutine stands where it stood, with the same
\* things open, and at most fewer goroutines; a handler is new only under a
\* server that is up.
LEMMA StaysPut ==
  ASSUME ProcessInv, UNCHANGED <<env, main, open, real, forced>>,
         server' \in {"starting", "up"} => server \in {"starting", "up"},
         handling' \in [Callers -> Request \cup {"none"}],
         \A c \in Callers :
           handling'[c] # "none" => handling[c] # "none" \/ server = "up",
         alive' \subseteq alive,
         relay' \in {"idle", "draining"} => relay \in {"idle", "draining"}
  PROVE  ProcessInv'
BY DEF ProcessInv, GoroutinesWithin, HandlersWithin, StillOpen, Checked, stubMode

\* Every step of startup, of the goroutines, of the shutdown and of the
\* world around keeps the invariant.
LEMMA ProcessNextInv == ProcessInv /\ [ProcessNext]_pvars => ProcessInv'
<1> SUFFICES ASSUME ProcessInv, [ProcessNext]_pvars PROVE ProcessInv'
  OBVIOUS
<1> USE DEF WithPool, WithConns, WithRedis, WithWorkers, WithRelay
<1>0. CASE UNCHANGED pvars
  BY <1>0, StaysPut DEF pvars, mainVars, http, ProcessInv, HandlersWithin
<1>1. CASE Load \/ Mux \/ Listen \/ Signal \/ ServerDrained \/ ShutdownTimeout
  BY <1>1 DEF Load, Mux, Listen, Signal, ServerDrained, ShutdownTimeout, http, GoMain,
     ProcessInv, GoroutinesWithin,
     HandlersWithin, StillOpen, Checked, stubMode
<1>2. CASE OpenMemStore \/ OpenPgStore \/ OpenPgStoreFails
  BY <1>2 DEF OpenMemStore, OpenPgStore, OpenPgStoreFails, http, GoMain, ProcessInv,
     GoroutinesWithin, HandlersWithin, StillOpen, Checked, stubMode
<1>3. CASE dialPartners
  <2>1. CASE DialFatal /\ ~stubMode
    BY <1>3, <2>1 DEF dialPartners, http, GoMain, ProcessInv, GoroutinesWithin,
     HandlersWithin, StillOpen, Checked
  <2>2. CASE ~(DialFatal /\ ~stubMode)
    <3>1. /\ main = "partners" /\ main' = "lease"
          /\ UNCHANGED <<env, alive, relay, server, handling, forced>>
          /\ real' = {p \in GrpcPartner : Dials(p)} /\ open' = open \cup {"conns"}
      BY <1>3, <2>2 DEF dialPartners, http, GoMain
    <3>2. ASSUME ~stubMode PROVE real' = GrpcPartner /\ env.tls = "good"
      <4>1. \A p \in GrpcPartner : Dials(p)
        BY <2>2, <3>2 DEF DialFatal
      <4>2. loadTLSConfig # "error" /\ ~env.dev
        BY <4>1, <3>2 DEF GrpcPartner, Dials, NewClient, stubMode
      <4> QED BY <3>1, <4>1, <4>2 DEF loadTLSConfig
    <3> QED BY <3>1, <3>2 DEF ProcessInv, GoroutinesWithin, HandlersWithin, StillOpen,
     Checked, stubMode
  <2> QED BY <2>1, <2>2
<1>4. CASE BuildLease \/ StartWorkers
  BY <1>4 DEF BuildLease, StartWorkers, http, GoMain, ProcessInv, GoroutinesWithin,
     HandlersWithin, StillOpen,
     Checked, stubMode
<1>5. CASE StartRelay
  BY <1>5 DEF StartRelay, http, GoMain, ProcessInv, GoroutinesWithin, HandlersWithin,
     StillOpen, Checked, stubMode
<1>6. CASE RecoverStep \/ RecoverFails \/ RelayLoop \/ RelayExits \/ MigrateDown \/ MigrateUp
  BY <1>6, StaysPut DEF RecoverStep, RecoverFails, RelayLoop, RelayExits, MigrateDown,
     MigrateUp, mainVars, http, ProcessInv, HandlersWithin
<1>7. CASE Bind
  BY <1>7, StaysPut DEF Bind, http, ProcessInv, HandlersWithin
<1>8. CASE \/ \E c \in Callers : Submits(c) \/ SubmitDropped(c)
           \/ \E w \in Worker : WorkerStep(w) \/ WorkerFails(w) \/ WorkerExits(w)
  BY <1>8, StaysPut DEF Submits, SubmitDropped, WorkerStep, WorkerRuns, RunCancelled,
     WorkerFails, WorkerExits, mainVars, http, ProcessInv, HandlersWithin
<1>9. ASSUME NEW c \in Callers, Accept(c) \/ Handle(c) \/ HandleFails(c)
      PROVE  ProcessInv'
  <2>1. /\ handling \in [Callers -> Request \cup {"none"}]
        /\ UNCHANGED <<env, main, open, real, server, forced, alive, relay>>
    BY <1>9 DEF Accept, Handle, HandleFails, ProcessInv, HandlersWithin
  <2>2. \E op \in Request \cup {"none"} :
          /\ handling' = [handling EXCEPT ![c] = op]
          /\ op # "none" => server = "up"
    BY <1>9 DEF Accept, Handle, HandleFails, HandlerEnds
  <2> QED BY <2>1, <2>2, StaysPut
<1>10. CASE RelayStop
  <2>1. /\ main = "relayStop" /\ main' = "pubClose" /\ relay \in {"off", "done"}
        /\ UNCHANGED <<env, open, real, alive, relay, server, handling, forced>>
    BY <1>10, NextDefer DEF RelayStop, http, GoMain
  <2> QED BY <2>1 DEF ProcessInv, GoroutinesWithin, HandlersWithin, StillOpen, Checked,
     stubMode
<1>11. CASE WorkersStop
  <2>1. /\ main = "workersStop"
        /\ UNCHANGED <<env, open, real, alive, relay, server, handling, forced>>
        /\ main' = main \/ (main' = "redisClose" /\ alive = {})
    BY <1>11, NextDefer DEF WorkersStop, http, GoMain
  <2> QED BY <2>1 DEF ProcessInv, GoroutinesWithin, HandlersWithin, StillOpen, Checked,
     stubMode
<1>12. CASE Close
  <2>1. /\ main \in DOMAIN Closes /\ main' = AfterDefer(main) /\ open' = open \ {Closes[main]}
        /\ UNCHANGED <<env, real, alive, relay, server, handling, forced>>
    BY <1>12 DEF Close, http, GoMain
  <2>2. \/ main = "pubClose" /\ main' = "workersStop" /\ open' = open \ {"publisher"}
        \/ main = "redisClose" /\ main' = "connsClose" /\ open' = open \ {"redis"}
        \/ main = "connsClose" /\ main' = "poolClose" /\ open' = open \ {"conns"}
        \/ main = "poolClose" /\ main' = "exited" /\ open' = open \ {"pool"}
    BY <2>1, NextDefer, ClosesWhat
  <2> QED BY <2>1, <2>2 DEF ProcessInv, GoroutinesWithin, HandlersWithin, StillOpen,
     Checked, stubMode
<1>13. CASE Kill \/ Launch
  BY <1>13 DEF Kill, Launch, http, GoMain, ProcessInv, GoroutinesWithin, HandlersWithin,
     StillOpen, Checked
<1> QED BY <1>0, <1>1, <1>2, <1>3, <1>4, <1>5, <1>6, <1>7, <1>8, <1>9, <1>10, <1>11,
        <1>12, <1>13 DEF ProcessNext, Main

-----------------------------------------------------------------------------
\* No shutdown and no failed startup takes a connection away from a saga or a
\* drain that is under way.
THEOREM ClosesLast == ProcessSpec => []NoUseAfterClose
<1>1. ProcessInit => ProcessInv
  BY ProcessInitInv
<1>2. ProcessInv /\ [ProcessNext]_pvars => ProcessInv'
  BY ProcessNextInv
<1>3. ProcessInv => NoUseAfterClose
  BY DEF ProcessInv, GoroutinesWithin, HandlersWithin, StillOpen, NoUseAfterClose,
     HandlersKeepConnections, Up, WithPool, WithConns,
     WithRedis, WithWorkers, WithRelay
<1> QED BY <1>1, <1>2, <1>3, PTL DEF ProcessSpec

\* In no environment outside stub mode does a worker run a saga with a stub of
\* a gRPC partner, without TLS or on the in-memory store.
THEOREM NoStubInProduction == ProcessSpec => []ProductionIsReal
<1>1. ProcessInit => ProcessInv
  BY ProcessInitInv
<1>2. ProcessInv /\ [ProcessNext]_pvars => ProcessInv'
  BY ProcessNextInv
<1>3. ProcessInv => ProductionIsReal
  BY DEF ProcessInv, GoroutinesWithin, Checked, ProductionIsReal, Up, stubMode, WithPool,
     WithConns, WithRedis, WithWorkers
<1> QED BY <1>1, <1>2, <1>3, PTL DEF ProcessSpec
=============================================================================
