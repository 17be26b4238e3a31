------------------------------ MODULE Api_proofs ------------------------------
(***************************************************************************)
(* Single-flight inside one process, for any number of workers, sagas,     *)
(* retries and restarts: the hash of its id decides in which channel, and  *)
(* so on which worker, a saga can be.                                      *)
(*                                                                         *)
(* Then the API on top of it: what it does to the dispatcher is            *)
(* what Dispatcher allows, and its answers are true, for any number of     *)
(* callers, requests, store failures and restarts.                         *)
(***************************************************************************)
EXTENDS Api, FiniteSetTheorems, TLAPS

\* An id is only ever in the channel, and on the worker, of its partition.
Routed ==
  \A w \in Worker :
    /\ \A i \in DOMAIN partitions[w] : PartitionOf[partitions[w][i]] = w
    /\ running[w] # Idle => PartitionOf[running[w]] = w

-----------------------------------------------------------------------------
\* The process starts with empty channels and idle workers.
LEMMA DispatchInit == Init => TypeOK /\ Routed
BY DispatcherAssumption DEF Init, TypeOK, Routed, Worker

\* What Submit leaves in the channels.
LEMMA SubmitRoutes ==
  ASSUME TypeOK, Routed, NEW t \in Txs, Submit(t)
  PROVE  /\ partitions' \in [Worker -> Seq(Txs)]
         /\ \A w \in Worker :
              /\ Len(partitions'[w]) <= Concurrency
              /\ \A i \in DOMAIN partitions'[w] : PartitionOf[partitions'[w][i]] = w
<1> DEFINE v == PartitionOf[t]
<1>1. v \in Worker /\ Concurrency \in Nat /\ Worker \subseteq Int
  BY DispatcherAssumption DEF Worker
<1>2. /\ partitions[v] \in Seq(Txs) /\ Len(partitions[v]) < Concurrency
      /\ partitions' = [partitions EXCEPT ![v] = Append(@, t)]
  BY <1>1 DEF Submit, TypeOK
<1>3. /\ Append(partitions[v], t) \in Seq(Txs)
      /\ Len(Append(partitions[v], t)) <= Concurrency
      /\ DOMAIN Append(partitions[v], t) = DOMAIN partitions[v] \cup {Len(partitions[v]) + 1}
      /\ Append(partitions[v], t)[Len(partitions[v]) + 1] = t
      /\ \A i \in DOMAIN partitions[v] : Append(partitions[v], t)[i] = partitions[v][i]
  BY <1>1, <1>2
<1>4. partitions'[v] = Append(partitions[v], t)
  BY <1>1, <1>2 DEF TypeOK
<1>5. \A w \in Worker : w # v => partitions'[w] = partitions[w]
  BY <1>2 DEF TypeOK
<1>6. partitions' \in [Worker -> Seq(Txs)]
  BY <1>1, <1>2, <1>3 DEF TypeOK
<1>7. \A i \in DOMAIN partitions'[v] : PartitionOf[partitions'[v][i]] = v
  <2>1. \A i \in DOMAIN partitions[v] : PartitionOf[partitions[v][i]] = v
    BY <1>1 DEF Routed
  <2>2. \A i \in DOMAIN partitions[v] \cup {Len(partitions[v]) + 1} :
          PartitionOf[Append(partitions[v], t)[i]] = v
    BY <1>3, <2>1
  <2> QED BY <1>3, <1>4, <2>2
<1> QED BY <1>3, <1>4, <1>5, <1>6, <1>7 DEF TypeOK, Routed

\* Every step keeps ids where they belong.
LEMMA DispatchNext == TypeOK /\ Routed /\ [Next]_vars => TypeOK' /\ Routed'
<1> SUFFICES ASSUME TypeOK, Routed, [Next]_vars PROVE TypeOK' /\ Routed'
  OBVIOUS
<1> USE DispatcherAssumption
<1>0. CASE UNCHANGED vars
  BY <1>0 DEF vars, counters, TypeOK, Routed
<1>1. CASE Scan \/ ScanFails \/ Start
  BY <1>1 DEF Scan, ScanFails, Start, Inflight, counters, TypeOK, Routed
<1>2. ASSUME NEW t \in Txs, RecoverNext(t) PROVE TypeOK' /\ Routed'
  BY <1>2, SubmitRoutes DEF RecoverNext, counters, TypeOK, Routed
<1>3. ASSUME NEW t \in Txs, Create(t) \/ Compensated(t) \/ \E c \in Callers : Retry(c, t)
      PROVE  TypeOK' /\ Routed'
  BY <1>3 DEF Create, Compensated, Retry, Inflight, counters, TypeOK, Routed
<1>4. ASSUME NEW c \in Callers, RetrySubmit(c) PROVE TypeOK' /\ Routed'
  <2>1. retrying[c] \in Txs
    BY <1>4 DEF RetrySubmit, TypeOK
  <2> QED BY <1>4, <2>1, SubmitRoutes DEF RetrySubmit, counters, TypeOK, Routed
<1>5. ASSUME NEW w \in Worker, Dequeue(w) PROVE TypeOK' /\ Routed'
  <2>0. /\ partitions[w] \in Seq(Txs) /\ partitions[w] # <<>>
        /\ Len(partitions[w]) <= Concurrency /\ Concurrency \in Nat
        /\ running' = [running EXCEPT ![w] = Head(partitions[w])]
        /\ partitions' = [partitions EXCEPT ![w] = Tail(@)]
    BY <1>5 DEF Dequeue, TypeOK
  <2>1. /\ Head(partitions[w]) \in Txs /\ Head(partitions[w]) = partitions[w][1]
        /\ 1 \in DOMAIN partitions[w]
        /\ Tail(partitions[w]) \in Seq(Txs)
        /\ Len(Tail(partitions[w])) <= Concurrency
        /\ \A i \in DOMAIN Tail(partitions[w]) :
             /\ i + 1 \in DOMAIN partitions[w]
             /\ Tail(partitions[w])[i] = partitions[w][i + 1]
    BY <2>0
  <2>2. TypeOK'
    BY <1>5, <2>0, <2>1 DEF Dequeue, counters, TypeOK
  <2>3. Routed'
    BY <2>0, <2>1 DEF TypeOK, Routed
  <2> QED BY <2>2, <2>3
<1>6. ASSUME NEW w \in Worker, RunEnds(w) \/ RunFails(w) PROVE TypeOK' /\ Routed'
  <2>1. /\ running[w] \in Txs /\ partitions' = partitions
        /\ running' = [running EXCEPT ![w] = Idle]
    BY <1>6 DEF RunEnds, RunFails, TypeOK
  <2>2. ASSUME RunEnds(w) PROVE TypeOK'
    BY <2>1, <2>2 DEF RunEnds, counters, TypeOK
  <2>3. ASSUME RunFails(w) PROVE TypeOK'
    BY <2>1, <2>3 DEF RunFails, TypeOK
  <2>4. Routed'
    BY <2>1 DEF TypeOK, Routed
  <2> QED BY <1>6, <2>2, <2>3, <2>4
<1>7. CASE Restart
  BY <1>7 DEF Restart, TypeOK, Routed
<1> QED BY <1>0, <1>1, <1>2, <1>3, <1>4, <1>5, <1>6, <1>7 DEF Next, Recover, Work

-----------------------------------------------------------------------------
\* "The same tx is always processed by the same worker": two workers of one
\* process never run one saga at the same time, for every number of workers
\* and every sequence of submissions, retries and restarts.
THEOREM WorkersSingleFlight == Spec => []OneWorkerPerTx
<1>1. Init => TypeOK /\ Routed
  BY DispatchInit
<1>2. TypeOK /\ Routed /\ [Next]_vars => TypeOK' /\ Routed'
  BY DispatchNext
<1>3. Routed => OneWorkerPerTx
  BY DEF Routed, OneWorkerPerTx
<1> QED BY <1>1, <1>2, <1>3, PTL DEF Spec

-----------------------------------------------------------------------------
(* The API.                                                                *)

\* The API does to sagas, channels and workers only what the dispatcher's own
\* specification allows: whatever is proved of that holds under the API.
LEMMA ApiStepDispatches == [ApiNext]_avars => [Next]_vars
<1> SUFFICES ASSUME [ApiNext]_avars PROVE Next \/ UNCHANGED vars
  OBVIOUS
<1>0. CASE UNCHANGED avars
  BY <1>0 DEF avars
<1>1. CASE Workers \/ ApiRestart
  BY <1>1 DEF Workers, ApiRestart, Next
<1>2. ASSUME NEW c \in Callers, Send(c) \/ Tick(c) \/ Middleware(c) \/ validateCreate(c)
                 \/ Acquire(c) \/ Refuse(c) \/ LoadFails(c) \/ handleCompensate(c)
      PROVE  UNCHANGED vars
  BY <1>2 DEF Send, Tick, Middleware, validateCreate, Acquire, Refuse, LoadFails,
     handleCompensate
<1>3. ASSUME NEW c \in Callers, NEW t \in Txs, CreateTx(c, t) \/ CreateTxFails(c, t)
      PROVE  Next \/ UNCHANGED vars
  BY <1>3 DEF CreateTx, CreateTxFails, Next
<1>4. ASSUME NEW c \in Callers, RetryAccepted(c) PROVE Next
  BY <1>4 DEF RetryAccepted, Next
<1>5. ASSUME NEW c \in Callers, handleRetry(c) PROVE Next
  <2>1. Retry(c, call[c].tx) /\ call[c].tx \in Txs
    BY <1>5 DEF handleRetry, Retry, Inflight
  <2> QED BY <2>1 DEF Next
<1>6. ASSUME NEW c \in Callers, CascadeEnds(c) PROVE Next \/ UNCHANGED vars
  <2>1. Compensated(call[c].tx) => call[c].tx \in Txs
    BY DEF Compensated, Inflight
  <2> QED BY <1>6, <2>1 DEF CascadeEnds, Next
<1> QED BY <1>0, <1>1, <1>2, <1>3, <1>4, <1>5, <1>6 DEF ApiNext, Handle

\* A saga that exists stays, and one that is not in flight stays so.
LEMMA SagasMove ==
  ASSUME TypeOK, [Next]_vars, NEW t \in Txs, sagas[t] # "absent"
  PROVE  sagas'[t] # "absent" /\ (t \notin Inflight => t \notin Inflight')
<1>1. CASE UNCHANGED sagas
  BY <1>1 DEF Inflight
<1>2. ASSUME NEW u \in Txs, Create(u) \/ Compensated(u)
      PROVE  sagas'[t] # "absent" /\ (t \notin Inflight => t \notin Inflight')
  BY <1>2 DEF Create, Compensated, Inflight, TypeOK
<1>3. ASSUME NEW w \in Worker, RunEnds(w)
      PROVE  sagas'[t] # "absent" /\ (t \notin Inflight => t \notin Inflight')
  BY <1>3 DEF RunEnds, Inflight, TypeOK
<1> QED BY <1>1, <1>2, <1>3 DEF Next, vars, Recover, Scan, Start, RecoverNext, ScanFails, Restart,
        Retry, RetrySubmit, Work, Dequeue, RunFails

\* The type of a request.
Stage == {"idle", "sent"} \cup Serving
Op == {"none", "create", "retry", "compensate"}
Status == {0, 201, 202, 400, 401, 409, 500}
CallRecord ==
  [at: Stage, op: Op, tx: Txs \cup {Idle}, life: Expired .. TokenLife, status: Status]

\* Which request a handler serves; a request is answered only when it ends.
Shaped(x) ==
  /\ x.at \in {"create", "insert"} => x.op = "create"
  /\ x.at \in {"retry", "submit"} => x.op = "retry"
  /\ x.at \in {"compensate", "cascade"} => x.op = "compensate"
  /\ x.at # "idle" => x.op # "none" /\ x.status = 0
  /\ x.op \in {"retry", "compensate"} => x.tx \in Txs /\ sagas[x.tx] # "absent"

CallShape == \A c \in Callers : Shaped(call[c])

\* A request leaves its caller without an answer at most once.
LostCounted ==
  \A c \in Callers :
    lost[c] + (IF call[c].at = "idle" THEN 0 ELSE 1) <= calls[c]

\* What a refusal says of the token and of the saga.
RefusalsTrue ==
  \A c \in Callers :
    /\ call[c].status = 401 => call[c].life = Expired
    /\ call[c].status = 409 /\ call[c].op = "retry" =>
         call[c].tx \notin Inflight \/ dbFails > 0

\* Every transaction that was bought is in the store, and every caller has
\* been told of its own or has lost an answer for it.
BooksBalance ==
  /\ \A t \in Txs : buyer[t] # Idle => sagas[t] # "absent"
  /\ \A c \in Callers :
       /\ known[c] \subseteq Bought(c)
       /\ IsFiniteSet(Bought(c))
       /\ Cardinality(Bought(c)) <= Cardinality(known[c]) + lost[c]

CallInv == ApiTypeOK /\ Routed /\ CallShape /\ LostCounted /\ RefusalsTrue
ApiInv == CallInv /\ BooksBalance

\* Nobody has asked for anything yet.
LEMMA ApiInitInv == ApiInit => ApiInv
<1> SUFFICES ASSUME ApiInit PROVE ApiInv
  OBVIOUS
<1>1. TypeOK /\ Routed
  BY DispatchInit DEF ApiInit
<1>2. TokenLife \in Nat /\ MaxCalls \in Nat /\ MaxDbFails \in Nat /\ Idle \notin Callers
  BY ApiAssumption
<1>3. \A c \in Callers : Bought(c) = {}
  BY <1>2 DEF ApiInit, Bought
<1>4. IsFiniteSet({}) /\ Cardinality({}) = 0
  BY FS_EmptySet
<1>5. BooksBalance
  BY <1>3, <1>4 DEF ApiInit, BooksBalance
<1>6. ApiTypeOK
  BY <1>1, <1>2 DEF ApiInit, ApiTypeOK, NoCall, Expired, Serving
<1>7. CallShape /\ LostCounted /\ RefusalsTrue
  BY DEF ApiInit, NoCall, CallShape, Shaped, LostCounted, RefusalsTrue, Expired
<1> QED BY <1>1, <1>5, <1>6, <1>7 DEF ApiInv, CallInv

\* A step of one request: the others' stay what they are.
LEMMA OneCall ==
  ASSUME CallInv, [ApiNext]_avars, NEW c \in Callers,
         call' \in [Callers -> CallRecord],
         calls' \in [Callers -> 0 .. MaxCalls], lost' \in [Callers -> Nat],
         buyer' \in [Txs -> Callers \cup {Idle}], known' \in [Callers -> SUBSET Txs],
         dbFails' \in 0 .. MaxDbFails, dbFails <= dbFails',
         \A d \in Callers :
           d # c => call'[d] = call[d] /\ lost'[d] = lost[d] /\ calls'[d] = calls[d],
         lost'[c] + (IF call'[c].at = "idle" THEN 0 ELSE 1) <= calls'[c],
         Shaped(call'[c]),
         call'[c].status = 401 => call'[c].life = Expired,
         call'[c].status = 409 /\ call'[c].op = "retry" =>
           call'[c].tx \notin Inflight \/ dbFails' > 0
  PROVE  CallInv'
<1>1. TypeOK /\ Routed /\ TypeOK' /\ Routed' /\ [Next]_vars
  BY ApiStepDispatches, DispatchNext DEF CallInv, ApiTypeOK
<1>2. MaxCalls \in Nat /\ MaxDbFails \in Nat
  BY ApiAssumption
<1>3. \A t \in Txs : sagas[t] # "absent" =>
        sagas'[t] # "absent" /\ (t \notin Inflight => t \notin Inflight')
  BY <1>1, SagasMove
<1>4. CallShape'
  <2>1. \A x : Shaped(x) => Shaped(x)'
    BY <1>3 DEF Shaped
  <2> QED BY <2>1 DEF CallInv, CallShape
<1>5. LostCounted'
  <2>1. \A d \in Callers :
          d # c => lost'[d] + (IF call'[d].at = "idle" THEN 0 ELSE 1) <= calls'[d]
    BY DEF CallInv, LostCounted
  <2> QED BY <2>1 DEF LostCounted
<1>6. ApiTypeOK'
  <2>1. \A d \in Callers : lost'[d] <= MaxCalls
    BY <1>2, <1>5 DEF LostCounted
  <2>2. lost' \in [Callers -> 0 .. MaxCalls]
    BY <1>2, <2>1
  <2> QED BY <1>1, <2>2 DEF ApiTypeOK, CallRecord, Stage, Op, Status
<1>7. dbFails > 0 => dbFails' > 0
  BY <1>2 DEF CallInv, ApiTypeOK
<1>8. RefusalsTrue'
  <2> SUFFICES ASSUME NEW d \in Callers, d # c
               PROVE  /\ call[d].status = 401 => call[d].life = Expired
                      /\ call[d].status = 409 /\ call[d].op = "retry" =>
                           call[d].tx \notin Inflight' \/ dbFails' > 0
    BY <1>3 DEF RefusalsTrue, Shaped, Expired
  <2>1. call[d].op = "retry" => call[d].tx \in Txs /\ sagas[call[d].tx] # "absent"
    BY DEF CallInv, CallShape, Shaped
  <2> QED BY <1>3, <1>7, <2>1 DEF CallInv, RefusalsTrue
<1> QED BY <1>1, <1>4, <1>5, <1>6, <1>8 DEF CallInv

\* The three ways a request's record changes.
LEMMA CallFields ==
  ASSUME NEW x \in CallRecord, NEW l \in Expired .. TokenLife,
         NEW stage \in Stage, NEW code \in Status
  PROVE  /\ [x EXCEPT !.at = stage, !.life = l] \in CallRecord
         /\ [x EXCEPT !.at = stage, !.status = code] \in CallRecord
         /\ [x EXCEPT !.life = l] \in CallRecord
BY DEF CallRecord

\* A handler goes on to its next stage.
LEMMA GoesOn ==
  ASSUME CallInv, [ApiNext]_avars, NEW c \in Callers, NEW stage \in Serving,
         Goes(c, stage), UNCHANGED <<calls, buyer, known, lost, dbFails>>,
         call[c].at # "idle",
         stage \in {"create", "insert"} => call[c].op = "create",
         stage \in {"retry", "submit"} => call[c].op = "retry",
         stage \in {"compensate", "cascade"} => call[c].op = "compensate"
  PROVE  CallInv'
<1>t. /\ call \in [Callers -> CallRecord] /\ calls \in [Callers -> 0 .. MaxCalls]
      /\ lost \in [Callers -> Nat] /\ buyer \in [Txs -> Callers \cup {Idle}]
      /\ known \in [Callers -> SUBSET Txs] /\ dbFails \in 0 .. MaxDbFails /\ dbFails <= dbFails
  BY ApiAssumption DEF CallInv, ApiTypeOK, CallRecord, Stage, Op, Status
<1>1. Shaped(call[c]) /\ lost[c] + 1 <= calls[c] /\ call[c].status = 0
  BY DEF CallInv, CallShape, LostCounted, Shaped
<1>0. [call[c] EXCEPT !.at = stage, !.life = Expired] \in CallRecord
  <2>1. call[c] \in CallRecord /\ Expired \in Expired .. TokenLife /\ stage \in Stage
    BY <1>t, ApiAssumption DEF Expired, Stage
  <2>2. call[c].status \in Status
    BY <2>1 DEF CallRecord
  <2> QED BY <2>1, <2>2, CallFields
<1>2. /\ call'[c] = [call[c] EXCEPT !.at = stage, !.life = Expired]
      /\ call' \in [Callers -> CallRecord]
      /\ \A d \in Callers : d # c => call'[d] = call[d]
  BY <1>t, <1>0 DEF Goes
<1>3. /\ call'[c].at = stage /\ call'[c].op = call[c].op /\ call'[c].tx = call[c].tx
      /\ call'[c].status = 0
  BY <1>t, <1>1, <1>2 DEF CallRecord
<1>4. stage # "idle"
  BY DEF Serving
<1>5. Shaped(call'[c])
  BY <1>1, <1>3, <1>4 DEF Shaped, Serving
<1>6. lost'[c] + (IF call'[c].at = "idle" THEN 0 ELSE 1) <= calls'[c]
  BY <1>1, <1>3, <1>4
<1>7. /\ calls' \in [Callers -> 0 .. MaxCalls] /\ lost' \in [Callers -> Nat]
      /\ buyer' \in [Txs -> Callers \cup {Idle}] /\ known' \in [Callers -> SUBSET Txs]
      /\ dbFails' \in 0 .. MaxDbFails /\ dbFails <= dbFails'
      /\ \A d \in Callers :
           d # c => call'[d] = call[d] /\ lost'[d] = lost[d] /\ calls'[d] = calls[d]
  BY <1>t, <1>2
<1>8. /\ call'[c].status = 401 => call'[c].life = Expired
      /\ call'[c].status = 409 /\ call'[c].op = "retry" =>
           call'[c].tx \notin Inflight \/ dbFails' > 0
  BY <1>3
<1> QED BY <1>2, <1>5, <1>6, <1>7, <1>8, OneCall

\* A handler answers its request; the caller of a create request may be left
\* without an answer.
LEMMA Answers ==
  ASSUME CallInv, [ApiNext]_avars, NEW c \in Callers, NEW code \in Status,
         Answer(c, code), UNCHANGED calls, call[c].at # "idle",
         buyer' \in [Txs -> Callers \cup {Idle}], known' \in [Callers -> SUBSET Txs],
         dbFails' \in 0 .. MaxDbFails, dbFails <= dbFails',
         lost' = lost \/ lost' = [lost EXCEPT ![c] = @ + 1],
         code = 401 => call[c].life = Expired,
         code = 409 /\ call[c].op = "retry" => call[c].tx \notin Inflight \/ dbFails' > 0
  PROVE  CallInv'
<1>t. /\ call \in [Callers -> CallRecord] /\ calls \in [Callers -> 0 .. MaxCalls]
      /\ lost \in [Callers -> Nat]
  BY ApiAssumption DEF CallInv, ApiTypeOK, CallRecord, Stage, Op, Status
<1>1. Shaped(call[c]) /\ lost[c] + 1 <= calls[c]
  BY DEF CallInv, CallShape, LostCounted
<1>0. [call[c] EXCEPT !.at = "idle", !.status = code] \in CallRecord
  <2>1. call[c] \in CallRecord /\ "idle" \in Stage
    BY <1>t DEF Stage
  <2>2. call[c].life \in Expired .. TokenLife
    BY <2>1 DEF CallRecord
  <2> QED BY <2>1, <2>2, CallFields
<1>2. /\ call'[c] = [call[c] EXCEPT !.at = "idle", !.status = code]
      /\ call' \in [Callers -> CallRecord]
      /\ \A d \in Callers : d # c => call'[d] = call[d]
  BY <1>t, <1>0 DEF Answer
<1>3. /\ call'[c].at = "idle" /\ call'[c].op = call[c].op /\ call'[c].tx = call[c].tx
      /\ call'[c].status = code /\ call'[c].life = call[c].life
  BY <1>t, <1>2 DEF CallRecord
<1>4. Shaped(call'[c])
  BY <1>1, <1>3 DEF Shaped
<1>5. /\ lost' \in [Callers -> Nat] /\ lost'[c] + 0 <= calls[c]
      /\ \A d \in Callers : d # c => lost'[d] = lost[d]
  <2>1. CASE lost' = lost
    BY <1>t, <1>1, <2>1, ApiAssumption
  <2>2. CASE lost' = [lost EXCEPT ![c] = @ + 1]
    BY <1>t, <1>1, <2>2, ApiAssumption
  <2> QED BY <2>1, <2>2
<1>6. lost'[c] + (IF call'[c].at = "idle" THEN 0 ELSE 1) <= calls'[c]
  BY <1>3, <1>5
<1>7. /\ calls' \in [Callers -> 0 .. MaxCalls]
      /\ \A d \in Callers :
           d # c => call'[d] = call[d] /\ lost'[d] = lost[d] /\ calls'[d] = calls[d]
  BY <1>t, <1>2, <1>5
<1>8. /\ call'[c].status = 401 => call'[c].life = Expired
      /\ call'[c].status = 409 /\ call'[c].op = "retry" =>
           call'[c].tx \notin Inflight \/ dbFails' > 0
  BY <1>3
<1> QED BY <1>2, <1>4, <1>5, <1>6, <1>7, <1>8, OneCall

\* No step of a worker, a caller or a handler makes an answer untrue.
LEMMA CallNext == CallInv /\ [ApiNext]_avars => CallInv'
<1> SUFFICES ASSUME CallInv, [ApiNext]_avars PROVE CallInv'
  OBVIOUS
<1>t. /\ call \in [Callers -> CallRecord] /\ calls \in [Callers -> 0 .. MaxCalls]
      /\ lost \in [Callers -> Nat] /\ buyer \in [Txs -> Callers \cup {Idle}]
      /\ known \in [Callers -> SUBSET Txs] /\ dbFails \in 0 .. MaxDbFails
  <2>1. MaxCalls \in Nat
    BY ApiAssumption
  <2> QED BY <2>1 DEF CallInv, ApiTypeOK, CallRecord, Stage, Op, Status
<1>a. TokenLife \in Nat /\ MaxCalls \in Nat /\ MaxDbFails \in Nat /\ Bypass \in BOOLEAN
  BY ApiAssumption
<1>b. /\ \A c \in Callers : Shaped(call[c])
      /\ \A c \in Callers : lost[c] + (IF call[c].at = "idle" THEN 0 ELSE 1) <= calls[c]
      /\ \A c \in Callers : call[c].status = 401 => call[c].life = Expired
  BY DEF CallInv, CallShape, LostCounted, RefusalsTrue
<1>0. CASE UNCHANGED api
  <2>1. TypeOK' /\ Routed' /\ TypeOK /\ [Next]_vars
    BY ApiStepDispatches, DispatchNext DEF CallInv, ApiTypeOK
  <2>2. \A t \in Txs : sagas[t] # "absent" =>
          sagas'[t] # "absent" /\ (t \notin Inflight => t \notin Inflight')
    BY <2>1, SagasMove
  <2>3. ApiTypeOK' /\ LostCounted'
    BY <1>0, <2>1 DEF CallInv, ApiTypeOK, LostCounted, api
  <2>4. CallShape'
    BY <1>0, <2>2 DEF CallInv, CallShape, Shaped, api
  <2>5. RefusalsTrue'
    BY <1>0, <2>2 DEF CallInv, CallShape, Shaped, RefusalsTrue, api
  <2> QED BY <2>1, <2>3, <2>4, <2>5 DEF CallInv
<1>1. CASE ApiRestart
  <2>1. TypeOK' /\ Routed' /\ UNCHANGED <<sagas, calls, buyer, known, dbFails>>
    BY <1>1, ApiStepDispatches, DispatchNext DEF CallInv, ApiTypeOK, ApiRestart, Restart
  <2>2. /\ NoCall \in CallRecord /\ NoCall.at = "idle" /\ NoCall.status = 0 /\ Shaped(NoCall)
    BY <1>a DEF NoCall, CallRecord, Stage, Op, Status, Shaped, Expired, Serving
  <2>3. /\ call' \in [Callers -> CallRecord]
        /\ \A c \in Callers : call'[c] = IF call[c].at = "idle" THEN call[c] ELSE NoCall
    BY <1>1, <1>t, <2>2 DEF ApiRestart
  <2>4. /\ lost' \in [Callers -> Nat]
        /\ \A c \in Callers : lost'[c] <= lost[c] + (IF call[c].at = "idle" THEN 0 ELSE 1)
    BY <1>1, <1>t DEF ApiRestart
  <2>5. LostCounted'
    BY <1>b, <1>t, <2>1, <2>2, <2>3, <2>4 DEF LostCounted
  <2>6. lost' \in [Callers -> 0 .. MaxCalls]
    BY <1>t, <1>a, <1>b, <2>4
  <2>7. ApiTypeOK'
    BY <1>t, <2>1, <2>3, <2>6 DEF ApiTypeOK, CallRecord, Stage, Op, Status
  <2>8. CallShape'
    BY <1>b, <2>1, <2>2, <2>3 DEF CallShape, Shaped
  <2>9. RefusalsTrue'
    BY <2>1, <2>2, <2>3 DEF CallInv, RefusalsTrue, Inflight
  <2> QED BY <2>1, <2>5, <2>7, <2>8, <2>9 DEF CallInv
<1>2. ASSUME NEW c \in Callers, Send(c) PROVE CallInv'
  <2>1. PICK life \in Expired .. TokenLife, op \in {"create", "retry", "compensate"},
             t \in Txs \cup {Idle} :
          /\ IF op = "create" THEN t = Idle ELSE t # Idle /\ sagas[t] # "absent"
          /\ call' = [call EXCEPT ![c] = [at |-> "sent", op |-> op, tx |-> t,
                                          life |-> life, status |-> 0]]
    BY <1>2 DEF Send
  <2>2. /\ call[c].at = "idle" /\ calls[c] < MaxCalls
        /\ calls' = [calls EXCEPT ![c] = @ + 1] /\ UNCHANGED <<buyer, known, lost, dbFails>>
    BY <1>2 DEF Send
  <2>3. call' \in [Callers -> CallRecord] /\ Shaped(call'[c])
        /\ call'[c].status = 0 /\ call'[c].at = "sent"
    BY <1>t, <2>1 DEF CallRecord, Stage, Op, Status, Shaped
  <2>4. calls'[c] = calls[c] + 1 /\ calls' \in [Callers -> 0 .. MaxCalls]
        /\ lost'[c] + 1 <= calls'[c]
    BY <1>t, <1>a, <1>b, <2>2
  <2>5. \A d \in Callers :
          d # c => call'[d] = call[d] /\ lost'[d] = lost[d] /\ calls'[d] = calls[d]
    BY <1>t, <2>1, <2>2
  <2> QED BY <1>t, <2>2, <2>3, <2>4, <2>5, OneCall
<1>3. ASSUME NEW c \in Callers, Tick(c) PROVE CallInv'
  <2>1. /\ call[c].at = "sent" /\ call[c].life # Expired
        /\ call' = [call EXCEPT ![c].life = @ - 1]
        /\ UNCHANGED <<calls, buyer, known, lost, dbFails>>
    BY <1>3 DEF Tick
  <2>2. call[c].life \in Expired .. TokenLife /\ call[c].life - 1 \in Expired .. TokenLife
    BY <1>t, <1>a, <2>1 DEF CallRecord, Expired
  <2>a. [call[c] EXCEPT !.life = @ - 1] \in CallRecord
    <3>1. call[c] \in CallRecord /\ [call[c] EXCEPT !.life = @ - 1]
                                   = [call[c] EXCEPT !.life = call[c].life - 1]
      BY <1>t
    <3>2. call[c].at \in Stage /\ call[c].status \in Status
      BY <3>1 DEF CallRecord
    <3> QED BY <2>2, <3>1, <3>2, CallFields
  <2>3. /\ call'[c] = [call[c] EXCEPT !.life = @ - 1]
        /\ call' \in [Callers -> CallRecord]
        /\ \A d \in Callers : d # c => call'[d] = call[d]
    BY <1>t, <2>1, <2>a
  <2>4. /\ call'[c].at = "sent" /\ call'[c].op = call[c].op /\ call'[c].tx = call[c].tx
        /\ call'[c].status = call[c].status
    BY <1>t, <2>1, <2>3 DEF CallRecord
  <2>5. Shaped(call'[c]) /\ call'[c].status = 0 /\ lost[c] + 1 <= calls[c]
    BY <1>b, <2>1, <2>4 DEF Shaped
  <2>6. dbFails <= dbFails
    BY <1>t
  <2> QED BY <1>t, <2>1, <2>3, <2>4, <2>5, <2>6, OneCall
<1>4. ASSUME NEW c \in Callers, Middleware(c) PROVE CallInv'
  <2>1. call[c].at = "sent" /\ UNCHANGED <<calls, buyer, known, lost, dbFails>>
    BY <1>4 DEF Middleware
  <2>2. call[c].op \in {"create", "retry", "compensate"}
    BY <1>t, <1>b, <2>1 DEF Shaped, CallRecord, Op
  <2>3. CASE Goes(c, call[c].op)
    BY <2>1, <2>2, <2>3, GoesOn DEF Serving
  <2>4. CASE Answer(c, 401) /\ ~(0 <= call[c].life)
    <3>1. call[c].life = Expired
      BY <1>t, <1>a, <2>4 DEF CallRecord, Expired
    <3>2. dbFails <= dbFails
      BY <1>t
    <3> QED BY <1>t, <2>1, <2>4, <3>1, <3>2, Answers DEF Status
  <2> QED BY <1>4, <2>3, <2>4 DEF Middleware
<1>5. ASSUME NEW c \in Callers, Acquire(c) \/ handleRetry(c) \/ handleCompensate(c)
      PROVE  CallInv'
  <2>1. UNCHANGED <<calls, buyer, known, lost, dbFails>>
    BY <1>5 DEF Acquire, handleRetry, handleCompensate
  <2>2. \/ call[c].at = "create" /\ Goes(c, "insert")
        \/ call[c].at = "retry" /\ Goes(c, "submit")
        \/ call[c].at = "compensate" /\ Goes(c, "cascade")
    BY <1>5 DEF Acquire, handleRetry, handleCompensate
  <2>3. Shaped(call[c])
    BY <1>b
  <2> QED BY <2>1, <2>2, <2>3, GoesOn DEF Serving, Shaped
<1>6. ASSUME NEW c \in Callers,
             validateCreate(c) \/ Refuse(c) \/ RetryAccepted(c) \/ CascadeEnds(c)
      PROVE  CallInv'
  <2>1. UNCHANGED <<calls, buyer, known, lost, dbFails>> /\ call[c].at # "idle"
        /\ dbFails <= dbFails
    BY <1>6, <1>t DEF validateCreate, Refuse, RetryAccepted, CascadeEnds
  <2>2. \/ Answer(c, 400) \/ Answer(c, 202)
        \/ Answer(c, 409) /\ (call[c].tx \notin Inflight \/ call[c].at = "cascade")
    BY <1>6 DEF validateCreate, Refuse, RetryAccepted, CascadeEnds
  <2>3. Shaped(call[c])
    BY <1>b
  <2>4. CASE Answer(c, 400) \/ Answer(c, 202)
    BY <1>t, <2>1, <2>4, Answers DEF Status
  <2>5. CASE Answer(c, 409) /\ (call[c].tx \notin Inflight \/ call[c].at = "cascade")
    <3>1. call[c].op = "retry" => call[c].tx \notin Inflight
      BY <2>3, <2>5 DEF Shaped
    <3> QED BY <1>t, <2>1, <2>5, <3>1, Answers DEF Status
  <2> QED BY <2>2, <2>4, <2>5
<1>7. ASSUME NEW c \in Callers, LoadFails(c) PROVE CallInv'
  <2>1. /\ UNCHANGED <<calls, buyer, known, lost>> /\ call[c].at # "idle"
        /\ dbFails < MaxDbFails /\ dbFails' = dbFails + 1
        /\ Answer(c, 409) \/ Answer(c, 400)
    BY <1>7 DEF LoadFails
  <2>2. dbFails <= dbFails' /\ dbFails' > 0 /\ dbFails' \in 0 .. MaxDbFails
    BY <1>t, <1>a, <2>1
  <2> QED BY <1>t, <2>1, <2>2, Answers DEF Status
<1>8. ASSUME NEW c \in Callers, NEW t \in Txs, CreateTx(c, t) \/ CreateTxFails(c, t)
      PROVE  CallInv'
  <2>1. /\ UNCHANGED calls /\ call[c].at # "idle"
        /\ Answer(c, 201) \/ Answer(c, 0) \/ Answer(c, 500)
        /\ lost' = lost \/ lost' = [lost EXCEPT ![c] = @ + 1]
    BY <1>8 DEF CreateTx, CreateTxFails
  <2>2. /\ buyer' \in [Txs -> Callers \cup {Idle}] /\ known' \in [Callers -> SUBSET Txs]
    BY <1>8, <1>t DEF CreateTx, CreateTxFails
  <2>3. dbFails' \in 0 .. MaxDbFails /\ dbFails <= dbFails'
    BY <1>8, <1>t, <1>a DEF CreateTx, CreateTxFails
  <2> QED BY <2>1, <2>2, <2>3, Answers DEF Status
<1>9. UNCHANGED avars => UNCHANGED api
  BY DEF avars
<1> QED BY <1>0, <1>1, <1>2, <1>3, <1>4, <1>5, <1>6, <1>7, <1>8, <1>9 DEF ApiNext, Handle

\* One more transaction for caller c; everybody else's stay.
LEMMA BoughtOneMore ==
  ASSUME ApiInv, NEW c \in Callers, NEW t \in Txs, sagas[t] = "absent",
         buyer' = [buyer EXCEPT ![t] = c]
  PROVE  /\ Bought(c)' = Bought(c) \cup {t} /\ t \notin Bought(c) /\ t \notin known[c]
         /\ \A d \in Callers : d # c => Bought(d)' = Bought(d)
         /\ IsFiniteSet(Bought(c)') /\ Cardinality(Bought(c)') = Cardinality(Bought(c)) + 1
<1>1. buyer \in [Txs -> Callers \cup {Idle}] /\ buyer[t] = Idle /\ Idle \notin Callers
  BY ApiAssumption DEF ApiInv, CallInv, ApiTypeOK, BooksBalance
<1>2. \A u \in Txs : buyer'[u] = IF u = t THEN c ELSE buyer[u]
  BY <1>1
<1>3. Bought(c)' = Bought(c) \cup {t} /\ t \notin Bought(c)
  BY <1>1, <1>2 DEF Bought
<1>4. \A d \in Callers : d # c => Bought(d)' = Bought(d)
  BY <1>1, <1>2 DEF Bought
<1>5. t \notin known[c] /\ IsFiniteSet(Bought(c))
  BY <1>3 DEF ApiInv, BooksBalance
<1> QED BY <1>3, <1>4, <1>5, FS_AddElement

\* A create request either tells its caller or counts as lost.
LEMMA BooksNext == ApiInv /\ [ApiNext]_avars => BooksBalance'
<1> SUFFICES ASSUME ApiInv, [ApiNext]_avars PROVE BooksBalance'
  OBVIOUS
<1>1. /\ ApiTypeOK /\ ApiTypeOK' /\ TypeOK /\ [Next]_vars
      /\ lost \in [Callers -> Nat] /\ lost' \in [Callers -> Nat]
  BY CallNext, ApiStepDispatches, ApiAssumption DEF ApiInv, CallInv, ApiTypeOK
<1>2. \A t \in Txs : sagas[t] # "absent" => sagas'[t] # "absent"
  BY <1>1, SagasMove
<1>3. \A c \in Callers : /\ IsFiniteSet(Bought(c)) /\ IsFiniteSet(known[c])
                         /\ Cardinality(Bought(c)) \in Nat /\ Cardinality(known[c]) \in Nat
  <2> SUFFICES ASSUME NEW c \in Callers
               PROVE  /\ IsFiniteSet(Bought(c)) /\ IsFiniteSet(known[c])
                      /\ Cardinality(Bought(c)) \in Nat /\ Cardinality(known[c]) \in Nat
    OBVIOUS
  <2>1. IsFiniteSet(Bought(c)) /\ known[c] \subseteq Bought(c)
    BY DEF ApiInv, BooksBalance
  <2>2. IsFiniteSet(known[c])
    BY <2>1, FS_Subset
  <2> QED BY <2>1, <2>2, FS_CardinalityType
<1>4. CASE UNCHANGED <<buyer, known>> /\ \A c \in Callers : lost[c] <= lost'[c]
  <2>1. \A c \in Callers : Bought(c)' = Bought(c)
    BY <1>4 DEF Bought
  <2>2. \A t \in Txs : buyer'[t] # Idle => sagas'[t] # "absent"
    BY <1>2, <1>4 DEF ApiInv, BooksBalance
  <2>3. \A c \in Callers : Cardinality(Bought(c)) <= Cardinality(known[c]) + lost'[c]
    BY <1>1, <1>3, <1>4 DEF ApiInv, BooksBalance
  <2> QED BY <1>3, <1>4, <2>1, <2>2, <2>3 DEF ApiInv, BooksBalance
<1>5. ASSUME NEW c \in Callers, NEW t \in Txs, Create(t), buyer' = [buyer EXCEPT ![t] = c],
             \/ known' = [known EXCEPT ![c] = @ \cup {t}] /\ UNCHANGED lost
             \/ lost' = [lost EXCEPT ![c] = @ + 1] /\ UNCHANGED known
      PROVE  BooksBalance'
  <2>1. sagas[t] = "absent" /\ sagas' = [sagas EXCEPT ![t] = "inflight"]
    BY <1>5 DEF Create
  <2>2. /\ Bought(c)' = Bought(c) \cup {t} /\ t \notin Bought(c) /\ t \notin known[c]
        /\ \A d \in Callers : d # c => Bought(d)' = Bought(d)
        /\ IsFiniteSet(Bought(c)') /\ Cardinality(Bought(c)') = Cardinality(Bought(c)) + 1
    BY <1>5, <2>1, BoughtOneMore
  <2>3. \A u \in Txs : buyer'[u] # Idle => sagas'[u] # "absent"
    BY <1>1, <1>5, <2>1 DEF ApiInv, BooksBalance, ApiTypeOK, TypeOK
  <2>4. Cardinality(Bought(c)) <= Cardinality(known[c]) + lost[c]
    BY DEF ApiInv, BooksBalance
  <2>5. \A d \in Callers : d # c => known'[d] = known[d] /\ lost'[d] = lost[d]
    BY <1>1, <1>5 DEF ApiTypeOK
  <2>6. known'[c] \subseteq Bought(c)'
        /\ Cardinality(Bought(c)') <= Cardinality(known'[c]) + lost'[c]
    <3>1. CASE known' = [known EXCEPT ![c] = @ \cup {t}] /\ UNCHANGED lost
      <4>1. known'[c] = known[c] \cup {t}
        BY <1>1, <3>1 DEF ApiTypeOK
      <4>2. Cardinality(known'[c]) = Cardinality(known[c]) + 1
        BY <1>3, <2>2, <4>1, FS_AddElement
      <4>3. known'[c] \subseteq Bought(c)'
        BY <2>2, <4>1 DEF ApiInv, BooksBalance
      <4> QED BY <1>1, <1>3, <2>2, <2>4, <3>1, <4>2, <4>3
    <3>2. CASE lost' = [lost EXCEPT ![c] = @ + 1] /\ UNCHANGED known
      <4>1. lost'[c] = lost[c] + 1 /\ known'[c] = known[c]
        BY <1>1, <3>2
      <4>2. known'[c] \subseteq Bought(c)'
        BY <2>2, <4>1 DEF ApiInv, BooksBalance
      <4> QED BY <1>1, <1>3, <2>2, <2>4, <4>1, <4>2
    <3> QED BY <1>5, <3>1, <3>2
  <2>7. ASSUME NEW d \in Callers, d # c
        PROVE  /\ known'[d] \subseteq Bought(d)' /\ IsFiniteSet(Bought(d)')
               /\ Cardinality(Bought(d)') <= Cardinality(known'[d]) + lost'[d]
    BY <2>2, <2>5, <2>7 DEF ApiInv, BooksBalance
  <2> QED BY <2>2, <2>3, <2>6, <2>7 DEF BooksBalance
<1>6. ASSUME NEW c \in Callers, NEW t \in Txs, CreateTx(c, t) \/ CreateTxFails(c, t)
      PROVE  BooksBalance'
  <2>1. lost' = [lost EXCEPT ![c] = @ + 1] => \A d \in Callers : lost[d] <= lost'[d]
    BY <1>1
  <2> QED BY <1>4, <1>5, <1>6, <2>1 DEF CreateTx, CreateTxFails
<1>7. CASE ApiRestart
  <2>1. UNCHANGED <<buyer, known>> /\ \A c \in Callers : lost[c] <= lost'[c]
    BY <1>1, <1>7 DEF ApiRestart
  <2> QED BY <1>4, <2>1
<1>8. CASE UNCHANGED <<buyer, known, lost>>
  BY <1>1, <1>4, <1>8
<1> QED BY <1>6, <1>7, <1>8 DEF ApiNext, Handle, Send, Tick, Middleware, validateCreate, Acquire,
        Refuse, LoadFails, handleRetry, RetryAccepted, handleCompensate, CascadeEnds, avars, api

-----------------------------------------------------------------------------
\* Every behaviour of the API is one of the dispatcher: requests reach sagas,
\* channels and workers only through Create, Retry, Submit and Compensate.
THEOREM ApiImplementsDispatcher == ApiSpec => Spec
<1>1. ApiInit => Init
  BY DEF ApiInit
<1>2. [ApiNext]_avars => [Next]_vars
  BY ApiStepDispatches
<1> QED BY <1>1, <1>2, PTL DEF ApiSpec, Spec

\* Single-flight inside a process also under any requests to its API.
THEOREM ApiSingleFlight == ApiSpec => []OneWorkerPerTx
BY ApiImplementsDispatcher, WorkersSingleFlight, PTL

\* A caller can believe its answers, whatever fails or restarts: what it was
\* told of is there, what it was not told of it lost an answer for, 401 and 409
\* to a retry mean what they say.
THEOREM ApiTellsTheTruth == ApiSpec => []AnswersAreTrue
<1>1. ApiInit => ApiInv
  BY ApiInitInv
<1>2. ApiInv /\ [ApiNext]_avars => ApiInv'
  BY CallNext, BooksNext DEF ApiInv
<1>3. ApiInv => AnswersAreTrue
  <2> SUFFICES ASSUME ApiInv, NEW c \in Callers
               PROVE  /\ known[c] \subseteq {t \in Bought(c) : sagas[t] # "absent"}
                      /\ Cardinality(Bought(c)) <= Cardinality(known[c]) + lost[c]
                      /\ call[c].status = 401 => call[c].life = Expired
                      /\ call[c].status = 409 /\ call[c].op = "retry" =>
                           call[c].tx \notin Inflight \/ dbFails > 0
    BY DEF AnswersAreTrue
  <2>1. \A t \in Bought(c) : sagas[t] # "absent"
    BY ApiAssumption DEF ApiInv, BooksBalance, Bought
  <2> QED BY <2>1 DEF ApiInv, BooksBalance, CallInv, RefusalsTrue
<1> QED BY <1>1, <1>2, <1>3, PTL DEF ApiSpec
=============================================================================
