---------------------------- MODULE SagaExecutor ----------------------------
(***************************************************************************)
(* The saga executor (internal/saga) driving ONE transaction: the workers  *)
(* of several orchestrator replicas that run its saga, operators who call  *)
(* the compensate and retry endpoints, the per-transaction lease, partner  *)
(* services that may refuse a call or accept it and lose the reply, a      *)
(* store whose calls may fail, and replicas that crash and recover.        *)
(*                                                                         *)
(* Granularity: one action per store call, per partner call and per SQL    *)
(* transaction; between two of them any other process may act.  The local  *)
(* variables of Run, runStepOnce and compensateCascade are snapTx, snap,   *)
(* att and idx; pc names the call a process makes next.                    *)
(***************************************************************************)
EXTENDS SagaStore

CONSTANTS
  Replicas,     \* orchestrator processes; one worker of each can own the tx
  Operators,    \* API requests to /compensate and /retry
  LeaseOn,      \* REDIS_URL is set (otherwise NoopLease)
  Faults,       \* what may fail, a subset of FaultKind
  MaxFaults,    \* bound on those failures in one behaviour
  MaxCrashes,   \* bound on the crashes of one behaviour
  MaxRequests,  \* bound on the compensate requests of one behaviour
  EffectCap,    \* partner effects are counted up to this number
  None, Orphan  \* no lease; a lease whose holder crashed

\* "store": a load or a SQL transaction fails and changes nothing;
\* "ack":   a SQL transaction commits but Commit reports an error;
\* "transient": a partner call fails with a retriable error, to no effect;
\* "reply": a partner carries out a call whose reply times out;
\* "abort": an operator's request is cancelled on the way (its context is
\*   the one of the HTTP request), or the process that serves it dies.
FaultKind == {"store", "ack", "transient", "reply", "abort"}

Procs == Replicas \cup Operators

ASSUME ConstantsAssumption ==
  /\ Replicas \cap Operators = {}
  /\ None \notin Replicas /\ Orphan \notin Replicas /\ None # Orphan
  /\ LeaseOn \in BOOLEAN
  /\ Faults \subseteq FaultKind
  /\ MaxFaults \in Nat
  /\ MaxCrashes \in Nat
  /\ MaxRequests \in Nat
  /\ EffectCap \in Nat \ {0}

VARIABLES
  pc,       \* what each process does next
  snapTx,   \* version of the transactions row it last loaded
  snap,     \* the saga row it last loaded
  att,      \* current attempt of the step
  idx,      \* position of the step a cascade is compensating
  lease,    \* holder of the lease of the transaction
  queued,   \* the transaction waits in the dispatcher of a replica
  up,       \* the replica runs
  crashes,  \* crashes so far
  requests, \* compensate requests so far
  faults,   \* other failures so far
  effects   \* what the partners have carried out, up to EffectCap times

store == <<tx, saga, rows, outbox>>
locals == <<snapTx, snap, att, idx>>
cluster == <<queued, up, crashes, requests>>
vars == <<store, pc, locals, lease, cluster, faults, effects>>

StepLabel == {"begin", "call", "capture", "voidRetry", "voidFinal", "persist",
              "terminal", "failRetry", "failFinal", "releaseOk", "releaseErr"}

CascadeLabel == {"cLoadSaga", "cLoadTx", "cMark", "cCall", "cOk", "cErr",
                 "cFinal", "cFinalErr"}

RunLabel == {"loadTx", "loadSaga", "acquire", "recheck", "advance", "poll",
             "confirmLoad", "confirm"}

Label == {"idle"} \cup RunLabel \cup StepLabel \cup CascadeLabel

\* "allow" and "clear" are the favourable verdicts of policy and KYT;
\* "stray_auth" an authorization left open with no auth_id on record;
\* "monitor" the audit record that a broadcast transaction needs monitoring.
Effect == {"allow", "stray_auth", "capture", "refund", "clear", "sign",
           "broadcast", "post", "monitor"}

TypeOK ==
  /\ StoreTypeOK
  /\ pc \in [Procs -> Label]
  /\ snapTx \in [Procs -> Nat \ {0}]
  /\ snap \in [Procs -> SagaRow]
  /\ att \in [Procs -> Attempt]
  /\ idx \in [Procs -> 1 .. 6]
  /\ lease \in Replicas \cup {None, Orphan}
  /\ queued \in [Replicas -> BOOLEAN]
  /\ up \in [Replicas -> BOOLEAN]
  /\ crashes \in 0 .. MaxCrashes
  /\ requests \in 0 .. MaxRequests
  /\ faults \in 0 .. MaxFaults
  /\ effects \in [Effect -> 0 .. EffectCap]

\* A created transaction that the replicas found when they started (Recover).
Init ==
  /\ CreateTx
  /\ pc = [p \in Procs |-> "idle"]
  /\ snapTx = [p \in Procs |-> 1]
  /\ snap = [p \in Procs |-> InitialSaga]
  /\ att = [p \in Procs |-> 1]
  /\ idx = [p \in Procs |-> 1]
  /\ lease = None
  /\ queued = [r \in Replicas |-> TRUE]
  /\ up = [r \in Replicas |-> TRUE]
  /\ crashes = 0
  /\ requests = 0
  /\ faults = 0
  /\ effects = [e \in Effect |-> 0]

-----------------------------------------------------------------------------
At(p, l) == pc[p] = l
Go(p, l) == pc' = [pc EXCEPT ![p] = l]

\* The call returns to its caller; its local variables are gone.
Finish(p) ==
  /\ Go(p, "idle")
  /\ snapTx' = [snapTx EXCEPT ![p] = 1]
  /\ snap' = [snap EXCEPT ![p] = InitialSaga]
  /\ att' = [att EXCEPT ![p] = 1]
  /\ idx' = [idx EXCEPT ![p] = 1]

ReadSaga(p) == snap' = [snap EXCEPT ![p] = saga]
ReadTx(p) == snapTx' = [snapTx EXCEPT ![p] = tx.version]

\* A failure of kind k happens, within the bound.
Fails(k) == k \in Faults /\ faults < MaxFaults /\ faults' = faults + 1
Works == UNCHANGED faults

Happens(e) ==
  effects' = [effects EXCEPT ![e] = IF @ < EffectCap THEN @ + 1 ELSE @]

-----------------------------------------------------------------------------
(* Executor.Run: the loop of a worker.                                     *)

\* A worker takes the transaction from its partition and calls Run.
Dequeue(r) ==
  /\ At(r, "idle") /\ up[r] /\ queued[r]
  /\ queued' = [queued EXCEPT ![r] = FALSE]
  /\ Go(r, "loadTx")
  /\ UNCHANGED <<store, locals, lease, up, crashes, requests, faults, effects>>

LoadTx(r) ==
  /\ At(r, "loadTx")
  /\ ReadTx(r)
  /\ Go(r, "loadSaga")
  /\ UNCHANGED <<store, snap, att, idx, lease, cluster, faults, effects>>

LoadSagaState(r) ==
  /\ At(r, "loadSaga")
  /\ UNCHANGED <<store, lease, cluster, faults, effects>>
  /\ IF Terminal(saga.state)
     THEN Finish(r)
     ELSE /\ ReadSaga(r)
          /\ Go(r, "acquire")
          /\ UNCHANGED <<snapTx, att, idx>>

\* A load or the lease service fails: Run returns, nobody re-queues the job.
RunFails(r) ==
  /\ Fails("store")
  /\ pc[r] \in {"loadTx", "loadSaga", "acquire"}
  /\ Finish(r)
  /\ UNCHANGED <<store, lease, cluster, effects>>

\* Defect: the lease is taken with SET instead of SETNX.
AcquireOverwrites(r) ==
  /\ At(r, "acquire")
  /\ lease' = IF LeaseOn THEN r ELSE lease
  /\ att' = [att EXCEPT ![r] = 1]
  /\ Go(r, "begin")
  /\ UNCHANGED <<store, snapTx, snap, idx, cluster, faults, effects>>

Acquire(r) ==
  /\ At(r, "acquire")
  /\ LeaseOn => lease = None
  /\ lease' = IF LeaseOn THEN r ELSE lease
  /\ att' = [att EXCEPT ![r] = 1]
  /\ Go(r, "begin")
  /\ UNCHANGED <<store, snapTx, snap, idx, cluster, faults, effects>>

\* Another owner holds the lease: back off and go round the loop.
LeaseHeld(r) ==
  /\ At(r, "acquire")
  /\ LeaseOn /\ lease # None
  /\ Go(r, "loadTx")
  /\ UNCHANGED <<store, locals, lease, cluster, faults, effects>>

\* release(); then re-check the state, or compensate from the failed step.
Release(r) ==
  /\ lease' = IF lease = r THEN None ELSE lease
  /\ \/ /\ At(r, "releaseOk")
        /\ Go(r, "recheck")
        /\ UNCHANGED idx
     \/ /\ At(r, "releaseErr")
        /\ Go(r, "cLoadSaga")
        /\ idx' = [idx EXCEPT ![r] = StepIndex(snap[r].step)]
  /\ UNCHANGED <<store, snapTx, snap, att, cluster, faults, effects>>

\* The error of this load is ignored: the zero saga it leaves is neither
\* terminal nor broadcasted, and Run goes round the loop.
Recheck(r) ==
  /\ At(r, "recheck")
  /\ UNCHANGED <<store, lease, cluster, effects>>
  /\ \/ Terminal(saga.state) /\ Works /\ Finish(r)
     \/ /\ saga.state = "BROADCASTED" /\ Works
        /\ Go(r, "advance") /\ UNCHANGED locals
     \/ /\ \/ Fails("store")
           \/ ~Terminal(saga.state) /\ saga.state # "BROADCASTED" /\ Works
        /\ Go(r, "loadTx") /\ UNCHANGED locals

-----------------------------------------------------------------------------
(* advanceToConfirmed and persistConfirmedInline.  Whatever their result,  *)
(* Run goes round its loop.                                                *)

AdvanceLoad(r) ==
  /\ At(r, "advance")
  /\ ReadSaga(r)
  /\ Go(r, IF "tx_hash" \in saga.payload THEN "poll" ELSE "loadTx")
  /\ UNCHANGED <<store, snapTx, att, idx, lease, cluster, faults, effects>>

\* The gateway reports the transaction confirmed within the timeout, or not.
Poll(r) ==
  /\ At(r, "poll")
  /\ \E l \in {"confirmLoad", "loadTx"} : Go(r, l)
  /\ UNCHANGED <<store, locals, lease, cluster, faults, effects>>

ConfirmLoadTx(r) ==
  /\ At(r, "confirmLoad")
  /\ ReadTx(r)
  /\ Go(r, "confirm")
  /\ UNCHANGED <<store, snap, att, idx, lease, cluster, faults, effects>>

AdvanceFails(r) ==
  /\ Fails("store")
  /\ pc[r] \in {"advance", "confirmLoad", "confirm"}
  /\ Go(r, "loadTx")
  /\ UNCHANGED <<store, locals, lease, cluster, effects>>

PersistConfirmed(r) ==
  LET new == Derived(snap[r], "CONFIRMED", "LEDGER", {})
      evt == SagaEvent("transaction.confirmed")
  IN  /\ At(r, "confirm")
      /\ Go(r, "loadTx")
      /\ IF /\ Transition(snap[r].state, "CONFIRMED")
            /\ StrictCommits(new, snapTx[r], evt)
         THEN StrictWrite(new, evt)
         ELSE UNCHANGED <<saga, tx, outbox>>
      /\ UNCHANGED <<rows, locals, lease, cluster, faults, effects>>

-----------------------------------------------------------------------------
(* runStepWithRetry and runStepOnce.                                       *)

\* Defect: one attempt too many.
NextAttemptOffByOne(r) ==
  IF att[r] <= MaxRetries
  THEN att' = [att EXCEPT ![r] = @ + 1] /\ Go(r, "begin")
  ELSE UNCHANGED att /\ Go(r, "releaseErr")

\* Every error but a non-retriable one leads to another attempt with the
\* same snapshot, until the attempts are used up.
NextAttempt(r) ==
  IF att[r] < MaxRetries
  THEN att' = [att EXCEPT ![r] = @ + 1] /\ Go(r, "begin")
  ELSE UNCHANGED att /\ Go(r, "releaseErr")

\* A SUCCEEDED row for this attempt means the step is done; otherwise the
\* row is inserted or updated as RUNNING.
BeginStep(r) ==
  /\ At(r, "begin")
  /\ IF rows[<<snap[r].step, att[r]>>] = "SUCCEEDED"
     THEN Works /\ Go(r, "releaseOk") /\ UNCHANGED <<rows, att>>
     ELSE /\ rows' = UpdateStep(snap[r].step, att[r], "RUNNING")
          /\ \/ Works /\ Go(r, "call") /\ UNCHANGED att
             \/ Fails("ack") /\ NextAttempt(r)
  /\ UNCHANGED <<tx, saga, outbox, snapTx, snap, idx, lease, cluster, effects>>

\* The RUNNING row, or the result of a step, cannot be written.
StepTxFails(r) ==
  /\ Fails("store")
  /\ pc[r] \in {"begin", "persist"}
  /\ NextAttempt(r)
  /\ UNCHANGED <<store, snapTx, snap, idx, lease, cluster, effects>>

\* Defect: the result of the step is not merged into the payload.
AfterSuccessNoMerge(sg, s) ==
  Derived(sg, IF s = "LEDGER" THEN "COMPLETED" ELSE StateForStep(s), StepAfter(s),
          {})

\* The saga row that success of step s on snapshot sg leads to.
AfterSuccess(sg, s) ==
  Derived(sg, IF s = "LEDGER" THEN "COMPLETED" ELSE StateForStep(s), StepAfter(s),
          PayloadMerge(s))

PersistSuccess(r) ==
  LET sg  == snap[r]
      s   == sg.step
      new == AfterSuccess(sg, s)
      evt == StepEvent(s, att[r])
  IN  /\ At(r, "persist")
      /\ IF /\ validatePath(sg.state, StateForStep(s), new.state)
            /\ StrictCommits(new, snapTx[r], evt)
         THEN /\ StrictWrite(new, evt)
              /\ rows' = UpdateStep(s, att[r], "SUCCEEDED")
              /\ \/ Works /\ Go(r, "releaseOk") /\ UNCHANGED att
                 \/ Fails("ack") /\ NextAttempt(r)
         ELSE Works /\ NextAttempt(r) /\ UNCHANGED store
      /\ UNCHANGED <<snapTx, snap, idx, lease, cluster, effects>>

\* A terminal result: the step failed and says where the saga ends.  The
\* errors of these writes, and of the SQL transaction, are ignored.  (Its
\* Transition check passes: Run took the snapshot in a state that was not
\* terminal, and from there any failure state is legal.)
PersistTerminal(r) ==
  LET sg  == snap[r]
      s   == sg.step
      new == Derived(sg, TerminalState(s), s, TerminalMerge(s))
      evt == TerminalEvent(TerminalState(s), s, att[r])
  IN  /\ At(r, "terminal")
      /\ Go(r, "releaseOk")
      /\ \/ /\ Works /\ LaxWrite(new, snapTx[r], evt)
            /\ rows' = IF evt \in outbox THEN rows
                       ELSE UpdateStep(s, att[r], "FAILED")
         \/ Fails("store") /\ UNCHANGED store
      /\ UNCHANGED <<locals, lease, cluster, effects>>

\* An error without a terminal result: the row is marked FAILED if that
\* write succeeds; whatever the step had put in PayloadMerge is dropped.
MarkFailed(r) ==
  /\ pc[r] \in {"failRetry", "failFinal"}
  /\ \/ Works /\ rows' = UpdateStep(snap[r].step, att[r], "FAILED")
     \/ Fails("store") /\ UNCHANGED rows
  /\ IF At(r, "failRetry") THEN NextAttempt(r)
                           ELSE Go(r, "releaseErr") /\ UNCHANGED att
  /\ UNCHANGED <<tx, saga, outbox, snapTx, snap, idx, lease, cluster, effects>>

-----------------------------------------------------------------------------
(* Execute of the six steps.  A call that succeeds leads to "persist"; a   *)
(* transient error to "failRetry"; any other error to "failFinal".         *)

Calling(r, s) == At(r, "call") /\ snap[r].step = s

\* The partner carries out the call and answers.
Accepted(r, e) == Works /\ Happens(e) /\ Go(r, "persist")

\* A transient error; an error that is not retried; both to no effect.
Unavailable(r) == Fails("transient") /\ UNCHANGED effects /\ Go(r, "failRetry")
Refused(r) == Works /\ UNCHANGED effects /\ Go(r, "failFinal")

\* The partner carries out the call and its answer times out.
ReplyLost(r, e) == Fails("reply") /\ Happens(e) /\ Go(r, "failRetry")

\* The step returns a terminal result along with its error.
TerminalResult(r) == Works /\ UNCHANGED effects /\ Go(r, "terminal")

\* A denial is terminal.
PolicyExecute(r) ==
  /\ Calling(r, "POLICY")
  /\ Accepted(r, "allow") \/ TerminalResult(r) \/ Unavailable(r) \/ Refused(r)
  /\ UNCHANGED <<store, locals, lease, cluster>>

\* A lost reply to Authorize leaves an authorization nobody knows of.
PaymentAuthorize(r) ==
  /\ Calling(r, "PAYMENT")
  /\ \/ Works /\ UNCHANGED effects /\ Go(r, "capture")
     \/ Unavailable(r) \/ Refused(r) \/ ReplyLost(r, "stray_auth")
  /\ UNCHANGED <<store, locals, lease, cluster>>

PaymentCapture(r) ==
  /\ At(r, "capture")
  /\ \/ Accepted(r, "capture")
     \/ Fails("transient") /\ UNCHANGED effects /\ Go(r, "voidRetry")
     \/ Works /\ UNCHANGED effects /\ Go(r, "voidFinal")
     \/ Fails("reply") /\ Happens("capture") /\ Go(r, "voidRetry")
  /\ UNCHANGED <<store, locals, lease, cluster>>

\* The void after a failed capture is best effort: its error is ignored.
PaymentVoid(r) ==
  /\ \/ At(r, "voidRetry") /\ Go(r, "failRetry")
     \/ At(r, "voidFinal") /\ Go(r, "failFinal")
  /\ \/ Works /\ UNCHANGED effects
     \/ Fails("transient") /\ Happens("stray_auth")
  /\ UNCHANGED <<store, locals, lease, cluster>>

\* Defect: "review" is let through.
KytExecuteReviewPasses(r) ==
  /\ Calling(r, "KYT")
  /\ \/ Accepted(r, "clear") \/ Unavailable(r) \/ Refused(r)
     \/ Works /\ UNCHANGED effects /\ Go(r, "persist")
  /\ UNCHANGED <<store, locals, lease, cluster>>

\* "review", "reject" and unknown decisions are errors that are not retried.
KytExecute(r) ==
  /\ Calling(r, "KYT")
  /\ Accepted(r, "clear") \/ Unavailable(r) \/ Refused(r)
  /\ UNCHANGED <<store, locals, lease, cluster>>

\* Defect: an answer the client cannot decode is retried.
MpcSignExecuteUndecoded(r) ==
  /\ Calling(r, "MPC_SIGN")
  /\ \/ Accepted(r, "sign") \/ Unavailable(r) \/ Refused(r) \/ ReplyLost(r, "sign")
     \/ Works /\ Happens("sign") /\ Go(r, "failRetry")
  /\ UNCHANGED <<store, locals, lease, cluster>>

MpcSignExecute(r) ==
  /\ Calling(r, "MPC_SIGN")
  /\ Accepted(r, "sign") \/ Unavailable(r) \/ Refused(r) \/ ReplyLost(r, "sign")
  /\ UNCHANGED <<store, locals, lease, cluster>>

\* The step has its result on record: it succeeds without a call.
OnRecord(r, key) ==
  key \in snap[r].payload /\ Works /\ UNCHANGED effects /\ Go(r, "persist")

\* Without a signed_tx_hex on record the step is refused.
BroadcastExecute(r) ==
  /\ Calling(r, "BROADCAST")
  /\ IF "tx_hash" \in snap[r].payload
     THEN OnRecord(r, "tx_hash")
     ELSE \/ Refused(r)
          \/ /\ "signed_tx_hex" \in snap[r].payload
             /\ \/ Accepted(r, "broadcast") \/ Unavailable(r)
                \/ ReplyLost(r, "broadcast")
  /\ UNCHANGED <<store, locals, lease, cluster>>

\* A refusal is terminal: the saga parks for reconciliation.
LedgerExecute(r) ==
  /\ Calling(r, "LEDGER")
  /\ IF "ledger_journal_id" \in snap[r].payload
     THEN OnRecord(r, "ledger_journal_id")
     ELSE \/ Accepted(r, "post") \/ TerminalResult(r) \/ Unavailable(r)
          \/ ReplyLost(r, "post")
  /\ UNCHANGED <<store, locals, lease, cluster>>

Execute(r) ==
  \/ PolicyExecute(r) \/ PaymentAuthorize(r) \/ PaymentCapture(r)
  \/ PaymentVoid(r) \/ KytExecute(r) \/ MpcSignExecute(r)
  \/ BroadcastExecute(r) \/ LedgerExecute(r)

-----------------------------------------------------------------------------
(* compensateCascade: run by a worker whose step failed for good and by    *)
(* the compensate endpoint; it takes no lease and asks for no state.       *)

CascadeLoadSaga(p) ==
  /\ At(p, "cLoadSaga")
  /\ ReadSaga(p)
  /\ Go(p, "cLoadTx")
  /\ UNCHANGED <<store, snapTx, att, idx, lease, cluster, faults, effects>>

CascadeLoadTx(p) ==
  /\ At(p, "cLoadTx")
  /\ ReadTx(p)
  /\ Go(p, "cMark")
  /\ UNCHANGED <<store, snap, att, idx, lease, cluster, faults, effects>>

CascadeFails(p) ==
  /\ Fails("store")
  /\ pc[p] \in {"cLoadSaga", "cLoadTx"}
  /\ Finish(p)
  /\ UNCHANGED <<store, lease, cluster, effects>>

\* Each step is marked on its attempt-1 row, whatever that row says.
MarkRow(p, status) ==
  \/ Works /\ rows' = UpdateStep(StepOrder(idx[p]), 1, status)
  \/ Fails("store") /\ UNCHANGED rows

CascadeMark(p) ==
  /\ At(p, "cMark")
  /\ MarkRow(p, "COMPENSATING")
  /\ Go(p, "cCall")
  /\ UNCHANGED <<tx, saga, outbox, locals, lease, cluster, effects>>

\* Defect: a recorded authorization is voided although it was captured.
PaymentCompensateVoids(p) ==
  Works /\ UNCHANGED effects /\ \E l \in {"cOk", "cErr"} : Go(p, l)

\* PaymentStep.Compensate: refund what the snapshot says was captured, else
\* void what it says was authorized.
PaymentCompensate(p) ==
  IF "capture_id" \in snap[p].payload
  THEN \/ Works /\ Happens("refund") /\ Go(p, "cOk")
       \/ Works /\ UNCHANGED effects /\ Go(p, "cErr")
       \/ Fails("reply") /\ Happens("refund") /\ Go(p, "cErr")
  ELSE /\ Works /\ UNCHANGED effects
       /\ IF "auth_id" \in snap[p].payload
          THEN \E l \in {"cOk", "cErr"} : Go(p, l)
          ELSE Go(p, "cOk")

\* Defect: no monitoring is asked for.
BroadcastCompensateSilent(p) == Works /\ Go(p, "cOk") /\ UNCHANGED effects

\* BroadcastStep.Compensate: nothing to undo; ask for monitoring.  An error
\* of Record is ignored: the effect is that it was asked for.
BroadcastCompensate(p) ==
  /\ Works /\ Go(p, "cOk")
  /\ IF "tx_hash" \in snap[p].payload THEN Happens("monitor")
                                      ELSE UNCHANGED effects

\* Compensate of the step; a no-op for policy, KYT, signing and ledger.
CascadeCall(p) ==
  LET s == StepOrder(idx[p])
  IN  /\ At(p, "cCall")
      /\ CASE s = "PAYMENT"   -> PaymentCompensate(p)
           [] s = "BROADCAST" -> BroadcastCompensate(p)
           [] OTHER           -> Works /\ UNCHANGED effects /\ Go(p, "cOk")
      /\ UNCHANGED <<store, locals, lease, cluster>>

\* Mark the step and go on with the one before it; an error ends the walk.
CascadeDone(p) ==
  /\ \/ /\ At(p, "cOk")
        /\ MarkRow(p, "COMPENSATED")
        /\ IF idx[p] > 1
           THEN idx' = [idx EXCEPT ![p] = @ - 1] /\ Go(p, "cMark")
           ELSE UNCHANGED idx /\ Go(p, "cFinal")
     \/ /\ At(p, "cErr")
        /\ MarkRow(p, "FAILED")
        /\ UNCHANGED idx /\ Go(p, "cFinalErr")
  /\ UNCHANGED <<tx, saga, outbox, snapTx, snap, att, lease, cluster, effects>>

\* The final SQL transaction: no transition check, every error ignored.
CascadeFinal(p) ==
  LET target == IF At(p, "cFinal") THEN "FAILED_COMPENSATED" ELSE "FAILED"
      new    == Derived(snap[p], target, snap[p].step, {})
  IN  /\ pc[p] \in {"cFinal", "cFinalErr"}
      /\ \/ Works /\ LaxWrite(new, snapTx[p], SagaEvent(target))
         \/ Fails("store") /\ UNCHANGED <<saga, tx, outbox>>
      /\ Finish(p)
      /\ UNCHANGED <<rows, lease, cluster, effects>>

compensateCascade(p) ==
  \/ CascadeLoadSaga(p) \/ CascadeLoadTx(p) \/ CascadeFails(p)
  \/ CascadeMark(p) \/ CascadeCall(p) \/ CascadeDone(p) \/ CascadeFinal(p)

-----------------------------------------------------------------------------
(* Control.Compensate and Control.Retry, crashes and recovery.             *)

Compensate(o) ==
  /\ At(o, "idle") /\ requests < MaxRequests
  /\ ~Terminal(saga.state)
  /\ requests' = requests + 1
  /\ idx' = [idx EXCEPT ![o] = StepIndex(saga.step)]
  /\ Go(o, "cLoadSaga")
  /\ UNCHANGED <<store, snapTx, snap, att, lease, queued, up, crashes, faults,
                 effects>>

Retry(o) ==
  /\ At(o, "idle")
  /\ ~Terminal(saga.state)
  /\ \E r \in Replicas : up[r] /\ queued' = [queued EXCEPT ![r] = TRUE]
  /\ UNCHANGED <<store, pc, locals, lease, up, crashes, requests, faults, effects>>

\* The process of a worker dies; the lease it holds stays until its TTL.
Crash(r) ==
  /\ up[r] /\ crashes < MaxCrashes
  /\ Finish(r)
  /\ up' = [up EXCEPT ![r] = FALSE]
  /\ queued' = [queued EXCEPT ![r] = FALSE]
  /\ crashes' = crashes + 1
  /\ lease' = IF lease = r THEN Orphan ELSE lease
  /\ UNCHANGED <<store, requests, faults, effects>>

RequestAborted(o) ==
  /\ ~At(o, "idle")
  /\ Fails("abort")
  /\ Finish(o)
  /\ UNCHANGED <<store, lease, cluster, effects>>

\* Defect: the process starts without Recover.
RestartWithoutRecover(r) ==
  /\ ~up[r]
  /\ up' = [up EXCEPT ![r] = TRUE]
  /\ UNCHANGED <<store, pc, locals, lease, queued, crashes, requests, faults,
                 effects>>

\* main: Recover enqueues the transaction unless it is terminal.
Restart(r) ==
  /\ ~up[r]
  /\ up' = [up EXCEPT ![r] = TRUE]
  /\ queued' = [queued EXCEPT ![r] = Inflight]
  /\ UNCHANGED <<store, pc, locals, lease, crashes, requests, faults, effects>>

\* The TTL of a lease nobody renews.
LeaseExpires ==
  /\ lease = Orphan
  /\ lease' = None
  /\ UNCHANGED <<store, pc, locals, cluster, faults, effects>>

-----------------------------------------------------------------------------
Run(r) ==
  \/ Dequeue(r) \/ LoadTx(r) \/ LoadSagaState(r) \/ RunFails(r)
  \/ Acquire(r) \/ LeaseHeld(r) \/ Release(r) \/ Recheck(r)
  \/ AdvanceLoad(r) \/ Poll(r) \/ ConfirmLoadTx(r) \/ AdvanceFails(r)
  \/ PersistConfirmed(r)
  \/ BeginStep(r) \/ StepTxFails(r) \/ PersistSuccess(r)
  \/ PersistTerminal(r) \/ MarkFailed(r) \/ Execute(r)
  \/ compensateCascade(r)

Operate(o) ==
  \/ Compensate(o) \/ Retry(o) \/ RequestAborted(o) \/ compensateCascade(o)

Next ==
  \/ \E r \in Replicas : Run(r) \/ Crash(r) \/ Restart(r)
  \/ \E o \in Operators : Operate(o)
  \/ LeaseExpires

Spec == Init /\ [][Next]_vars

\* A live worker keeps making its next call; a crashed process is restarted
\* by its supervisor; Redis lets a lease run out when nobody renews it.
Fairness ==
  /\ \A r \in Replicas : WF_vars(Run(r)) /\ WF_vars(Restart(r))
  /\ WF_vars(LeaseExpires)

FairSpec == Spec /\ Fairness
=============================================================================
