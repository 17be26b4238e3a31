------------------------------ MODULE MemStore ------------------------------
(***************************************************************************)
(* The in-memory store (MemStore of internal/store/store.go) that DEV_MODE *)
(* and orchctl replay use, with the rows of ONE transaction.  Each method  *)
(* holds the mutex for itself; RunInTx holds nothing and undoes nothing,   *)
(* so that the callers' SQL transactions interleave method by method and a *)
(* part of one stays when the rest of it fails.  The callers are the ones  *)
(* of the executor: workers that persist a step, cascades, and relays.     *)
(***************************************************************************)
EXTENDS Naturals, Sequences, FiniteSets

CONSTANTS
  Workers,     \* goroutines in Executor.Run
  Operators,   \* compensate requests, one cascade each
  Relays,      \* outbox relays
  LastStep,    \* number of steps of the saga
  MaxRetries,  \* attempts of one step in one run
  Limit        \* OUTBOX_BATCH_SIZE

ASSUME MemStoreAssumption ==
  /\ Workers \cap Operators = {}
  /\ LastStep \in Nat \ {0}
  /\ MaxRetries \in Nat \ {0}
  /\ Limit \in Nat \ {0}

Procs == Workers \cup Operators

VARIABLES
  tx,      \* txs: [status, version]
  saga,    \* sagas: [state, passed, version]; the first passed steps are done
  steps,   \* steps: the rows in the order of insertion
  outbox,  \* outbox: the events in the order of insertion
  pc,      \* the method a caller calls next
  snapTx,  \* version of the transaction it last loaded
  snap,    \* the saga it last loaded
  att,     \* attempt of the step it runs
  idx,     \* position of the cascade
  claimed  \* positions of the events each relay has claimed

store == <<tx, saga, steps, outbox>>
locals == <<snapTx, snap, att, idx>>
vars == <<store, pc, locals, claimed>>

State == {"OPEN", "COMPLETED", "FAILED_COMPENSATED", "FAILED"}
SagaRow == [state: State, passed: 0 .. LastStep, version: Nat \ {0}]
StepRow == [step: 1 .. LastStep, attempt: 1 .. MaxRetries,
            status: {"PENDING", "RUNNING", "SUCCEEDED", "FAILED", "COMPENSATING",
                     "COMPENSATED"}]

\* Dedup keys: <<s, a>> of attempt a of step s, <<0, n>> of the whole saga.
CreatedKey == <<0, 0>>
FailureKey(state) == IF state = "FAILED" THEN <<0, 2>> ELSE <<0, 1>>

OutboxEvent == [key: (0 .. LastStep) \X (0 .. MaxRetries + 2),
                status: {"PENDING", "INFLIGHT", "PUBLISHED"}]

Label == {"idle", "loadTx", "loadSaga", "begin", "insert", "running", "fail",
          "succeed", "save", "status", "append", "cLoadSaga", "cLoadTx",
          "cMark", "cComp", "cSave", "cStatus", "cAppend", "done"}

TypeOK ==
  /\ tx \in [status: State, version: Nat \ {0}]
  /\ saga \in SagaRow
  /\ steps \in Seq(StepRow)
  /\ outbox \in Seq(OutboxEvent)
  /\ pc \in [Procs -> Label]
  /\ snapTx \in [Procs -> Nat \ {0}]
  /\ snap \in [Procs -> SagaRow]
  /\ att \in [Procs -> 1 .. MaxRetries]
  /\ idx \in [Procs -> 0 .. LastStep]
  /\ claimed \in [Relays -> SUBSET Nat]

InitialSaga == [state |-> "OPEN", passed |-> 0, version |-> 1]

\* What CreateTx inserts.
CreateTx ==
  /\ tx = [status |-> "OPEN", version |-> 1]
  /\ saga = InitialSaga
  /\ steps = [s \in 1 .. LastStep |->
                [step |-> s, attempt |-> 1, status |-> "PENDING"]]
  /\ outbox = <<[key |-> CreatedKey, status |-> "PENDING"]>>

Init ==
  /\ CreateTx
  /\ pc = [p \in Procs |-> IF p \in Workers THEN "loadTx" ELSE "idle"]
  /\ snapTx = [p \in Procs |-> 1]
  /\ snap = [p \in Procs |-> InitialSaga]
  /\ att = [p \in Procs |-> 1]
  /\ idx = [p \in Procs |-> 0]
  /\ claimed = [r \in Relays |-> {}]

-----------------------------------------------------------------------------
At(p, l) == pc[p] = l
Go(p, l) == pc' = [pc EXCEPT ![p] = l]

\* The caller returns; its local variables are gone.
Finish(p) ==
  /\ Go(p, "done")
  /\ snapTx' = [snapTx EXCEPT ![p] = 1]
  /\ snap' = [snap EXCEPT ![p] = InitialSaga]
  /\ att' = [att EXCEPT ![p] = 1]
  /\ idx' = [idx EXCEPT ![p] = 0]

Terminal == saga.state # "OPEN"

\* The positions at which the linear searches of the store stop.
StepAt(s, a) == {i \in DOMAIN steps : steps[i].step = s /\ steps[i].attempt = a}
HasEvent(k) == \E i \in DOMAIN outbox : outbox[i].key = k

\* The step a worker runs: current_step of the saga it loaded.
StepOf(p) == snap[p].passed + 1

SetStep(s, a, status) ==
  steps' = [i \in DOMAIN steps |-> IF i \in StepAt(s, a)
                                   THEN [steps[i] EXCEPT !.status = status]
                                   ELSE steps[i]]

\* Defect: the version is not compared.
SaveMatchesAlways(p) == snap[p].version > 0

SaveMatches(p) == saga.version = snap[p].version
StatusMatches(p) == tx.version = snapTx[p]

SaveSagaState(state, passed) ==
  saga' = [state |-> state, passed |-> passed, version |-> saga.version + 1]

UpdateTransactionStatus(state) ==
  tx' = [status |-> state, version |-> tx.version + 1]

\* Both callers ignore ErrDuplicate.
AppendOutbox(k) ==
  IF HasEvent(k) THEN UNCHANGED outbox
  ELSE outbox' = Append(outbox, [key |-> k, status |-> "PENDING"])

-----------------------------------------------------------------------------
(* A worker: Run, runStepWithRetry and runStepOnce.                        *)

LoadTx(w) ==
  /\ At(w, "loadTx")
  /\ snapTx' = [snapTx EXCEPT ![w] = tx.version]
  /\ Go(w, "loadSaga")
  /\ UNCHANGED <<store, snap, att, idx, claimed>>

LoadSagaState(w) ==
  /\ At(w, "loadSaga")
  /\ IF Terminal
     THEN Finish(w)
     ELSE /\ snap' = [snap EXCEPT ![w] = saga]
          /\ att' = [att EXCEPT ![w] = 1]
          /\ Go(w, "begin")
          /\ UNCHANGED <<snapTx, idx>>
  /\ UNCHANGED <<store, claimed>>

\* The cascade of the step, which runs under attempt 1.
GiveUp(w) ==
  /\ Go(w, "cLoadSaga")
  /\ idx' = [idx EXCEPT ![w] = StepOf(w)]
  /\ att' = [att EXCEPT ![w] = 1]

\* An error: the next attempt with the same snapshot, then the cascade.
NextAttempt(w) ==
  IF att[w] < MaxRetries
  THEN att' = [att EXCEPT ![w] = @ + 1] /\ Go(w, "begin") /\ UNCHANGED idx
  ELSE GiveUp(w)

LoadStep(w) ==
  LET found == StepAt(StepOf(w), att[w])
  IN  /\ At(w, "begin")
      /\ Go(w, IF found = {} THEN "insert"
               ELSE IF \E i \in found : steps[i].status = "SUCCEEDED" THEN "loadTx"
               ELSE "running")
      /\ UNCHANGED <<store, locals, claimed>>

\* Defect: the row is appended without the search.
InsertStepAnyway(w) ==
  /\ At(w, "insert")
  /\ steps' = Append(steps, [step |-> StepOf(w), attempt |-> att[w],
                             status |-> "RUNNING"])
  /\ \E l \in {"succeed", "fail"} : Go(w, l)
  /\ UNCHANGED <<tx, saga, outbox, locals, claimed>>

\* The row may have appeared since LoadStep: ErrDuplicate.
InsertStep(w) ==
  /\ At(w, "insert")
  /\ IF StepAt(StepOf(w), att[w]) # {}
     THEN NextAttempt(w) /\ UNCHANGED steps
     ELSE /\ steps' = Append(steps, [step |-> StepOf(w), attempt |-> att[w],
                                     status |-> "RUNNING"])
          /\ \E l \in {"succeed", "fail"} : Go(w, l)
          /\ UNCHANGED <<att, idx>>
  /\ UNCHANGED <<tx, saga, outbox, snapTx, snap, claimed>>

\* UpdateStep to RUNNING; the partner's answer is good or an error.
UpdateRunning(w) ==
  /\ At(w, "running")
  /\ SetStep(StepOf(w), att[w], "RUNNING")
  /\ \E l \in {"succeed", "fail"} : Go(w, l)
  /\ UNCHANGED <<tx, saga, outbox, locals, claimed>>

\* A partner's error is tried again, unless it is a non-retriable one.
UpdateFailed(w) ==
  /\ At(w, "fail")
  /\ SetStep(StepOf(w), att[w], "FAILED")
  /\ NextAttempt(w) \/ GiveUp(w)
  /\ UNCHANGED <<tx, saga, outbox, snapTx, snap, claimed>>

UpdateSucceeded(w) ==
  /\ At(w, "succeed")
  /\ SetStep(StepOf(w), att[w], "SUCCEEDED")
  /\ Go(w, "save")
  /\ UNCHANGED <<tx, saga, outbox, locals, claimed>>

Reached(w) == IF StepOf(w) = LastStep THEN "COMPLETED" ELSE "OPEN"

\* Defect: the conflict is ignored.
SaveResultIgnored(w) ==
  /\ At(w, "save")
  /\ IF SaveMatches(w) THEN SaveSagaState(Reached(w), StepOf(w)) ELSE UNCHANGED saga
  /\ Go(w, "status")
  /\ UNCHANGED <<tx, steps, outbox, locals, claimed>>

SaveResult(w) ==
  /\ At(w, "save")
  /\ IF SaveMatches(w)
     THEN SaveSagaState(Reached(w), StepOf(w)) /\ Go(w, "status") /\ UNCHANGED <<att, idx>>
     ELSE NextAttempt(w) /\ UNCHANGED saga
  /\ UNCHANGED <<tx, steps, outbox, snapTx, snap, claimed>>

\* A conflict here leaves the saga saved and the rest undone.
SaveStatus(w) ==
  /\ At(w, "status")
  /\ IF StatusMatches(w)
     THEN UpdateTransactionStatus(Reached(w)) /\ Go(w, "append") /\ UNCHANGED <<att, idx>>
     ELSE NextAttempt(w) /\ UNCHANGED tx
  /\ UNCHANGED <<saga, steps, outbox, snapTx, snap, claimed>>

AppendEvent(w) ==
  /\ At(w, "append")
  /\ AppendOutbox(<<StepOf(w), att[w]>>)
  /\ Go(w, "loadTx")
  /\ UNCHANGED <<tx, saga, steps, locals, claimed>>

-----------------------------------------------------------------------------
(* compensateCascade.  The row of attempt 1 of a step, which CreateTx has  *)
(* inserted and nobody removes, is written before and after Compensate; an *)
(* error of Compensate ends the walk and leaves idx above 0.  LoadStep and *)
(* UpdateStep are one step: what is written is the status alone, whatever  *)
(* LoadStep returned.  (persistTerminal writes the way the end of the      *)
(* cascade does.)                                                          *)

Target(p) == IF idx[p] = 0 THEN "FAILED_COMPENSATED" ELSE "FAILED"

Compensate(o) ==
  /\ At(o, "idle") /\ ~Terminal
  /\ idx' = [idx EXCEPT ![o] = saga.passed + 1]
  /\ Go(o, "cLoadSaga")
  /\ UNCHANGED <<store, snapTx, snap, att, claimed>>

CascadeLoadSaga(p) ==
  /\ At(p, "cLoadSaga")
  /\ snap' = [snap EXCEPT ![p] = saga]
  /\ Go(p, "cLoadTx")
  /\ UNCHANGED <<store, snapTx, att, idx, claimed>>

CascadeLoadTx(p) ==
  /\ At(p, "cLoadTx")
  /\ snapTx' = [snapTx EXCEPT ![p] = tx.version]
  /\ Go(p, "cMark")
  /\ UNCHANGED <<store, snap, att, idx, claimed>>

CascadeMark(p) ==
  /\ At(p, "cMark")
  /\ SetStep(idx[p], 1, "COMPENSATING")
  /\ Go(p, "cComp")
  /\ UNCHANGED <<tx, saga, outbox, locals, claimed>>

CascadeMarked(p) ==
  /\ At(p, "cComp")
  /\ \/ /\ SetStep(idx[p], 1, "COMPENSATED")
        /\ idx' = [idx EXCEPT ![p] = @ - 1]
        /\ Go(p, IF idx[p] = 1 THEN "cSave" ELSE "cMark")
     \/ /\ SetStep(idx[p], 1, "FAILED")
        /\ Go(p, "cSave")
        /\ UNCHANGED idx
  /\ UNCHANGED <<tx, saga, outbox, snapTx, snap, att, claimed>>

\* Errors are ignored one by one.
CascadeSave(p) ==
  /\ At(p, "cSave")
  /\ IF SaveMatches(p) THEN SaveSagaState(Target(p), snap[p].passed) ELSE UNCHANGED saga
  /\ Go(p, "cStatus")
  /\ UNCHANGED <<tx, steps, outbox, locals, claimed>>

CascadeStatus(p) ==
  /\ At(p, "cStatus")
  /\ IF StatusMatches(p) THEN UpdateTransactionStatus(Target(p)) ELSE UNCHANGED tx
  /\ Go(p, "cAppend")
  /\ UNCHANGED <<saga, steps, outbox, locals, claimed>>

CascadeAppend(p) ==
  /\ At(p, "cAppend")
  /\ AppendOutbox(FailureKey(Target(p)))
  /\ Finish(p)
  /\ UNCHANGED <<tx, saga, steps, claimed>>

-----------------------------------------------------------------------------
(* A relay.                                                                *)

Pending == {i \in DOMAIN outbox : outbox[i].status = "PENDING"}

SetEvents(S, status) ==
  outbox' = [i \in DOMAIN outbox |-> IF i \in S THEN [outbox[i] EXCEPT !.status = status]
                                               ELSE outbox[i]]

\* Defect: the claim does not change the status of what it returns.
ClaimUnmarked(r) ==
  /\ claimed[r] = {} /\ Pending # {}
  /\ claimed' = [claimed EXCEPT ![r] = {i \in Pending :
       Cardinality({j \in Pending : j < i}) < Limit}]
  /\ UNCHANGED <<store, pc, locals>>

\* The first Limit pending events become INFLIGHT under the mutex.
ClaimOutboxPending(r) ==
  LET first == {i \in Pending : Cardinality({j \in Pending : j < i}) < Limit}
  IN  /\ claimed[r] = {} /\ Pending # {}
      /\ SetEvents(first, "INFLIGHT")
      /\ claimed' = [claimed EXCEPT ![r] = first]
      /\ UNCHANGED <<tx, saga, steps, pc, locals>>

\* What was published of the claim, a prefix of it or all, is marked.
MarkOutboxPublished(r) ==
  \E n \in claimed[r] \cup {0} :
    /\ claimed[r] # {}
    /\ SetEvents({i \in claimed[r] : i <= n}, "PUBLISHED")
    /\ claimed' = [claimed EXCEPT ![r] = {}]
    /\ UNCHANGED <<tx, saga, steps, pc, locals>>

-----------------------------------------------------------------------------
Worker(w) ==
  \/ LoadTx(w) \/ LoadSagaState(w) \/ LoadStep(w) \/ InsertStep(w)
  \/ UpdateRunning(w) \/ UpdateFailed(w) \/ UpdateSucceeded(w)
  \/ SaveResult(w) \/ SaveStatus(w) \/ AppendEvent(w)

compensateCascade(p) ==
  \/ CascadeLoadSaga(p) \/ CascadeLoadTx(p) \/ CascadeMark(p) \/ CascadeMarked(p)
  \/ CascadeSave(p) \/ CascadeStatus(p) \/ CascadeAppend(p)

Next ==
  \/ \E w \in Workers : Worker(w)
  \/ \E o \in Operators : Compensate(o)
  \/ \E p \in Procs : compensateCascade(p)
  \/ \E r \in Relays : ClaimOutboxPending(r) \/ MarkOutboxPublished(r)

Spec == Init /\ [][Next]_vars

-----------------------------------------------------------------------------
(* Properties.                                                             *)

\* Without any isolation the version check of SaveSagaState alone keeps the
\* saga: every save counts the version up by one and builds on the row it
\* replaces, so that no step that was done is forgotten.
SavesBuildOnRow ==
  [][saga' # saga => /\ saga'.version = saga.version + 1
                     /\ saga.passed <= saga'.passed]_vars

\* Rows found missing and inserted in two calls are still unique, and so are
\* the dedup keys, as the unique indexes of Postgres would have them.
UniqueKeys ==
  /\ \A i, j \in DOMAIN steps :
       steps[i].step = steps[j].step /\ steps[i].attempt = steps[j].attempt => i = j
  /\ \A i, j \in DOMAIN outbox : outbox[i].key = outbox[j].key => i = j

\* The event of a step is there only if the saga has passed the step: the
\* order of the writes inside RunInTx makes up for the missing rollback.
EventsFollowSaves ==
  \A i \in DOMAIN outbox : outbox[i].key[1] <= saga.passed

\* Two relays never hold the same event, and what they hold is claimed.
ClaimedOnce ==
  \A r \in Relays : \A i \in claimed[r] :
    /\ i \in DOMAIN outbox /\ outbox[i].status = "INFLIGHT"
    /\ \A q \in Relays \ {r} : i \notin claimed[q]

\* "RunInTx runs fn inside a fresh transaction, committing on nil and rolling
\* back on error": a step is SUCCEEDED only if the saga has passed it, but
\* for the moment between the two writes.
RollsBack ==
  \A i \in DOMAIN steps :
    \/ steps[i].status # "SUCCEEDED"
    \/ steps[i].step <= saga.passed
    \/ \E w \in Workers : At(w, "save") /\ StepOf(w) = steps[i].step
=============================================================================
