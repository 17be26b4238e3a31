--------------------------- MODULE SagaSolo_proofs ---------------------------
(***************************************************************************)
(* Theorems about ONE replica that crashes and recovers, with no operator  *)
(* and with every failure but a lost acknowledgement of a commit: the      *)
(* setting in which the executor keeps the life cycle its clients are      *)
(* promised, gives back what it captured and repeats no payment, signature *)
(* or broadcast without a reason.  They hold with and without the lease,   *)
(* for any number of attempts, failures and crashes.  The last one is      *)
(* about the clients that read while the replica works.                    *)
(*                                                                         *)
(* The argument: the only process that writes the saga row is the one that *)
(* holds a copy of it, so its copy is the row whenever it matters, every   *)
(* compare-and-swap matches, and every event is new.                       *)
(***************************************************************************)
EXTENDS SagaRecords_proofs, FiniteSetTheorems

Solo(r) == Replicas = {r} /\ Operators = {} /\ "ack" \notin Faults

-----------------------------------------------------------------------------
(* The inductive invariant.                                                *)

\* Where a worker has no use for what it has loaded.
Between == {"idle", "loadTx", "loadSaga", "releaseOk", "recheck"}

RowInHand == Label \ (Between \cup {"advance", "cLoadSaga"})
TxInHand ==
  (RowInHand \ {"releaseErr", "poll", "confirmLoad", "cLoadTx"}) \cup {"loadSaga"}
Confirming == {"advance", "poll", "confirmLoad", "confirm"}

\* What the worker holds is what the store holds; it works on a saga that is
\* not terminal.
Current(r) ==
  /\ tx.version = saga.version /\ tx.status = saga.state
  /\ pc[r] \notin Between => ~Terminal(saga.state)
  /\ pc[r] \in RowInHand => snap[r] = saga
  /\ pc[r] \in TxInHand => snapTx[r] = tx.version
  /\ pc[r] \in Confirming => saga.state = "BROADCASTED"

\* Nothing is announced before it has happened.
Announced ==
  /\ IsFiniteSet(outbox)
  /\ SagaEvent("transaction.confirmed") \in outbox =>
       saga.state \in {"CONFIRMED", "COMPLETED", "FAILED_COMPENSATED", "FAILED"}
  /\ \A e \in outbox :
       e.type \in {"FAILED_COMPENSATED", "FAILED"} => IsFailure(saga.state)

\* The cascade has compensated the step at position i.
Behind(r, i) ==
  \/ pc[r] \in {"cMark", "cCall"} /\ idx[r] < i
  \/ pc[r] = "cOk" /\ idx[r] <= i
  \/ pc[r] = "cFinal"

\* The walk starts at the current step, and has refunded a capture and asked
\* for the monitoring of a broadcast by the time it is past their steps.
Walk(r) ==
  /\ pc[r] \in {"cLoadSaga", "cLoadTx"} => idx[r] = StepIndex(saga.step)
  /\ "capture_id" \in saga.payload /\ Behind(r, 2) => effects["refund"] > 0
  /\ "tx_hash" \in saga.payload /\ Behind(r, 5) => effects["monitor"] > 0

\* While nothing fails, a step whose partner has acted is about to be saved or
\* has been, and a refund is the cascade's own.
Once(r) ==
  faults + crashes = 0 =>
    /\ \A s \in {"PAYMENT", "MPC_SIGN", "BROADCAST"} :
         /\ effects[StepEffect(s)] <= 1
         /\ effects[StepEffect(s)] > 0 => Passed(s) \/ (pc[r] = "persist" /\ saga.step = s)
    /\ effects["refund"] <= 1
    /\ effects["refund"] > 0 => IsFailure(saga.state) \/ Behind(r, 2)

SoloInv(r) ==
  RecordInv /\ Current(r) /\ Announced /\ Walk(r) /\ CaptureRefunded /\ Once(r)

-----------------------------------------------------------------------------
(* What the worker holds is current.                                       *)

\* A step that leaves the saga, the transaction and the outbox alone, and the
\* worker with what is current.
Quiet(r) == UNCHANGED <<saga, tx, outbox>> /\ Current(r)'

\* The worker gets to label l with the row and the version it had, or with
\* ones it has just loaded.
LEMMA GetsTo ==
  ASSUME TypeOK, NEW r \in Procs, Current(r), NEW l \in Label,
         UNCHANGED <<saga, tx, outbox>>, pc'[r] = l,
         l \notin Between => ~Terminal(saga.state),
         l \in RowInHand => snap'[r] = saga,
         l \in TxInHand => snapTx'[r] = tx.version,
         l \in Confirming => saga.state = "BROADCASTED"
  PROVE  Quiet(r)
  BY DEF Quiet, Current

\* The call returns.
LEMMA FinishQuiet ==
  ASSUME TypeOK, NEW r \in Procs, Current(r), UNCHANGED <<saga, tx, outbox>>, Finish(r)
  PROVE  Quiet(r)
<1>1. pc'[r] = "idle"
  BY DEF Finish, Go, TypeOK
<1> QED BY <1>1 DEF Quiet, Current, Between, RowInHand, TxInHand, Confirming

\* The loop of Run.
LEMMA LoopQuiet ==
  ASSUME TypeOK, NEW r \in Procs, Current(r),
         \/ Dequeue(r) \/ LoadTx(r) \/ LoadSagaState(r) \/ RunFails(r)
         \/ Acquire(r) \/ LeaseHeld(r) \/ Release(r) \/ Recheck(r)
         \/ AdvanceLoad(r) \/ Poll(r) \/ ConfirmLoadTx(r) \/ AdvanceFails(r)
  PROVE  Quiet(r)
<1> USE DEF store, locals, Go, At, ReadSaga, ReadTx
<1>0. UNCHANGED <<saga, tx, outbox>>
  BY DEF Dequeue, LoadTx, LoadSagaState, RunFails, Acquire, LeaseHeld, Release, Recheck,
         AdvanceLoad, Poll, ConfirmLoadTx, AdvanceFails
<1>t. /\ pc \in [Procs -> Label] /\ snap \in [Procs -> SagaRow]
      /\ snapTx \in [Procs -> Nat \ {0}]
  BY DEF TypeOK
<1>1. CASE Dequeue(r) \/ LeaseHeld(r) \/ AdvanceFails(r)
  <2>1. pc'[r] = "loadTx"
    BY <1>1, <1>t DEF Dequeue, LeaseHeld, AdvanceFails
  <2> QED BY <1>0, <2>1, GetsTo DEF Label, RunLabel, Between, RowInHand, TxInHand, Confirming
<1>2. CASE LoadTx(r)
  <2>1. pc'[r] = "loadSaga" /\ snapTx'[r] = tx.version
    BY <1>2, <1>t DEF LoadTx
  <2> QED BY <1>0, <2>1, GetsTo DEF Label, RunLabel, Between, RowInHand, Confirming
<1>3. CASE LoadSagaState(r)
  <2>1. CASE Terminal(saga.state)
    BY <1>0, <1>3, <2>1, FinishQuiet DEF LoadSagaState
  <2>2. CASE ~Terminal(saga.state)
    <3>1. pc'[r] = "acquire" /\ snap'[r] = saga /\ snapTx' = snapTx /\ pc[r] = "loadSaga"
      BY <1>3, <1>t, <2>2 DEF LoadSagaState
    <3>2. snapTx[r] = tx.version
      BY <3>1 DEF Current, TxInHand
    <3> QED BY <1>0, <2>2, <3>1, <3>2, GetsTo DEF Label, RunLabel, Confirming
  <2> QED BY <2>1, <2>2
<1>4. CASE RunFails(r)
  BY <1>0, <1>4, FinishQuiet DEF RunFails
<1>5. CASE Acquire(r)
  <2>1. pc'[r] = "begin" /\ UNCHANGED <<snap, snapTx>> /\ pc[r] = "acquire"
    BY <1>5, <1>t DEF Acquire
  <2>2. snap[r] = saga /\ snapTx[r] = tx.version /\ ~Terminal(saga.state)
    BY <2>1 DEF Current, TxInHand, RowInHand, Label, RunLabel, Between
  <2> QED BY <1>0, <2>1, <2>2, GetsTo DEF Label, StepLabel, Confirming
<1>6. CASE Release(r)
  <2>1. \/ pc'[r] = "recheck"
        \/ pc'[r] = "cLoadSaga" /\ pc[r] = "releaseErr"
    BY <1>6, <1>t DEF Release
  <2>2. pc[r] = "releaseErr" => ~Terminal(saga.state)
    BY DEF Current, Between
  <2> QED BY <1>0, <2>1, <2>2, GetsTo
          DEF Label, RunLabel, CascadeLabel, Between, RowInHand, TxInHand, Confirming
<1>7. CASE Recheck(r)
  <2>1. CASE Finish(r)
    BY <1>0, <2>1, FinishQuiet
  <2>2. CASE ~Finish(r)
    <3>1. \/ pc'[r] = "advance" /\ saga.state = "BROADCASTED"
          \/ pc'[r] = "loadTx"
      BY <1>7, <1>t, <2>2 DEF Recheck
    <3>2. ~Terminal("BROADCASTED")
      BY DEF Terminal, IsFailure
    <3> QED BY <1>0, <3>1, <3>2, GetsTo
            DEF Label, RunLabel, Between, RowInHand, TxInHand, Confirming
  <2> QED BY <2>1, <2>2
<1>8. CASE AdvanceLoad(r) \/ Poll(r) \/ ConfirmLoadTx(r)
  <2>1. saga.state = "BROADCASTED" /\ ~Terminal(saga.state)
    BY <1>8 DEF AdvanceLoad, Poll, ConfirmLoadTx, Current, Confirming, Terminal, IsFailure
  <2>2. CASE AdvanceLoad(r)
    <3>1. (pc'[r] = "poll" \/ pc'[r] = "loadTx") /\ snap'[r] = saga
      BY <1>t, <2>2 DEF AdvanceLoad
    <3> QED BY <1>0, <2>1, <3>1, GetsTo DEF Label, RunLabel, Between, RowInHand, TxInHand
  <2>3. CASE Poll(r)
    <3>1. (pc'[r] = "confirmLoad" \/ pc'[r] = "loadTx") /\ snap' = snap /\ pc[r] = "poll"
      BY <1>t, <2>3 DEF Poll
    <3>2. snap[r] = saga
      BY <3>1 DEF Current, RowInHand, Label, RunLabel, Between
    <3> QED BY <1>0, <2>1, <3>1, <3>2, GetsTo DEF Label, RunLabel, Between, RowInHand, TxInHand
  <2>4. CASE ConfirmLoadTx(r)
    <3>1. pc'[r] = "confirm" /\ snap' = snap /\ snapTx'[r] = tx.version /\ pc[r] = "confirmLoad"
      BY <1>t, <2>4 DEF ConfirmLoadTx
    <3>2. snap[r] = saga
      BY <3>1 DEF Current, RowInHand, Label, RunLabel, Between
    <3> QED BY <1>0, <2>1, <3>1, <3>2, GetsTo DEF Label, RunLabel
  <2> QED BY <1>8, <2>2, <2>3, <2>4
<1> QED BY <1>1, <1>2, <1>3, <1>4, <1>5, <1>6, <1>7, <1>8

\* Where a worker holds both the row and the version, inside a step and inside
\* a cascade.
Holding ==
  (StepLabel \cup CascadeLabel) \ {"releaseOk", "releaseErr", "cLoadSaga", "cLoadTx"}

\* A worker that holds the row keeps it until the end of the step or cascade.
LEMMA HoldingQuiet ==
  ASSUME TypeOK, NEW r \in Procs, Current(r), pc[r] \in Holding,
         UNCHANGED <<saga, tx, outbox, snap, snapTx>>,
         NEW l \in Holding \cup {"releaseOk", "releaseErr"}, Go(r, l)
  PROVE  Quiet(r)
<1>1. snap[r] = saga /\ snapTx[r] = tx.version /\ ~Terminal(saga.state)
  BY DEF Current, Holding, StepLabel, CascadeLabel, RowInHand, TxInHand, Label, RunLabel,
         Between
<1>2. pc'[r] = l /\ l \in Label /\ l \notin Confirming
  BY DEF TypeOK, Go, Holding, StepLabel, CascadeLabel, Label, Confirming
<1> QED BY <1>1, <1>2, GetsTo

-----------------------------------------------------------------------------
(* The kinds of step.                                                      *)

\* A failure or a crash is counted, or nothing has failed.
Counted == faults' + crashes' > 0 \/ UNCHANGED <<faults, crashes>>

\* The worker moves outside the cascade.  Unless something fails, its partners
\* are not called and it does not come from a cascade; it gives up a result
\* that waits to be saved only for a ledger step.
Moves(r) ==
  /\ Quiet(r)
  /\ pc'[r] \notin CascadeLabel
  /\ effects'["refund"] = effects["refund"]
  /\ \/ faults' + crashes' > 0
     \/ /\ UNCHANGED <<effects, faults, crashes>>
        /\ pc[r] \notin CascadeLabel /\ pc'[r] # "persist"
        /\ pc[r] = "persist" => saga.step = "LEDGER"

\* The partner of the current step carries out its call.
Called(r) ==
  /\ Quiet(r)
  /\ UNCHANGED <<faults, crashes>>
  /\ pc[r] \notin CascadeLabel \cup {"persist"} /\ pc'[r] = "persist"
  /\ Happens(StepEffect(saga.step))

\* Compensate of the step at idx: refund what was captured, ask for the
\* monitoring of what was broadcast; only the refund can fail.
Undoes(r) ==
  \/ /\ pc'[r] = "cOk" /\ Counted
     /\ IF idx[r] = 2 /\ "capture_id" \in saga.payload THEN Happens("refund")
        ELSE IF idx[r] = 5 /\ "tx_hash" \in saga.payload THEN Happens("monitor")
        ELSE UNCHANGED effects
  \/ /\ pc'[r] = "cErr" /\ idx[r] = 2
     /\ \/ UNCHANGED effects /\ Counted
        \/ Happens("refund") /\ faults' + crashes' > 0

\* The worker starts a cascade at the current step, or goes on with it.
Walks(r) ==
  /\ Quiet(r)
  /\ \/ /\ pc[r] = "releaseErr" /\ pc'[r] = "cLoadSaga"
        /\ idx'[r] = StepIndex(saga.step) /\ UNCHANGED effects /\ Counted
     \/ /\ <<pc[r], pc'[r]>> \in {<<"cLoadSaga", "cLoadTx">>, <<"cLoadTx", "cMark">>,
                                  <<"cMark", "cCall">>, <<"cErr", "cFinalErr">>}
        /\ UNCHANGED <<idx, effects>> /\ Counted
     \/ pc[r] = "cCall" /\ UNCHANGED idx /\ Undoes(r)
     \/ /\ pc[r] = "cOk" /\ pc'[r] = "cMark" /\ idx'[r] = idx[r] - 1
        /\ UNCHANGED effects /\ Counted
     \/ /\ pc[r] = "cOk" /\ pc'[r] = "cFinal" /\ idx[r] = 1
        /\ UNCHANGED <<idx, effects>> /\ Counted

\* One SQL transaction writes the row, the status and a new event.
Saved(evt) ==
  /\ evt \notin outbox /\ outbox' = outbox \cup {evt}
  /\ tx' = Status(saga'.state)
  /\ UNCHANGED <<effects, faults, crashes>>

SuccessSaved(r) ==
  /\ pc[r] = "persist" /\ pc'[r] = "releaseOk"
  /\ saga' = AfterSuccess(saga, saga.step)
  /\ saga.step = "LEDGER" => saga.state = "CONFIRMED"
  /\ \E a \in Attempt : Saved(StepEvent(saga.step, a))

ConfirmationSaved(r) ==
  /\ pc[r] = "confirm" /\ pc'[r] = "loadTx"
  /\ saga.state = "BROADCASTED"
  /\ saga' = Derived(saga, "CONFIRMED", "LEDGER", {})
  /\ Saved(SagaEvent("transaction.confirmed"))

\* A saga that ends as compensated has gone through a cascade, or was denied
\* before anything was done for it.
FailureSaved(r) ==
  /\ pc[r] \in {"terminal", "cFinal", "cFinalErr"} /\ pc'[r] \in {"releaseOk", "idle"}
  /\ ~Terminal(saga.state)
  /\ \E st \in {"FAILED_COMPENSATED", "FAILED"},
        keys \in SUBSET {"policy_reason", "ledger_reconcile_required"} :
       /\ saga' = Derived(saga, st, saga.step, keys)
       /\ \E evt \in Event : evt.type = st /\ Saved(evt)
       /\ st = "FAILED_COMPENSATED" => pc[r] = "cFinal" \/ saga.step = "POLICY"

\* The worker does nothing: a restart, a lease that expires.
Rests == UNCHANGED <<store, pc, locals, effects, faults, crashes>>

SoloStep(r) ==
  \/ Rests \/ Moves(r) \/ Called(r) \/ Walks(r)
  \/ SuccessSaved(r) \/ ConfirmationSaved(r) \/ FailureSaved(r)

\* A failure of any kind is counted.
LEMMA FailsCounts ==
  ASSUME TypeOK, UNCHANGED crashes
  PROVE  /\ \A k : Fails(k) => faults' + crashes' > 0
         /\ Works => UNCHANGED <<faults, crashes>>
  BY ConstantsAssumption DEF TypeOK, Fails, Works

\* The loop of Run.
LEMMA LoopSolo ==
  ASSUME TypeOK, NEW r \in Procs, Current(r),
         \/ Dequeue(r) \/ LoadTx(r) \/ LoadSagaState(r) \/ RunFails(r)
         \/ Acquire(r) \/ LeaseHeld(r) \/ Release(r) \/ Recheck(r)
         \/ AdvanceLoad(r) \/ Poll(r) \/ ConfirmLoadTx(r) \/ AdvanceFails(r)
  PROVE  Moves(r) \/ Walks(r)
<1> USE DEF locals, cluster, Go, At
<1>t. pc \in [Procs -> Label] /\ idx \in [Procs -> 1 .. 6]
  BY DEF TypeOK
<1>q. Quiet(r) /\ UNCHANGED effects /\ UNCHANGED crashes
  BY LoopQuiet
     DEF Dequeue, LoadTx, LoadSagaState, RunFails, Acquire, LeaseHeld, Release, Recheck,
         AdvanceLoad, Poll, ConfirmLoadTx, AdvanceFails
<1>f. Counted
  BY <1>q, FailsCounts
     DEF Dequeue, LoadTx, LoadSagaState, RunFails, Acquire, LeaseHeld, Release, Recheck,
         AdvanceLoad, Poll, ConfirmLoadTx, AdvanceFails, Counted
<1>1. CASE Release(r) /\ pc[r] = "releaseErr"
  <2>1. snap[r] = saga
    BY <1>1 DEF Current, RowInHand, Between, Label, StepLabel
  <2>2. pc'[r] = "cLoadSaga" /\ idx'[r] = StepIndex(saga.step)
    BY <1>1, <1>t, <2>1 DEF Release
  <2> QED BY <1>1, <1>q, <1>f, <2>2 DEF Walks
<1>2. CASE ~(Release(r) /\ pc[r] = "releaseErr")
  <2>1. /\ pc[r] \in {"idle"} \cup RunLabel \cup {"releaseOk"}
        /\ pc'[r] \in {"idle"} \cup RunLabel \cup {"begin"}
    BY <1>2, <1>t
       DEF Dequeue, LoadTx, LoadSagaState, RunFails, Acquire, LeaseHeld, Release, Recheck,
           AdvanceLoad, Poll, ConfirmLoadTx, AdvanceFails, Finish, RunLabel
  <2> QED BY <1>q, <1>f, <2>1 DEF Moves, Counted, RunLabel, CascadeLabel
<1> QED BY <1>1, <1>2

\* The next attempt, or none.
LEMMA NextAttemptGoes ==
  ASSUME TypeOK, NEW r \in Procs, NextAttempt(r)
  PROVE  \E l \in {"begin", "releaseErr"} : Go(r, l)
  BY DEF NextAttempt

\* A worker inside a step that makes no call moves on with what it holds.
LEMMA InsideMoves ==
  ASSUME TypeOK, NEW r \in Procs, Current(r), pc[r] \in StepLabel \cap Holding,
         UNCHANGED <<saga, tx, outbox, snap, snapTx, crashes, effects>>,
         NEW l \in StepLabel, l # "persist", Go(r, l),
         \/ \E k : Fails(k)
         \/ Works /\ (pc[r] = "persist" => saga.step = "LEDGER")
  PROVE  Moves(r)
<1>1. Quiet(r)
  BY HoldingQuiet DEF Holding, StepLabel, CascadeLabel
<1>2. pc'[r] = l /\ l \notin CascadeLabel /\ pc[r] \notin CascadeLabel
  BY DEF TypeOK, Go, StepLabel, CascadeLabel
<1> QED BY <1>1, <1>2, FailsCounts DEF Moves

\* runStepOnce without its SQL transactions.
LEMMA StepSolo ==
  ASSUME TypeOK, NEW r \in Procs, "ack" \notin Faults, Current(r),
         BeginStep(r) \/ StepTxFails(r) \/ MarkFailed(r)
  PROVE  Moves(r)
<1> USE DEF store, cluster, At
<1>1. /\ UNCHANGED <<saga, tx, outbox, snap, snapTx, crashes, effects>>
      /\ pc[r] \in {"begin", "persist", "failRetry", "failFinal"}
  BY DEF BeginStep, StepTxFails, MarkFailed
<1>2. pc[r] \in StepLabel \cap Holding
  BY <1>1 DEF StepLabel, CascadeLabel, Holding
<1>3. \E l \in {"begin", "releaseErr", "releaseOk", "call"} : Go(r, l)
  BY NextAttemptGoes DEF BeginStep, StepTxFails, MarkFailed, Fails
<1>4. \/ \E k : Fails(k)
      \/ Works /\ pc[r] # "persist"
  BY DEF BeginStep, StepTxFails, MarkFailed
<1> QED BY <1>1, <1>2, <1>3, <1>4, InsideMoves DEF StepLabel

\* In the hands of the only worker, the success of a step is saved, unless it
\* is the posting of a saga whose broadcast is not confirmed.
LEMMA SuccessSolo ==
  ASSUME RecordInv, NEW r \in Procs, "ack" \notin Faults, Current(r), PersistSuccess(r)
  PROVE  Moves(r) \/ SuccessSaved(r)
<1> DEFINE s == saga.step
           new == AfterSuccess(saga, s)
           evt == StepEvent(s, att[r])
<1>0. /\ TypeOK /\ saga \in SagaRow /\ s \in Step /\ att[r] \in Attempt
      /\ saga.version \in Nat /\ WellFormed(saga) /\ OneEventPerStep
  BY DEF RecordInv, SnapshotInv, TypeOK, StoreTypeOK, SagaRow, RowsWellFormed, Records
<1>1. pc[r] = "persist" /\ UNCHANGED <<snapTx, snap, effects, crashes>>
  BY DEF PersistSuccess, At, cluster
<1>2. /\ snap[r] = saga /\ snapTx[r] = tx.version /\ ~Terminal(saga.state)
      /\ pc[r] \in StepLabel \cap Holding
  BY <1>1 DEF Current, RowInHand, TxInHand, Label, StepLabel, RunLabel, CascadeLabel,
              Between, Holding
<1>3. CASE UNCHANGED store /\ s = "LEDGER" /\ Works /\ NextAttempt(r)
  <2>1. PICK l \in {"begin", "releaseErr"} : Go(r, l)
    BY <1>0, <1>3, NextAttemptGoes
  <2> QED BY <1>0, <1>1, <1>2, <1>3, <2>1, InsideMoves DEF store, StepLabel
<1>4. CASE ~(UNCHANGED store /\ s = "LEDGER" /\ Works /\ NextAttempt(r))
  <2>1. SaveMatches(new) /\ StatusMatches(snapTx[r])
    BY <1>0, <1>2 DEF SaveMatches, StatusMatches, AfterSuccess, Derived
  <2>2. ~Passed(s)
    BY <1>0, <1>2, RecordedKeys, StepFacts DEF Passed, WellFormed
  <2>3. evt \notin outbox
    BY <1>0, <2>2 DEF OneEventPerStep
  <2>4. s # "LEDGER" => validatePath(saga.state, StateForStep(s), new.state)
    <3>1. saga.state \in StatesAt(s)
      BY <1>0, <1>2 DEF WellFormed
    <3>2. s # "LEDGER" => /\ new.state = StateForStep(s)
                          /\ Transition(saga.state, StateForStep(s))
      BY <1>0, <1>2, <3>1
         DEF AfterSuccess, Derived, Step, StatesAt, StateForStep, Transition, forward
    <3> QED BY <3>2 DEF validatePath
  <2>5. /\ validatePath(saga.state, StateForStep(s), new.state)
        /\ StrictWrite(new, evt) /\ Works /\ Go(r, "releaseOk")
    BY <1>2, <1>4, <2>1, <2>3, <2>4 DEF PersistSuccess, StrictCommits, Fails
  <2>6. s = "LEDGER" => saga.state = "CONFIRMED"
    <3>1. ASSUME s = "LEDGER" PROVE saga.state \in {"BROADCASTED", "CONFIRMED"}
      BY <1>0, <1>2, <3>1 DEF WellFormed, StatesAt
    <3>2. ASSUME s = "LEDGER" PROVE saga.state # "BROADCASTED"
      BY <2>5, <3>2
         DEF validatePath, Transition, IsFailure, forward, AfterSuccess, Derived, StateForStep
    <3> QED BY <3>1, <3>2
  <2>7. pc'[r] = "releaseOk" /\ saga' = new
    BY <1>0, <2>5 DEF Go, TypeOK, StrictWrite
  <2>8. Saved(evt)
    BY <1>1, <2>3, <2>5 DEF Saved, StrictWrite, Works
  <2> QED BY <1>0, <1>1, <2>6, <2>7, <2>8 DEF SuccessSaved
<1> QED BY <1>3, <1>4

\* So is the confirmation of its broadcast.
LEMMA ConfirmationSolo ==
  ASSUME RecordInv, NEW r \in Procs, Current(r), Announced, PersistConfirmed(r)
  PROVE  ConfirmationSaved(r)
<1> DEFINE new == Derived(saga, "CONFIRMED", "LEDGER", {})
           evt == SagaEvent("transaction.confirmed")
<1>0. TypeOK /\ saga.version \in Nat
  BY DEF RecordInv, SnapshotInv, TypeOK, StoreTypeOK, SagaRow
<1>1. /\ pc[r] = "confirm" /\ pc'[r] = "loadTx"
      /\ UNCHANGED <<effects, faults, crashes>>
  BY <1>0 DEF PersistConfirmed, At, Go, TypeOK, cluster
<1>2. snap[r] = saga /\ snapTx[r] = tx.version /\ saga.state = "BROADCASTED"
  BY <1>1 DEF Current, RowInHand, TxInHand, Confirming, Label, RunLabel, Between
<1>3. Transition(saga.state, "CONFIRMED")
  BY <1>2 DEF Transition, Terminal, IsFailure, forward
<1>4. SaveMatches(new) /\ StatusMatches(snapTx[r])
  BY <1>0, <1>2 DEF SaveMatches, StatusMatches, Derived
<1>5. evt \notin outbox
  BY <1>2 DEF Announced
<1>6. StrictWrite(new, evt)
  BY <1>2, <1>3, <1>4, <1>5 DEF PersistConfirmed, StrictCommits
<1> QED BY <1>1, <1>2, <1>5, <1>6 DEF ConfirmationSaved, Saved, StrictWrite

\* So is a failure.
LEMMA LaxSolo ==
  ASSUME TypeOK, NEW r \in Procs, Current(r), Announced,
         snap[r] = saga, snapTx[r] = tx.version, ~Terminal(saga.state),
         NEW st \in {"FAILED_COMPENSATED", "FAILED"}, NEW keys,
         NEW evt, evt.type = st,
         LaxWrite(Derived(snap[r], st, snap[r].step, keys), snapTx[r], evt),
         UNCHANGED <<effects, faults, crashes>>
  PROVE  saga' = Derived(saga, st, saga.step, keys) /\ Saved(evt)
<1>1. evt \notin outbox
  BY DEF Announced, Terminal
<1>2. saga.version \in Nat
  BY DEF TypeOK, StoreTypeOK, SagaRow
<1>3. SaveMatches(Derived(saga, st, saga.step, keys)) /\ StatusMatches(tx.version)
  BY <1>2 DEF SaveMatches, StatusMatches, Derived
<1> QED BY <1>1, <1>3 DEF LaxWrite, Saved, Derived

LEMMA TerminalSolo ==
  ASSUME TypeOK, NEW r \in Procs, Current(r), Announced, PersistTerminal(r)
  PROVE  Moves(r) \/ FailureSaved(r)
<1> DEFINE s == snap[r].step
           st == TerminalState(s)
           evt == TerminalEvent(st, s, att[r])
<1>1. /\ pc[r] = "terminal" /\ Go(r, "releaseOk") /\ pc'[r] = "releaseOk"
      /\ UNCHANGED <<snapTx, snap, effects, crashes>>
  BY DEF PersistTerminal, At, Go, TypeOK, locals, cluster
<1>2. /\ snap[r] = saga /\ snapTx[r] = tx.version /\ ~Terminal(saga.state)
      /\ pc[r] \in StepLabel \cap Holding
  BY <1>1 DEF Current, RowInHand, TxInHand, Label, StepLabel, RunLabel, CascadeLabel,
              Between, Holding
<1>3. CASE Fails("store") /\ UNCHANGED store
  BY <1>1, <1>2, <1>3, InsideMoves DEF store, StepLabel
<1>4. CASE Works /\ LaxWrite(Derived(snap[r], st, s, TerminalMerge(s)), snapTx[r], evt)
  <2>1. /\ st \in {"FAILED_COMPENSATED", "FAILED"} /\ evt.type = st
        /\ TerminalMerge(s) \in SUBSET {"policy_reason", "ledger_reconcile_required"}
        /\ st = "FAILED_COMPENSATED" => s = "POLICY"
    BY DEF TerminalState, TerminalMerge, TerminalEvent
  <2>2. s \in Step /\ att[r] \in Attempt
    BY DEF TypeOK, SagaRow
  <2>3. evt \in Event
    BY <2>2, EventType
  <2> HIDE DEF st, evt
  <2>4. saga' = Derived(saga, st, saga.step, TerminalMerge(s)) /\ Saved(evt)
    BY <1>1, <1>2, <1>4, <2>1, LaxSolo DEF Works
  <2> QED BY <1>1, <1>2, <2>1, <2>3, <2>4 DEF FailureSaved
<1> QED BY <1>3, <1>4 DEF PersistTerminal

LEMMA FinalSolo ==
  ASSUME TypeOK, NEW r \in Procs, Current(r), Announced, CascadeFinal(r)
  PROVE  Moves(r) \/ FailureSaved(r)
<1> DEFINE st == IF pc[r] = "cFinal" THEN "FAILED_COMPENSATED" ELSE "FAILED"
           evt == SagaEvent(st)
<1>1. /\ pc[r] \in {"cFinal", "cFinalErr"} /\ Finish(r) /\ pc'[r] = "idle"
      /\ UNCHANGED <<effects, crashes>>
  BY DEF CascadeFinal, Finish, Go, TypeOK, cluster
<1>2. snap[r] = saga /\ snapTx[r] = tx.version /\ ~Terminal(saga.state)
  BY <1>1 DEF Current, RowInHand, TxInHand, Label, CascadeLabel, Between
<1>3. CASE Fails("store") /\ UNCHANGED <<saga, tx, outbox>>
  BY <1>1, <1>3, FinishQuiet, FailsCounts DEF Moves, CascadeLabel
<1>4. CASE Works /\ LaxWrite(Derived(snap[r], st, snap[r].step, {}), snapTx[r], evt)
  <2>1. /\ st \in {"FAILED_COMPENSATED", "FAILED"} /\ evt.type = st /\ evt \in Event
        /\ st = "FAILED_COMPENSATED" => pc[r] = "cFinal"
    BY EventType DEF SagaEvent
  <2> HIDE DEF st, evt
  <2>2. saga' = Derived(saga, st, saga.step, {}) /\ Saved(evt)
    BY <1>1, <1>2, <1>4, <2>1, LaxSolo DEF Works
  <2> QED BY <1>1, <1>2, <2>1, <2>2 DEF FailureSaved
<1> QED BY <1>3, <1>4 DEF CascadeFinal, At

\* The calls of a step: one that is accepted waits to be saved; any other
\* call has no effect, or its failure is counted.
LEMMA ExecuteSolo ==
  ASSUME RecordInv, NEW r \in Procs, Current(r), Execute(r)
  PROVE  Moves(r) \/ Called(r)
<1> USE DEF store, locals, cluster, At
<1>0. TypeOK /\ RowsWellFormed /\ InsideStep
  BY DEF RecordInv, SnapshotInv
<1>1. /\ UNCHANGED <<saga, tx, outbox, snap, snapTx, crashes>>
      /\ pc[r] \in {"call", "capture", "voidRetry", "voidFinal"}
  BY DEF Execute, PolicyExecute, PaymentAuthorize, PaymentCapture, PaymentVoid, KytExecute,
         MpcSignExecute, BroadcastExecute, LedgerExecute, Calling
<1>2. /\ pc[r] \in StepLabel \cap Holding /\ pc[r] \notin CascadeLabel \cup {"persist"}
      /\ snap[r] = saga
  BY <1>1 DEF Current, RowInHand, Label, StepLabel, RunLabel, CascadeLabel, Between, Holding
<1>3. /\ snap[r].step = "BROADCAST" => "tx_hash" \notin snap[r].payload
      /\ "ledger_journal_id" \notin snap[r].payload
  BY <1>0, <1>2, InsideHolds
<1>4. ASSUME NEW l \in {"capture", "failRetry", "failFinal", "terminal", "voidRetry",
                        "voidFinal"}, Go(r, l),
             \/ UNCHANGED effects /\ (Works \/ \E k : Fails(k))
             \/ \E k : Fails(k) /\ effects'["refund"] = effects["refund"]
      PROVE  Moves(r)
  <2>1. l \in StepLabel /\ l \in Holding
    BY DEF StepLabel, CascadeLabel, Holding
  <2>2. Quiet(r)
    BY <1>0, <1>1, <1>2, <1>4, <2>1, HoldingQuiet
  <2>3. pc'[r] = l /\ l \notin CascadeLabel /\ l # "persist"
    BY <1>0, <1>4 DEF TypeOK, Go, CascadeLabel
  <2> QED BY <1>0, <1>1, <1>2, <1>4, <2>2, <2>3, FailsCounts DEF Moves
<1>5. ASSUME Accepted(r, StepEffect(snap[r].step)) PROVE Called(r)
  <2>1. Quiet(r)
    BY <1>0, <1>1, <1>2, <1>5, HoldingQuiet DEF Accepted, StepLabel, CascadeLabel, Holding
  <2>2. pc'[r] = "persist"
    BY <1>0, <1>5 DEF TypeOK, Accepted, Go
  <2> QED BY <1>1, <1>2, <1>5, <2>1, <2>2 DEF Called, Accepted, Works
<1>6. ASSUME Unavailable(r) \/ Refused(r) \/ TerminalResult(r) PROVE Moves(r)
  BY <1>4, <1>6 DEF Unavailable, Refused, TerminalResult
<1>7. ASSUME NEW e \in Effect, e # "refund", Happens(e)
      PROVE  effects'["refund"] = effects["refund"]
  BY <1>0, <1>7 DEF Happens, TypeOK, Effect
<1>8. ASSUME NEW e \in Effect, e # "refund", ReplyLost(r, e) PROVE Moves(r)
  BY <1>4, <1>7, <1>8 DEF ReplyLost
<1>9. CASE PolicyExecute(r) \/ KytExecute(r) \/ MpcSignExecute(r)
  BY <1>5, <1>6, <1>8, <1>9
     DEF PolicyExecute, KytExecute, MpcSignExecute, Calling, StepEffect, Effect
<1>10. CASE PaymentAuthorize(r)
  BY <1>4, <1>6, <1>8, <1>10 DEF PaymentAuthorize, Effect
<1>11. CASE PaymentCapture(r)
  <2>1. snap[r].step = "PAYMENT"
    BY <1>0, <1>11 DEF PaymentCapture, InsideStep, Inside
  <2>2. CASE Accepted(r, "capture")
    BY <1>5, <2>1, <2>2 DEF StepEffect
  <2>3. CASE Fails("reply") /\ Happens("capture") /\ Go(r, "voidRetry")
    BY <1>4, <1>7, <2>3 DEF Effect
  <2> QED BY <1>4, <1>11, <2>2, <2>3 DEF PaymentCapture
<1>12. CASE PaymentVoid(r)
  <2>1. Fails("transient") /\ Happens("stray_auth") => effects'["refund"] = effects["refund"]
    BY <1>7 DEF Effect
  <2> QED BY <1>4, <1>12, <2>1 DEF PaymentVoid
<1>13. CASE BroadcastExecute(r)
  BY <1>3, <1>5, <1>6, <1>8, <1>13 DEF BroadcastExecute, Calling, StepEffect, Effect
<1>14. CASE LedgerExecute(r)
  BY <1>3, <1>5, <1>6, <1>8, <1>14 DEF LedgerExecute, Calling, StepEffect, Effect
<1> QED BY <1>9, <1>10, <1>11, <1>12, <1>13, <1>14 DEF Execute

\* The cascade.
LEMMA CascadeSolo ==
  ASSUME TypeOK, NEW r \in Procs, Current(r), Announced, compensateCascade(r)
  PROVE  Moves(r) \/ Walks(r) \/ FailureSaved(r)
<1> USE DEF store, locals, cluster, At
<1>t. pc \in [Procs -> Label] /\ idx \in [Procs -> 1 .. 6]
  BY DEF TypeOK
<1>1. CASE CascadeFinal(r)
  BY <1>1, FinalSolo
<1>2. CASE CascadeFails(r)
  <2>1. Quiet(r)
    BY <1>2, FinishQuiet DEF CascadeFails
  <2>2. /\ pc'[r] = "idle" /\ UNCHANGED <<effects, crashes>>
        /\ faults' + crashes' > 0
    BY <1>2, <1>t, FailsCounts DEF CascadeFails, Finish, Go
  <2> QED BY <2>1, <2>2 DEF Moves, CascadeLabel
<1>3. CASE CascadeLoadSaga(r) \/ CascadeLoadTx(r)
  <2>1. /\ UNCHANGED <<saga, tx, outbox, idx, effects, faults, crashes>>
        /\ pc[r] \in {"cLoadSaga", "cLoadTx"}
    BY <1>3 DEF CascadeLoadSaga, CascadeLoadTx
  <2>2. ~Terminal(saga.state)
    BY <2>1 DEF Current, Between
  <2>3. CASE CascadeLoadSaga(r)
    <3>1. pc[r] = "cLoadSaga" /\ pc'[r] = "cLoadTx" /\ snap'[r] = saga
      BY <1>t, <2>3 DEF CascadeLoadSaga, Go, ReadSaga, TypeOK
    <3>2. Quiet(r)
      BY <2>1, <2>2, <3>1, GetsTo DEF Label, CascadeLabel, Between, TxInHand, Confirming
    <3> QED BY <2>1, <3>1, <3>2 DEF Walks, Counted
  <2>4. CASE CascadeLoadTx(r)
    <3>1. /\ pc[r] = "cLoadTx" /\ pc'[r] = "cMark" /\ snapTx'[r] = tx.version
          /\ UNCHANGED snap
      BY <1>t, <2>4 DEF CascadeLoadTx, Go, ReadTx, TypeOK
    <3>2. snap[r] = saga
      BY <3>1 DEF Current, RowInHand, Label, CascadeLabel, Between
    <3>3. Quiet(r)
      BY <2>1, <2>2, <3>1, <3>2, GetsTo DEF Label, CascadeLabel, Confirming
    <3> QED BY <2>1, <3>1, <3>3 DEF Walks, Counted
  <2> QED BY <1>3, <2>3, <2>4
<1>4. CASE CascadeMark(r) \/ CascadeCall(r) \/ CascadeDone(r)
  <2>1. /\ UNCHANGED <<saga, tx, outbox, snap, snapTx, crashes>>
        /\ pc[r] \in {"cMark", "cCall", "cOk", "cErr"}
    BY <1>4 DEF CascadeMark, CascadeCall, CascadeDone
  <2>2. pc[r] \in Holding /\ snap[r] = saga
    BY <2>1 DEF Current, RowInHand, Label, StepLabel, CascadeLabel, Between, Holding
  <2>3. ASSUME NEW l \in {"cMark", "cCall", "cOk", "cErr", "cFinal", "cFinalErr"}, Go(r, l)
        PROVE  Quiet(r) /\ pc'[r] = l
    <3>1. l \in Holding
      BY DEF Holding, CascadeLabel
    <3> QED BY <1>t, <2>1, <2>2, <2>3, <3>1, HoldingQuiet DEF Go
  <2>4. ASSUME NEW st, MarkRow(r, st) PROVE Counted
    BY <2>1, <2>4, FailsCounts DEF MarkRow, Counted
  <2>5. CASE CascadeMark(r)
    BY <2>3, <2>4, <2>5 DEF CascadeMark, Walks
  <2>6. CASE CascadeDone(r)
    <3>1. CASE pc[r] = "cOk" /\ idx[r] > 1
      <4>1. idx'[r] = idx[r] - 1 /\ Go(r, "cMark") /\ UNCHANGED effects /\ Counted
        BY <1>t, <2>4, <2>6, <3>1 DEF CascadeDone
      <4> QED BY <2>3, <3>1, <4>1 DEF Walks
    <3>2. CASE pc[r] = "cOk" /\ ~(idx[r] > 1)
      <4>1. Go(r, "cFinal") /\ UNCHANGED <<idx, effects>> /\ Counted
        BY <2>4, <2>6, <3>2 DEF CascadeDone
      <4>2. idx[r] = 1
        BY <1>t, <3>2
      <4> QED BY <2>3, <3>2, <4>1, <4>2 DEF Walks
    <3>3. CASE pc[r] = "cErr"
      BY <2>3, <2>4, <2>6, <3>3 DEF CascadeDone, Walks
    <3> QED BY <2>6, <3>1, <3>2, <3>3 DEF CascadeDone
  <2>7. CASE CascadeCall(r)
    <3>1. pc[r] = "cCall" /\ UNCHANGED idx /\ idx[r] \in 1 .. 6
      BY <1>t, <2>7 DEF CascadeCall
    <3>2. /\ StepOrder(idx[r]) = "PAYMENT" <=> idx[r] = 2
          /\ StepOrder(idx[r]) = "BROADCAST" <=> idx[r] = 5
      BY <3>1 DEF StepOrder
    <3>3. Works => Counted
      BY <2>1 DEF Works, Counted
    <3>4. CASE idx[r] = 2
      <4>1. PaymentCompensate(r)
        BY <2>7, <3>2, <3>4 DEF CascadeCall
      <4>2. PICK l \in {"cOk", "cErr"} : Go(r, l)
        BY <4>1 DEF PaymentCompensate
      <4>3. Quiet(r) /\ pc'[r] = l
        BY <2>3, <4>2
      <4>4. Undoes(r)
        <5>1. CASE "capture_id" \in saga.payload
          <6>1. CASE Fails("reply") /\ Happens("refund") /\ Go(r, "cErr")
            BY <2>1, <2>3, <3>4, <6>1, FailsCounts DEF Undoes
          <6>2. CASE \/ Works /\ Happens("refund") /\ Go(r, "cOk")
                     \/ Works /\ UNCHANGED effects /\ Go(r, "cErr")
            BY <2>3, <3>3, <3>4, <5>1, <6>2 DEF Undoes
          <6> QED BY <2>2, <4>1, <5>1, <6>1, <6>2 DEF PaymentCompensate
        <5>2. CASE "capture_id" \notin saga.payload
          <6>1. Works /\ UNCHANGED effects
            BY <2>2, <4>1, <5>2 DEF PaymentCompensate
          <6> QED BY <3>3, <3>4, <4>3, <5>2, <6>1 DEF Undoes
        <5> QED BY <5>1, <5>2
      <4> QED BY <3>1, <4>3, <4>4 DEF Walks
    <3>5. CASE idx[r] = 5
      <4>1. BroadcastCompensate(r)
        BY <2>7, <3>2, <3>5 DEF CascadeCall
      <4>2. Quiet(r) /\ pc'[r] = "cOk"
        BY <2>3, <4>1 DEF BroadcastCompensate
      <4>3. Undoes(r)
        BY <2>2, <3>3, <3>5, <4>1, <4>2 DEF BroadcastCompensate, Undoes
      <4> QED BY <3>1, <4>2, <4>3 DEF Walks
    <3>6. CASE idx[r] \notin {2, 5}
      <4>1. Works /\ UNCHANGED effects /\ Go(r, "cOk")
        BY <2>7, <3>2, <3>6 DEF CascadeCall
      <4>2. Quiet(r) /\ Undoes(r)
        BY <2>3, <3>3, <3>6, <4>1 DEF Undoes
      <4> QED BY <3>1, <4>2 DEF Walks
    <3> QED BY <3>4, <3>5, <3>6
  <2> QED BY <1>4, <2>5, <2>6, <2>7
<1> QED BY <1>1, <1>2, <1>3, <1>4 DEF compensateCascade

\* Every step of the executor is of one of the kinds.
LEMMA NextSolo ==
  ASSUME RecordInv, NEW r \in Procs, Solo(r), Current(r), Announced, [Next]_vars
  PROVE  SoloStep(r)
<1>0. TypeOK /\ "ack" \notin Faults
  BY DEF RecordInv, SnapshotInv, Solo
<1>1. CASE Run(r)
  <2>1. CASE \/ Dequeue(r) \/ LoadTx(r) \/ LoadSagaState(r) \/ RunFails(r)
             \/ Acquire(r) \/ LeaseHeld(r) \/ Release(r) \/ Recheck(r)
             \/ AdvanceLoad(r) \/ Poll(r) \/ ConfirmLoadTx(r) \/ AdvanceFails(r)
    BY <1>0, <2>1, LoopSolo DEF SoloStep
  <2>2. CASE \/ PersistConfirmed(r) \/ BeginStep(r) \/ StepTxFails(r)
             \/ PersistSuccess(r) \/ PersistTerminal(r) \/ MarkFailed(r)
    BY <1>0, <2>2, ConfirmationSolo, StepSolo, SuccessSolo, TerminalSolo DEF SoloStep
  <2>3. CASE Execute(r) \/ compensateCascade(r)
    BY <1>0, <2>3, ExecuteSolo, CascadeSolo DEF SoloStep
  <2> QED BY <1>1, <2>1, <2>2, <2>3 DEF Run
<1>2. CASE Crash(r)
  <2>1. Quiet(r)
    BY <1>0, <1>2, FinishQuiet DEF Crash, store
  <2>2. pc'[r] = "idle" /\ UNCHANGED effects /\ faults' + crashes' > 0
    BY <1>0, <1>2, ConstantsAssumption DEF Crash, Finish, Go, TypeOK
  <2> QED BY <2>1, <2>2 DEF Moves, CascadeLabel, SoloStep
<1>3. CASE Restart(r) \/ LeaseExpires \/ UNCHANGED vars
  BY <1>3 DEF Restart, LeaseExpires, vars, cluster, Rests, SoloStep
<1> QED BY <1>1, <1>2, <1>3 DEF Next, Solo

-----------------------------------------------------------------------------
(* The invariant is inductive.                                             *)

\* A step that saves nothing.
Unsaved(r) == Rests \/ Moves(r) \/ Called(r) \/ Walks(r)

LEMMA UnsavedKeeps ==
  ASSUME NEW r \in Procs, Current(r), Unsaved(r)
  PROVE  UNCHANGED <<saga, tx, outbox>> /\ Current(r)'
<1>1. CASE Rests
  BY <1>1 DEF Rests, store, locals, Current
<1>2. CASE Moves(r) \/ Called(r) \/ Walks(r)
  BY <1>2 DEF Moves, Called, Walks, Quiet
<1> QED BY <1>1, <1>2 DEF Unsaved

\* What the worker holds stays current.
LEMMA CurrentNext ==
  ASSUME TypeOK, NEW r \in Procs, Current(r), SoloStep(r)
  PROVE  Current(r)'
<1>1. CASE Unsaved(r)
  BY <1>1, UnsavedKeeps
<1>2. CASE SuccessSaved(r) \/ ConfirmationSaved(r) \/ FailureSaved(r)
  <2>1. pc'[r] \in {"releaseOk", "loadTx", "idle"} /\ tx' = Status(saga'.state)
    BY <1>2 DEF SuccessSaved, ConfirmationSaved, FailureSaved, Saved
  <2>2. saga'.version = saga.version + 1
    BY <1>2 DEF SuccessSaved, ConfirmationSaved, FailureSaved, AfterSuccess, Derived
  <2>3. tx'.version = tx.version + 1 /\ tx'.status = saga'.state
    BY <2>1 DEF Status
  <2> QED BY <2>1, <2>2, <2>3 DEF Current, Between, RowInHand, TxInHand, Confirming
<1> QED BY <1>1, <1>2 DEF SoloStep, Unsaved

\* Nothing is announced before it has happened.
LEMMA AnnouncedNext ==
  ASSUME RecordInv, NEW r \in Procs, Current(r), Announced, SoloStep(r)
  PROVE  Announced'
<1>0. saga \in SagaRow /\ WellFormed(saga)
  BY DEF RecordInv, SnapshotInv, TypeOK, StoreTypeOK, RowsWellFormed
<1>1. CASE Unsaved(r)
  BY <1>1, UnsavedKeeps DEF Announced, SagaEvent
<1>2. CASE SuccessSaved(r)
  <2>1. PICK a \in Attempt : Saved(StepEvent(saga.step, a))
    BY <1>2 DEF SuccessSaved
  <2>2. outbox' = outbox \cup {StepEvent(saga.step, a)}
    BY <2>1 DEF Saved
  <2>3. pc[r] = "persist" /\ saga.step \in Step
    BY <1>0, <1>2 DEF SuccessSaved, SagaRow
  <2>4. ~Terminal(saga.state)
    BY <2>3 DEF Current, Between
  <2>5. saga.state \in StatesAt(saga.step)
    BY <1>0, <2>4 DEF WellFormed
  <2>6. saga.state = "CONFIRMED" => saga'.state = "COMPLETED"
    BY <1>2, <2>3, <2>5 DEF SuccessSaved, AfterSuccess, Derived, StatesAt, Step
  <2>7. ~IsFailure(saga.state) /\ saga.state # "COMPLETED"
    BY <2>4 DEF Terminal
  <2>8. IsFiniteSet(outbox')
    BY <2>2, FS_AddElement DEF Announced
  <2>9. \A e \in outbox' \ outbox : e.type = "step.succeeded"
    BY <2>2 DEF StepEvent
  <2>10. ~\E e \in outbox' : e.type \in {"FAILED_COMPENSATED", "FAILED"}
    BY <2>7, <2>9 DEF Announced
  <2>11. SagaEvent("transaction.confirmed") \in outbox' => saga'.state = "COMPLETED"
    <3>1. SagaEvent("transaction.confirmed").type # "step.succeeded"
      BY DEF SagaEvent
    <3>2. SagaEvent("transaction.confirmed") \in outbox' =>
            SagaEvent("transaction.confirmed") \in outbox
      BY <2>9, <3>1
    <3> QED BY <2>6, <2>7, <3>2 DEF Announced, IsFailure
  <2> QED BY <2>8, <2>10, <2>11 DEF Announced, SagaEvent
<1>3. CASE ConfirmationSaved(r)
  <2>1. /\ outbox' = outbox \cup {SagaEvent("transaction.confirmed")}
        /\ saga'.state = "CONFIRMED" /\ ~IsFailure(saga.state)
    BY <1>3 DEF ConfirmationSaved, Saved, Derived, IsFailure
  <2>2. IsFiniteSet(outbox')
    BY <2>1, FS_AddElement DEF Announced
  <2>3. \A e \in outbox' \ outbox : e.type = "transaction.confirmed"
    <3>1. SagaEvent("transaction.confirmed").type = "transaction.confirmed"
      BY DEF SagaEvent
    <3> QED BY <2>1, <3>1
  <2>4. ~\E e \in outbox' : e.type \in {"FAILED_COMPENSATED", "FAILED"}
    BY <2>1, <2>3 DEF Announced
  <2> QED BY <2>1, <2>2, <2>4 DEF Announced
<1>4. CASE FailureSaved(r)
  <2>1. PICK evt \in Event : Saved(evt) /\ IsFailure(saga'.state)
    BY <1>4 DEF FailureSaved, Derived, IsFailure
  <2>2. outbox' = outbox \cup {evt}
    BY <2>1 DEF Saved
  <2>3. IsFiniteSet(outbox')
    BY <2>2, FS_AddElement DEF Announced
  <2> QED BY <2>1, <2>3 DEF Announced, IsFailure
<1> QED BY <1>1, <1>2, <1>3, <1>4 DEF SoloStep, Unsaved

\* What a saga that is not terminal has on record of a capture and a broadcast.
LEMMA InFlightKeys ==
  ASSUME RecordInv, ~Terminal(saga.state)
  PROVE  /\ saga.step \in Step
         /\ "capture_id" \in saga.payload <=> StepIndex(saga.step) > 2
         /\ "tx_hash" \in saga.payload <=> StepIndex(saga.step) > 5
<1>1. saga.step \in Step /\ saga.payload = RecordedBefore(StepIndex(saga.step))
  BY DEF RecordInv, SnapshotInv, TypeOK, StoreTypeOK, SagaRow, RowsWellFormed, WellFormed
<1> QED BY <1>1, RecordedKeys DEF Step, StepIndex

\* The walk.
LEMMA WalkNext ==
  ASSUME RecordInv, NEW r \in Procs, Current(r), Walk(r), SoloStep(r), EffectsKept
  PROVE  Walk(r)'
<1>0. TypeOK /\ idx \in [Procs -> 1 .. 6]
  BY DEF RecordInv, SnapshotInv, TypeOK
<1>k. /\ effects["refund"] > 0 => effects'["refund"] > 0
      /\ effects["monitor"] > 0 => effects'["monitor"] > 0
  BY DEF EffectsKept, Effect
<1>1. CASE Rests
  BY <1>1 DEF Rests, store, locals, Walk, Behind
<1>2. CASE pc'[r] \notin CascadeLabel
  BY <1>2 DEF Walk, Behind, CascadeLabel
<1>3. CASE Walks(r)
  <2>0. UNCHANGED saga
    BY <1>3 DEF Walks, Quiet
  <2>1. CASE pc[r] = "releaseErr" /\ pc'[r] = "cLoadSaga" /\ idx'[r] = StepIndex(saga.step)
    BY <2>0, <2>1 DEF Walk, Behind
  <2>2. CASE pc[r] = "cLoadSaga" /\ pc'[r] = "cLoadTx" /\ UNCHANGED idx
    BY <2>0, <2>2 DEF Walk, Behind
  <2>3. CASE pc[r] = "cLoadTx" /\ pc'[r] = "cMark" /\ UNCHANGED idx
    <3>1. ~Terminal(saga.state) /\ idx[r] = StepIndex(saga.step)
      BY <2>3 DEF Current, Between, Walk
    <3>2. StepIndex(saga.step) \in 1 .. 6
      BY <3>1, InFlightKeys, StepFacts
    <3> QED BY <2>0, <2>3, <3>1, <3>2, InFlightKeys DEF Walk, Behind
  <2>4. CASE pc[r] = "cMark" /\ pc'[r] = "cCall" /\ UNCHANGED idx
    BY <1>k, <2>0, <2>4 DEF Walk, Behind
  <2>5. CASE pc[r] = "cCall" /\ UNCHANGED idx /\ Undoes(r)
    <3>1. CASE pc'[r] = "cErr"
      BY <3>1 DEF Walk, Behind
    <3>2. CASE pc'[r] = "cOk"
      <4>0. idx[r] \in 1 .. 6
        BY <1>0
      <4>1. ASSUME "capture_id" \in saga.payload, idx[r] <= 2 PROVE effects'["refund"] > 0
        <5>1. CASE idx[r] = 2
          BY <1>0, <2>5, <3>2, <4>1, <5>1, HappensCounts DEF Undoes, Effect
        <5>2. CASE idx[r] < 2
          BY <1>k, <2>5, <4>1, <5>2 DEF Walk, Behind
        <5> QED BY <4>0, <4>1, <5>1, <5>2
      <4>2. ASSUME "tx_hash" \in saga.payload, idx[r] <= 5 PROVE effects'["monitor"] > 0
        <5>1. CASE idx[r] = 5
          BY <1>0, <2>5, <3>2, <4>2, <5>1, HappensCounts DEF Undoes, Effect
        <5>2. CASE idx[r] < 5
          BY <1>k, <2>5, <4>2, <5>2 DEF Walk, Behind
        <5> QED BY <4>0, <4>2, <5>1, <5>2
      <4> QED BY <2>0, <2>5, <3>2, <4>1, <4>2 DEF Walk, Behind
    <3> QED BY <2>5, <3>1, <3>2 DEF Undoes
  <2>6. CASE pc[r] = "cOk" /\ pc'[r] = "cMark" /\ idx'[r] = idx[r] - 1
    BY <1>0, <1>k, <2>0, <2>6 DEF Walk, Behind
  <2>7. CASE pc[r] = "cOk" /\ pc'[r] = "cFinal" /\ idx[r] = 1
    BY <1>k, <2>0, <2>7 DEF Walk, Behind
  <2>8. CASE pc'[r] = "cFinalErr"
    BY <2>8 DEF Walk, Behind
  <2> QED BY <1>3, <2>1, <2>2, <2>3, <2>4, <2>5, <2>6, <2>7, <2>8 DEF Walks
<1>4. CASE ~Rests /\ ~Walks(r)
  BY <1>2, <1>4
     DEF SoloStep, Moves, Called, SuccessSaved, ConfirmationSaved, FailureSaved, CascadeLabel
<1> QED BY <1>1, <1>3, <1>4

\* A saga that ends as compensated has refunded its capture.
LEMMA RefundNext ==
  ASSUME RecordInv, NEW r \in Procs, Current(r), Walk(r), CaptureRefunded, SoloStep(r),
         EffectsKept
  PROVE  CaptureRefunded'
<1>k. effects["refund"] > 0 => effects'["refund"] > 0
  BY DEF EffectsKept, Effect
<1>1. CASE Unsaved(r)
  BY <1>1, <1>k, UnsavedKeeps DEF CaptureRefunded
<1>2. CASE SuccessSaved(r) \/ ConfirmationSaved(r)
  <2>1. saga.step \in Step
    BY DEF RecordInv, SnapshotInv, TypeOK, StoreTypeOK, SagaRow
  <2>2. saga'.state # "FAILED_COMPENSATED"
    BY <1>2, <2>1
       DEF SuccessSaved, ConfirmationSaved, AfterSuccess, Derived, Step, StateForStep
  <2> QED BY <2>2 DEF CaptureRefunded
<1>3. CASE FailureSaved(r)
  <2>1. PICK st \in {"FAILED_COMPENSATED", "FAILED"},
             keys \in SUBSET {"policy_reason", "ledger_reconcile_required"} :
          /\ saga' = Derived(saga, st, saga.step, keys)
          /\ st = "FAILED_COMPENSATED" => pc[r] = "cFinal" \/ saga.step = "POLICY"
    BY <1>3 DEF FailureSaved
  <2>2. /\ saga'.state = st
        /\ "capture_id" \in saga'.payload => "capture_id" \in saga.payload
    BY <2>1 DEF Derived
  <2>3. saga.step = "POLICY" => "capture_id" \notin saga.payload
    BY <1>3, InFlightKeys DEF FailureSaved, StepIndex
  <2>4. pc[r] = "cFinal" /\ "capture_id" \in saga.payload => effects["refund"] > 0
    BY DEF Walk, Behind
  <2> QED BY <1>k, <2>1, <2>2, <2>3, <2>4 DEF CaptureRefunded
<1> QED BY <1>1, <1>2, <1>3 DEF SoloStep, Unsaved

\* A call has one effect.
LEMMA HappensOnly ==
  ASSUME TypeOK, NEW e \in Effect, Happens(e)
  PROVE  /\ \A f \in Effect \ {e} : effects'[f] = effects[f]
         /\ ~(effects[e] > 0) => effects'[e] <= 1
  BY ConstantsAssumption DEF TypeOK, Happens

\* Steps have effects of their own.
LEMMA OwnEffects ==
  ASSUME NEW s \in Step
  PROVE  /\ StepEffect(s) \in Effect \ {"refund", "monitor"}
         /\ \A t \in Step : StepEffect(t) = StepEffect(s) => t = s
  BY DEF Step, StepEffect, Effect

\* The steps that Once is about.
Repeatable == {"PAYMENT", "MPC_SIGN", "BROADCAST"}

LEMMA RepeatablePassed ==
  /\ Repeatable \subseteq Step
  /\ \A s \in Repeatable : Passed(s) <=> StepIndex(s) < StepIndex(saga.step)
  BY DEF Repeatable, Step, Passed

\* While nothing fails, nothing is repeated: a save.
LEMMA OnceSaved ==
  ASSUME RecordInv, NEW r \in Procs, Current(r), Once(r),
         SuccessSaved(r) \/ ConfirmationSaved(r) \/ FailureSaved(r)
  PROVE  Once(r)'
<1>0. saga \in SagaRow /\ saga.step \in Step /\ WellFormed(saga)
  BY DEF RecordInv, SnapshotInv, TypeOK, StoreTypeOK, SagaRow, RowsWellFormed
<1>1. /\ UNCHANGED <<effects, faults, crashes>>
      /\ pc[r] \in {"persist", "confirm", "terminal", "cFinal", "cFinalErr"}
  BY DEF SuccessSaved, ConfirmationSaved, FailureSaved, Saved
<1>2. ~Terminal(saga.state) /\ ~IsFailure(saga.state)
  BY <1>1 DEF Current, Between, Terminal
<1>3. \A s \in Repeatable : Passed(s) => Passed(s)'
  <2>1. saga'.step \in Step /\ StepIndex(saga.step) <= StepIndex(saga'.step)
    <3>1. CASE SuccessSaved(r)
      BY <1>0, <3>1, StepFacts DEF SuccessSaved, AfterSuccess, Derived
    <3>2. CASE ConfirmationSaved(r)
      <4>1. saga.step = "LEDGER" /\ saga'.step = "LEDGER"
        BY <1>0, <3>2, BroadcastedAtLedger DEF ConfirmationSaved, Derived
      <4> QED BY <1>0, <4>1, StepFacts
    <3>3. CASE FailureSaved(r)
      BY <1>0, <3>3, StepFacts DEF FailureSaved, Derived
    <3> QED BY <3>1, <3>2, <3>3
  <2> QED BY <1>0, <2>1, RepeatablePassed, StepFacts DEF Passed
<1>4. ASSUME NEW s \in Repeatable, pc[r] = "persist", saga.step = s PROVE Passed(s)'
  <2>1. SuccessSaved(r) /\ saga.step # "LEDGER"
    BY <1>4 DEF SuccessSaved, ConfirmationSaved, FailureSaved, Repeatable
  <2>2. saga'.step = StepAfter(saga.step)
    BY <2>1 DEF SuccessSaved, AfterSuccess, Derived
  <2>3. StepIndex(saga.step) < StepIndex(saga'.step)
    BY <1>0, <2>1, <2>2, StepAfterFacts, StepFacts
  <2> QED BY <1>4, <2>3 DEF Passed
<1>5. ASSUME Behind(r, 2) PROVE IsFailure(saga'.state)
  <2>1. FailureSaved(r)
    BY <1>5 DEF SuccessSaved, ConfirmationSaved, Behind
  <2> QED BY <2>1 DEF FailureSaved, Derived, IsFailure
<1>6. ASSUME faults + crashes = 0
      PROVE  /\ \A s \in Repeatable :
                  /\ effects[StepEffect(s)] <= 1
                  /\ effects[StepEffect(s)] > 0 => Passed(s)'
             /\ effects["refund"] <= 1
             /\ effects["refund"] > 0 => IsFailure(saga'.state)
  BY <1>2, <1>3, <1>4, <1>5, <1>6 DEF Once, Repeatable
<1> QED BY <1>1, <1>6 DEF Once, Repeatable

\* A step that saves nothing and is not part of a cascade.
LEMMA OnceMoved ==
  ASSUME RecordInv, NEW r \in Procs, Current(r), Once(r), Rests \/ Moves(r) \/ Called(r)
  PROVE  Once(r)'
<1>0. TypeOK /\ UNCHANGED saga
  BY UnsavedKeeps DEF RecordInv, SnapshotInv, Unsaved
<1>1. CASE Rests
  BY <1>1 DEF Rests, store, locals, Once, Passed, Behind
<1>2. CASE Moves(r)
  <2>1. CASE faults' + crashes' > 0
    BY <2>1 DEF Once
  <2>2. CASE ~(faults' + crashes' > 0)
    <3>1. /\ UNCHANGED <<effects, faults, crashes>> /\ ~Behind(r, 2)
          /\ pc[r] = "persist" => saga.step = "LEDGER"
      BY <1>2, <2>2 DEF Moves, CascadeLabel, Behind
    <3> QED BY <1>0, <3>1 DEF Once, Passed
  <2> QED BY <2>1, <2>2
<1>3. CASE Called(r)
  <2>1. /\ Happens(StepEffect(saga.step)) /\ UNCHANGED <<faults, crashes>>
        /\ pc'[r] = "persist" /\ pc[r] # "persist" /\ ~Behind(r, 2) /\ Current(r)'
    BY <1>3 DEF Called, Quiet, CascadeLabel, Behind
  <2>2. ~Terminal(saga.state)
    BY <1>0, <2>1 DEF Current, Between
  <2>3. saga.step \in Step /\ ~Passed(saga.step)
    <3>1. saga.step \in Step /\ saga.payload = RecordedBefore(StepIndex(saga.step))
      BY <2>2 DEF RecordInv, SnapshotInv, TypeOK, StoreTypeOK, SagaRow, RowsWellFormed,
                  WellFormed
    <3> QED BY <3>1, RecordedKeys, StepFacts DEF Passed
  <2>4. /\ \A f \in Effect \ {StepEffect(saga.step)} : effects'[f] = effects[f]
        /\ ~(effects[StepEffect(saga.step)] > 0) => effects'[StepEffect(saga.step)] <= 1
    BY <1>0, <2>1, <2>3, OwnEffects, HappensOnly
  <2>5. effects'["refund"] = effects["refund"]
    BY <2>3, <2>4, OwnEffects DEF Effect
  <2>6. ASSUME faults + crashes = 0, NEW s \in Repeatable
        PROVE  /\ effects'[StepEffect(s)] <= 1
               /\ effects'[StepEffect(s)] > 0 => Passed(s) \/ saga.step = s
    <3>1. CASE s = saga.step
      BY <2>1, <2>3, <2>4, <2>6, <3>1 DEF Once, Repeatable
    <3>2. CASE s # saga.step
      <4>1. effects'[StepEffect(s)] = effects[StepEffect(s)]
        BY <2>3, <2>4, <3>2, OwnEffects, RepeatablePassed
      <4> QED BY <2>1, <2>6, <4>1 DEF Once, Repeatable
    <3> QED BY <3>1, <3>2
  <2>7. faults + crashes = 0 =>
          effects["refund"] <= 1 /\ (effects["refund"] > 0 => IsFailure(saga.state))
    BY <2>1 DEF Once
  <2> QED BY <1>0, <2>1, <2>5, <2>6, <2>7 DEF Once, Passed, Repeatable
<1> QED BY <1>1, <1>2, <1>3

\* A step of a cascade.
LEMMA OnceWalked ==
  ASSUME RecordInv, NEW r \in Procs, Current(r), Once(r), Walks(r)
  PROVE  Once(r)'
<1>0. TypeOK /\ UNCHANGED saga /\ idx[r] \in 1 .. 6
  BY DEF Walks, Quiet, RecordInv, SnapshotInv, TypeOK
<1>1. CASE faults' + crashes' > 0
  BY <1>1 DEF Once
<1>2. CASE ~(faults' + crashes' > 0)
  <2>1. UNCHANGED <<faults, crashes>> /\ pc[r] # "persist"
    BY <1>2 DEF Walks, Undoes, Counted
  <2>2. \A s \in Repeatable : effects'[StepEffect(s)] = effects[StepEffect(s)]
    <3>1. \/ UNCHANGED effects
          \/ \E e \in {"refund", "monitor"} : Happens(e)
      BY DEF Walks, Undoes
    <3>2. ASSUME NEW s \in Repeatable, NEW e \in {"refund", "monitor"}, Happens(e)
          PROVE  effects'[StepEffect(s)] = effects[StepEffect(s)]
      BY <1>0, <3>2, HappensOnly, OwnEffects, RepeatablePassed DEF Effect
    <3> QED BY <3>1, <3>2
  <2>3. CASE /\ pc[r] = "cCall" /\ pc'[r] = "cOk" /\ UNCHANGED idx
             /\ idx[r] = 2 /\ Happens("refund")
    <3>1. ~Behind(r, 2) /\ Behind(r, 2)' /\ ~IsFailure(saga.state)
      BY <2>3 DEF Behind, Current, Between, Terminal
    <3>2. faults + crashes = 0 => effects'["refund"] <= 1
      BY <1>0, <2>3, <3>1, HappensOnly DEF Once, Effect
    <3> QED BY <1>0, <2>1, <2>2, <3>1, <3>2 DEF Once, Passed, Repeatable
  <2>4. CASE ~(/\ pc[r] = "cCall" /\ pc'[r] = "cOk" /\ UNCHANGED idx
               /\ idx[r] = 2 /\ Happens("refund"))
    <3>1. effects'["refund"] = effects["refund"]
      <4>1. Happens("monitor") => effects'["refund"] = effects["refund"]
        BY <1>0, HappensOnly DEF Effect
      <4> QED BY <1>2, <2>4, <4>1 DEF Walks, Undoes
    <3>2. Behind(r, 2) => Behind(r, 2)'
      BY <1>0 DEF Walks, Undoes, Behind
    <3> QED BY <1>0, <2>1, <2>2, <3>1, <3>2 DEF Once, Passed, Repeatable
  <2> QED BY <2>3, <2>4
<1> QED BY <1>1, <1>2

\* The rows CreateTx writes and the idle worker satisfy the invariant.
LEMMA SoloInit ==
  ASSUME NEW r \in Procs, Init
  PROVE  SoloInv(r)
<1>1. RecordInv
  BY RecordInit
<1>2. pc[r] = "idle" /\ saga = InitialSaga /\ tx = [status |-> "CREATED", version |-> 1]
  BY DEF Init, CreateTx
<1>3. Current(r)
  BY <1>2 DEF Current, Between, RowInHand, TxInHand, Confirming, InitialSaga
<1>4. Announced
  <2>1. outbox = {SagaEvent("transaction.created")}
    BY DEF Init, CreateTx
  <2>2. SagaEvent("transaction.created").type = "transaction.created"
    BY DEF SagaEvent
  <2>3. SagaEvent("transaction.confirmed").type = "transaction.confirmed"
    BY DEF SagaEvent
  <2>4. SagaEvent("transaction.confirmed") \notin outbox
    BY <2>1, <2>2, <2>3
  <2> QED BY <2>1, <2>2, <2>4, FS_Singleton DEF Announced
<1>5. Walk(r) /\ CaptureRefunded
  BY <1>2 DEF Walk, Behind, CaptureRefunded, InitialSaga
<1>6. Once(r)
  <2>1. \A e \in Effect : effects[e] = 0
    BY DEF Init
  <2>2. \A s \in Repeatable : StepEffect(s) \in Effect
    BY RepeatablePassed, OwnEffects
  <2> QED BY <2>1, <2>2 DEF Once, Repeatable, Effect
<1> QED BY <1>1, <1>3, <1>4, <1>5, <1>6 DEF SoloInv

LEMMA SoloNext ==
  ASSUME NEW r \in Procs, Solo(r), SoloInv(r), [Next]_vars
  PROVE  SoloInv(r)' /\ SoloStep(r)
<1>1. RecordInv /\ RecordInv' /\ EffectsKept /\ TypeOK
  BY RecordNext DEF SoloInv, RecordInv, SnapshotInv
<1>2. SoloStep(r)
  BY <1>1, NextSolo DEF SoloInv
<1>3. Current(r)' /\ Announced' /\ Walk(r)' /\ CaptureRefunded'
  BY <1>1, <1>2, CurrentNext, AnnouncedNext, WalkNext, RefundNext DEF SoloInv
<1>4. Once(r)'
  BY <1>1, <1>2, OnceSaved, OnceMoved, OnceWalked DEF SoloInv, SoloStep
<1> QED BY <1>1, <1>2, <1>3, <1>4 DEF SoloInv

LEMMA SoloInvariant ==
  ASSUME NEW r, Solo(r)
  PROVE  Spec => []SoloInv(r)
<1>0. r \in Procs
  BY DEF Solo, Procs
<1>1. Init => SoloInv(r)
  BY <1>0, SoloInit
<1>2. SoloInv(r) /\ [Next]_vars => SoloInv(r)'
  BY <1>0, SoloNext
<1> QED BY <1>1, <1>2, PTL DEF Spec

-----------------------------------------------------------------------------
(* The theorems.                                                           *)

\* However often the replica crashes and whatever fails, a saga that reports
\* failed_compensated has given back what it recorded as captured.
THEOREM CapturesAreRefunded ==
  ASSUME NEW r, Solo(r)
  PROVE  Spec => []CaptureRefunded
<1>1. SoloInv(r) => CaptureRefunded
  BY DEF SoloInv
<1> QED BY <1>1, SoloInvariant, PTL

\* A payment, a refund, a signature or a broadcast is repeated only after
\* something has failed or crashed.
THEOREM RepeatsHaveReasons ==
  ASSUME NEW r, Solo(r)
  PROVE  Spec => []RepeatsExplained
<1>0. r \in Procs
  BY DEF Solo, Procs
<1>1. SoloInv(r) => RepeatsExplained
  <2> SUFFICES ASSUME SoloInv(r) PROVE RepeatsExplained
    OBVIOUS
  <2>1. /\ Once(r) /\ faults \in Nat /\ crashes \in Nat
        /\ \A e \in Effect : effects[e] \in Nat
    BY ConstantsAssumption DEF SoloInv, RecordInv, SnapshotInv, TypeOK
  <2>2. /\ StepEffect("PAYMENT") = "capture" /\ StepEffect("MPC_SIGN") = "sign"
        /\ StepEffect("BROADCAST") = "broadcast"
    BY DEF StepEffect
  <2>3. faults + crashes = 0 =>
          \A e \in {"capture", "refund", "sign", "broadcast"} : effects[e] <= 1
    BY <2>1, <2>2 DEF Once
  <2> QED BY <2>1, <2>3 DEF RepeatsExplained, Effect
<1> QED BY <1>1, SoloInvariant, PTL

\* A payment is refunded after a recorded broadcast only once the monitoring of
\* the on-chain transaction has been asked for.
THEOREM RefundsAreMonitored ==
  ASSUME NEW r, Solo(r)
  PROVE  Spec => MonitoredRefund
<1>0. r \in Procs
  BY DEF Solo, Procs
<1> DEFINE Monitored ==
             effects'["refund"] # effects["refund"] /\ "tx_hash" \in saga.payload
               => effects["monitor"] > 0
<1>1. SoloInv(r) /\ [Next]_vars => [Monitored]_vars
  <2> SUFFICES ASSUME SoloInv(r), [Next]_vars,
                      effects'["refund"] # effects["refund"], "tx_hash" \in saga.payload
               PROVE  effects["monitor"] > 0
    OBVIOUS
  <2>1. SoloStep(r) /\ TypeOK /\ Walk(r) /\ Current(r)
    BY <1>0, SoloNext DEF SoloInv, RecordInv, SnapshotInv
  <2>2. ~Rests /\ ~Moves(r)
    BY DEF Rests, Moves
  <2>3. ~SuccessSaved(r) /\ ~ConfirmationSaved(r) /\ ~FailureSaved(r)
    BY DEF SuccessSaved, ConfirmationSaved, FailureSaved, Saved
  <2>4. ~Called(r)
    <3>1. saga.step \in Step
      BY <2>1 DEF TypeOK, StoreTypeOK, SagaRow
    <3>2. StepEffect(saga.step) \in Effect \ {"refund"}
      BY <3>1, OwnEffects
    <3> QED BY <2>1, <3>2, HappensOnly DEF Called, Effect
  <2>5. Walks(r)
    BY <2>1, <2>2, <2>3, <2>4 DEF SoloStep
  <2>6. pc[r] = "cCall" /\ idx[r] = 2
    <3>1. Happens("monitor") => effects'["refund"] = effects["refund"]
      BY <2>1, HappensOnly DEF Effect
    <3> QED BY <2>5, <3>1 DEF Walks, Undoes
  <2> QED BY <2>1, <2>6 DEF Walk, Behind
<1> QED BY <1>1, SoloInvariant, PTL DEF Spec, MonitoredRefund

\* The executor implements the life cycle its clients are promised: its state
\* follows the forward table or fails, the reported status changes with it,
\* each change has one event, and a terminal state is final.
THEOREM ImplementsLifecycle ==
  ASSUME NEW r, Solo(r)
  PROVE  Spec => LifecycleSpec
<1>0. r \in Procs
  BY DEF Solo, Procs
<1>1. Init => Lifecycle!Init
  <2> SUFFICES ASSUME Init PROVE Lifecycle!Init
    OBVIOUS
  <2>1. /\ saga.state = "CREATED" /\ tx.status = "CREATED"
        /\ outbox = {SagaEvent("transaction.created")}
    BY DEF Init, CreateTx, InitialSaga
  <2>2. Cardinality(outbox) = 1
    BY <2>1, FS_Singleton
  <2> QED BY <2>1, <2>2 DEF Lifecycle!Init
<1>2. SoloInv(r) /\ [Next]_vars => [Lifecycle!Next]_Lifecycle!vars
  <2> SUFFICES ASSUME SoloInv(r), [Next]_vars
               PROVE  Lifecycle!Next \/ UNCHANGED Lifecycle!vars
    OBVIOUS
  <2>0. /\ SoloStep(r) /\ Current(r) /\ IsFiniteSet(outbox)
        /\ saga \in SagaRow /\ saga.step \in Step /\ WellFormed(saga)
    BY <1>0, SoloNext
       DEF SoloInv, Announced, RecordInv, RowsWellFormed, SnapshotInv, TypeOK, StoreTypeOK,
           SagaRow
  <2>1. CASE Unsaved(r)
    BY <1>0, <2>0, <2>1, UnsavedKeeps DEF Lifecycle!vars
  <2>2. ASSUME NEW evt, Saved(evt) PROVE Lifecycle!Move(saga'.state)
    <3>1. Cardinality(outbox') = Cardinality(outbox) + 1
      BY <2>0, <2>2, FS_AddElement DEF Saved
    <3>2. tx'.status = saga'.state
      BY <2>2 DEF Saved, Status
    <3> QED BY <3>1, <3>2 DEF Lifecycle!Move
  <2>3. CASE SuccessSaved(r)
    <3>1. ~Terminal(saga.state)
      BY <2>0, <2>3 DEF SuccessSaved, Current, Between
    <3>2. saga.state \in StatesAt(saga.step) /\ Lifecycle!Move(saga'.state)
      BY <2>0, <2>2, <2>3, <3>1 DEF WellFormed, SuccessSaved
    <3>3. CASE saga.step = "LEDGER"
      <4>1. saga.state = "CONFIRMED" /\ saga'.state = "COMPLETED"
        BY <2>3, <3>3 DEF SuccessSaved, AfterSuccess, Derived
      <4> QED BY <3>2, <4>1 DEF Lifecycle!Next, Lifecycle!Settle
    <3>4. CASE saga.step # "LEDGER"
      <4>1. /\ saga'.state = StateForStep(saga.step)
            /\ Lifecycle!forward(saga.state) = StateForStep(saga.step)
            /\ saga.state \in {"CREATED", "POLICY_CHECKED", "PAYMENT_CAPTURED",
                               "KYT_SCREENED", "SIGNED", "BROADCASTED"}
        BY <2>0, <2>3, <3>2, <3>4
           DEF SuccessSaved, AfterSuccess, Derived, StatesAt, StateForStep, Step, Lifecycle!forward
      <4>2. Lifecycle!Move(Lifecycle!forward(saga.state))
        BY <3>2, <4>1
      <4> QED BY <4>1, <4>2 DEF Lifecycle!Next, Lifecycle!Advance
    <3> QED BY <3>3, <3>4
  <2>4. CASE ConfirmationSaved(r)
    <3>1. /\ saga.state = "BROADCASTED" /\ saga'.state = "CONFIRMED"
          /\ Lifecycle!Move(saga'.state)
      BY <2>2, <2>4 DEF ConfirmationSaved, Derived
    <3>2. Lifecycle!forward("BROADCASTED") = "CONFIRMED"
      BY DEF Lifecycle!forward
    <3> QED BY <3>1, <3>2 DEF Lifecycle!Next, Lifecycle!Advance
  <2>5. CASE FailureSaved(r)
    <3>1. /\ ~Terminal(saga.state) /\ saga'.state \in {"FAILED_COMPENSATED", "FAILED"}
          /\ Lifecycle!Move(saga'.state)
      BY <2>2, <2>5 DEF FailureSaved, Derived
    <3>2. ~Lifecycle!Terminal(saga.state)
      BY <3>1 DEF Terminal, IsFailure, Lifecycle!Terminal, Lifecycle!IsFailure
    <3> QED BY <3>1, <3>2 DEF Lifecycle!Next, Lifecycle!Fail
  <2> QED BY <2>0, <2>1, <2>3, <2>4, <2>5 DEF SoloStep, Unsaved
<1> QED BY <1>1, <1>2, SoloInvariant, PTL DEF Spec, LifecycleSpec, Lifecycle!Spec

-----------------------------------------------------------------------------
(* The answer to GET, put together while the replica works.                *)

\* What a cascade leaves on the rows of the steps it compensates.
Marks == {"COMPENSATING", "COMPENSATED", "FAILED"}

\* The history of step s has a row whose status is one of set.
Listed(s, set) == \E a \in Attempt : rows[<<s, a>>] \in set

\* Steps on record are listed as over; before the first crash, as succeeded,
\* unless a cascade has begun: then the saga is not taken up again.
History(r) ==
  /\ \A s \in Step : Passed(s) => Listed(s, {"SUCCEEDED"} \cup Marks)
  /\ crashes = 0 =>
       /\ up[r]
       /\ pc[r] # "idle" => ~queued[r]
       /\ \/ \A s \in Step : Passed(s) => Listed(s, {"SUCCEEDED"})
          \/ /\ saga.state # "COMPLETED"
             /\ pc[r] \in CascadeLabel \/ (pc[r] = "idle" /\ ~queued[r])

\* State b is state a or one that may follow it.
Follows(a, b) == b = a \/ (~Terminal(a) /\ Rank(a) < Rank(b))

\* Each read finds the saga where the read before found it, or further on.
Reading ==
  /\ response \in [reads: 0 .. 2, status: State, state: State, step: Step,
                   rows: [Step \X Attempt -> StepStatus \cup {"ABSENT"}]]
  /\ response.reads > 0 => Follows(response.status, saga.state)
  /\ response.reads = 2 => /\ Follows(response.status, response.state)
                           /\ Follows(response.state, saga.state)
                           /\ StepIndex(response.step) <= StepIndex(saga.step)

\* Until the poller has answered nil - and may have confirmed the saga under a
\* cascade of the replica.
GetInv(r) == poller.pc = "nil" \/ (SoloInv(r) /\ History(r) /\ Reading)

\* A row of a step that is on record changes only by the mark of a cascade.
RowStep(r) ==
  \A s \in Step, a \in Attempt : Passed(s) =>
    \/ rows'[<<s, a>>] = rows[<<s, a>>]
    \/ rows'[<<s, a>>] \in Marks /\ pc[r] \in CascadeLabel /\ pc'[r] \in CascadeLabel

\* Without a crash a worker is put to work once, and its cascade is the end.
QueueStep(r) ==
  \/ crashes' > 0
  \/ /\ UNCHANGED crashes
     /\ up[r] => up'[r] /\ (queued'[r] => queued[r])
     /\ pc[r] = "idle" /\ pc'[r] # "idle" => queued[r] /\ ~queued'[r]
     /\ pc[r] \in CascadeLabel => pc'[r] \in CascadeLabel \cup {"idle"}

\* One row is updated.
LEMMA UpdatedRow ==
  ASSUME TypeOK, NEW s \in Step, NEW a \in Attempt, NEW st, rows' = UpdateStep(s, a, st)
  PROVE  \A t \in Step, b \in Attempt :
           rows'[<<t, b>>] = rows[<<t, b>>] \/ (t = s /\ rows'[<<t, b>>] = st)
  BY DEF TypeOK, StoreTypeOK, UpdateStep

LEMMA RowNext ==
  ASSUME RecordInv, NEW r \in Procs, Solo(r), Current(r), [Next]_vars
  PROVE  RowStep(r)
<1> USE DEF store, At
<1>0. /\ TypeOK /\ pc \in [Procs -> Label]
      /\ att[r] \in Attempt /\ StepOrder(idx[r]) \in Step /\ 1 \in Attempt
  BY StepOrderInStep, MaxRetriesAssumption DEF RecordInv, SnapshotInv, TypeOK, Attempt
<1>1. CASE UNCHANGED rows
  BY <1>1 DEF RowStep
<1>2. CASE BeginStep(r) \/ MarkFailed(r) \/ PersistSuccess(r) \/ PersistTerminal(r)
  <2>1. pc[r] \in {"begin", "failRetry", "failFinal", "persist", "terminal"}
    BY <1>2 DEF BeginStep, MarkFailed, PersistSuccess, PersistTerminal
  <2>2. snap[r] = saga /\ ~Terminal(saga.state)
    BY <2>1 DEF Current, RowInHand, Label, StepLabel, Between
  <2>3. saga.step \in Step /\ saga.payload = RecordedBefore(StepIndex(saga.step))
    BY <2>2 DEF RecordInv, SnapshotInv, TypeOK, StoreTypeOK, SagaRow, RowsWellFormed,
                WellFormed
  <2>4. ~Passed(saga.step)
    BY <2>3, RecordedKeys, StepFacts DEF Passed
  <2>5. UNCHANGED rows \/ \E st : rows' = UpdateStep(saga.step, att[r], st)
    BY <1>2, <2>2 DEF BeginStep, MarkFailed, PersistSuccess, PersistTerminal
  <2> QED BY <1>0, <1>1, <2>3, <2>4, <2>5, UpdatedRow DEF RowStep
<1>3. CASE CascadeMark(r) \/ CascadeDone(r)
  <2>1. pc[r] \in CascadeLabel /\ pc'[r] \in CascadeLabel
    BY <1>0, <1>3 DEF CascadeMark, CascadeDone, Go, CascadeLabel
  <2>2. UNCHANGED rows \/ \E st \in Marks : rows' = UpdateStep(StepOrder(idx[r]), 1, st)
    BY <1>3 DEF CascadeMark, CascadeDone, MarkRow, Marks
  <2> QED BY <1>0, <1>1, <2>1, <2>2, UpdatedRow DEF RowStep
<1>4. CASE /\ Run(r)
           /\ ~(BeginStep(r) \/ MarkFailed(r) \/ PersistSuccess(r) \/ PersistTerminal(r))
           /\ ~(CascadeMark(r) \/ CascadeDone(r))
  <2>1. UNCHANGED rows
    BY <1>4
       DEF Run, Dequeue, LoadTx, LoadSagaState, RunFails, Acquire, LeaseHeld, Release,
           Recheck, AdvanceLoad, Poll, ConfirmLoadTx, AdvanceFails, PersistConfirmed,
           StepTxFails, Execute, PolicyExecute, PaymentAuthorize, PaymentCapture,
           PaymentVoid, KytExecute, MpcSignExecute, BroadcastExecute, LedgerExecute,
           compensateCascade, CascadeLoadSaga, CascadeLoadTx, CascadeFails, CascadeCall,
           CascadeFinal
  <2> QED BY <1>1, <2>1
<1>5. CASE Crash(r) \/ Restart(r) \/ LeaseExpires \/ UNCHANGED vars
  BY <1>1, <1>5 DEF Crash, Restart, LeaseExpires, vars
<1> QED BY <1>2, <1>3, <1>4, <1>5 DEF Next, Solo

LEMMA QueueNext ==
  ASSUME TypeOK, NEW r \in Procs, Solo(r), [Next]_vars
  PROVE  QueueStep(r)
<1> USE DEF cluster, At
<1>0. /\ pc \in [Procs -> Label] /\ queued \in [Replicas -> BOOLEAN]
      /\ up \in [Replicas -> BOOLEAN] /\ crashes \in Nat /\ r \in Replicas
  BY ConstantsAssumption DEF TypeOK, Solo
<1>1. CASE Dequeue(r)
  BY <1>0, <1>1 DEF Dequeue, Go, QueueStep, CascadeLabel
<1>2. CASE compensateCascade(r)
  <2>1. UNCHANGED cluster /\ pc[r] \in CascadeLabel
    BY <1>2
       DEF compensateCascade, CascadeLoadSaga, CascadeLoadTx, CascadeFails, CascadeMark,
           CascadeCall, CascadeDone, CascadeFinal, CascadeLabel
  <2>2. \E l \in CascadeLabel \cup {"idle"} : Go(r, l)
    BY <1>2
       DEF compensateCascade, CascadeLoadSaga, CascadeLoadTx, CascadeFails, CascadeMark,
           CascadeCall, PaymentCompensate, BroadcastCompensate, CascadeDone, CascadeFinal,
           CascadeLabel, Finish
  <2>3. pc'[r] \in CascadeLabel \cup {"idle"} /\ pc[r] # "idle"
    BY <1>0, <2>1, <2>2 DEF Go, CascadeLabel
  <2> QED BY <2>1, <2>3 DEF QueueStep
<1>3. CASE Run(r) /\ ~Dequeue(r) /\ ~compensateCascade(r)
  <2>1. UNCHANGED cluster /\ pc[r] \in RunLabel \cup StepLabel
    BY <1>3
       DEF Run, LoadTx, LoadSagaState, RunFails, Acquire, LeaseHeld, Release, Recheck,
           AdvanceLoad, Poll, ConfirmLoadTx, AdvanceFails, PersistConfirmed, BeginStep,
           StepTxFails, PersistSuccess, PersistTerminal, MarkFailed, Execute, Calling,
           PolicyExecute, PaymentAuthorize, PaymentCapture, PaymentVoid, KytExecute,
           MpcSignExecute, BroadcastExecute, LedgerExecute, RunLabel, StepLabel
  <2> QED BY <2>1 DEF QueueStep, RunLabel, StepLabel, CascadeLabel
<1>4. CASE Crash(r)
  BY <1>0, <1>4 DEF Crash, QueueStep
<1>5. CASE Restart(r)
  BY <1>0, <1>5 DEF Restart, QueueStep
<1>6. CASE LeaseExpires \/ UNCHANGED vars
  BY <1>6 DEF LeaseExpires, vars, QueueStep
<1> QED BY <1>1, <1>2, <1>3, <1>4, <1>5, <1>6 DEF Next, Solo

\* Steps on record stay listed.
LEMMA HistoryNext ==
  ASSUME NEW r \in Procs, Solo(r), SoloInv(r), History(r), TypeOK', Current(r)',
         SoloStep(r), RecordStep, RowStep(r), QueueStep(r)
  PROVE  History(r)'
<1>0. /\ TypeOK /\ RowsWellFormed /\ InsideStep /\ saga.step \in Step
      /\ crashes \in Nat /\ crashes' \in Nat
  BY ConstantsAssumption
     DEF SoloInv, RecordInv, SnapshotInv, TypeOK, StoreTypeOK, SagaRow
<1>1. ASSUME NEW p \in Procs, SavesSuccess(p)
      PROVE  pc[r] = "persist" /\ \E a \in Attempt : rows'[<<saga.step, a>>] = "SUCCEEDED"
  <2>1. p = r /\ pc[r] = "persist"
    BY <1>1 DEF Solo, Procs, SavesSuccess
  <2>2. att[p] \in Attempt /\ rows'[<<saga.step, att[p]>>] = "SUCCEEDED"
    BY <1>0, <1>1 DEF SavesSuccess, TypeOK, StoreTypeOK, UpdateStep
  <2> QED BY <2>1, <2>2
<1>2. \A s \in Step : Passed(s)' => Passed(s) \/ Listed(s, {"SUCCEEDED"})'
  BY <1>0, <1>1, PassedNext DEF Listed
<1>3. ASSUME NEW s \in Step, Passed(s), NEW set,
             Listed(s, set), Marks \subseteq set \/ pc'[r] \notin CascadeLabel
      PROVE  Listed(s, set)'
  BY <1>3 DEF Listed, RowStep
<1>4. \A s \in Step : Passed(s)' => Listed(s, {"SUCCEEDED"} \cup Marks)'
  <2>1. \A s \in Step : Passed(s) => Listed(s, {"SUCCEEDED"} \cup Marks)'
    BY <1>3 DEF History
  <2>2. ASSUME NEW s \in Step, Listed(s, {"SUCCEEDED"})'
        PROVE  Listed(s, {"SUCCEEDED"} \cup Marks)'
    BY <2>2 DEF Listed
  <2> QED BY <1>0, <1>2, <2>1, <2>2
<1>5. ASSUME crashes' = 0
      PROVE  /\ up'[r] /\ (pc'[r] # "idle" => ~queued'[r])
             /\ \/ \A s \in Step : Passed(s)' => Listed(s, {"SUCCEEDED"})'
                \/ /\ saga'.state # "COMPLETED"
                   /\ pc'[r] \in CascadeLabel \/ (pc'[r] = "idle" /\ ~queued'[r])
  <2>0. crashes = 0 /\ UNCHANGED crashes
    BY <1>0, <1>5 DEF QueueStep
  <2>1. up'[r] /\ (pc'[r] # "idle" => ~queued'[r])
    BY <1>5, <2>0 DEF History, QueueStep
  <2>2. CASE pc'[r] \in CascadeLabel
    <3>1. ~Terminal(saga'.state)
      BY <2>2 DEF Current, Between, CascadeLabel
    <3> QED BY <2>1, <2>2, <3>1 DEF Terminal
  <2>3. CASE pc'[r] \notin CascadeLabel /\ \A s \in Step : Passed(s) => Listed(s, {"SUCCEEDED"})
    <3>1. \A s \in Step : Passed(s) => Listed(s, {"SUCCEEDED"})'
      BY <1>3, <2>3
    <3> QED BY <1>0, <1>2, <2>1, <3>1
  <2>4. CASE /\ pc'[r] \notin CascadeLabel /\ saga.state # "COMPLETED"
             /\ pc[r] \in CascadeLabel \/ (pc[r] = "idle" /\ ~queued[r])
    <3>1. pc'[r] = "idle" /\ ~queued'[r]
      BY <1>5, <2>0, <2>4 DEF History, QueueStep, CascadeLabel
    <3>2. saga'.state # "COMPLETED"
      <4>1. CASE Unsaved(r)
        BY <2>4, <4>1, UnsavedKeeps DEF SoloInv
      <4>2. ~SuccessSaved(r) /\ ~ConfirmationSaved(r)
        BY <2>4 DEF SuccessSaved, ConfirmationSaved, CascadeLabel
      <4>3. CASE FailureSaved(r)
        BY <4>3 DEF FailureSaved, Derived
      <4> QED BY <4>1, <4>2, <4>3 DEF SoloStep, Unsaved
    <3> QED BY <2>1, <3>1, <3>2
  <2> QED BY <2>0, <2>2, <2>3, <2>4 DEF History
<1> QED BY <1>4, <1>5 DEF History

\* The order of the states is transitive.
LEMMA FollowsTransitive ==
  ASSUME NEW a \in State, NEW b \in State, NEW c \in State, Follows(a, b), Follows(b, c)
  PROVE  Follows(a, c)
<1>1. \A s \in State : Rank(s) \in Nat
  BY DEF Rank, State
<1> QED BY <1>1 DEF Follows

\* The saga moves on, and its current step with it.
LEMMA SagaFollows ==
  ASSUME NEW r \in Procs, SoloInv(r), SoloStep(r)
  PROVE  /\ Follows(saga.state, saga'.state)
         /\ StepIndex(saga.step) <= StepIndex(saga'.step)
<1>0. Current(r) /\ saga.step \in Step /\ WellFormed(saga) /\ StepIndex(saga.step) \in 1 .. 6
  BY StepFacts DEF SoloInv, RecordInv, RowsWellFormed, SnapshotInv, TypeOK, StoreTypeOK,
                   SagaRow
<1>1. CASE Unsaved(r)
  BY <1>0, <1>1, UnsavedKeeps DEF Follows
<1>2. CASE SuccessSaved(r)
  <2>1. ~Terminal(saga.state) /\ saga.state \in StatesAt(saga.step)
    BY <1>0, <1>2 DEF SuccessSaved, Current, Between, WellFormed
  <2>2. /\ saga'.state = IF saga.step = "LEDGER" THEN "COMPLETED" ELSE StateForStep(saga.step)
        /\ saga'.step = StepAfter(saga.step)
    BY <1>2 DEF SuccessSaved, AfterSuccess, Derived
  <2>3. Rank(saga.state) < Rank(saga'.state)
    BY <1>0, <2>1, <2>2 DEF StatesAt, Step, StateForStep, Rank
  <2> QED BY <1>0, <2>1, <2>2, <2>3, StepFacts DEF Follows
<1>3. CASE ConfirmationSaved(r)
  <2>1. saga.state = "BROADCASTED" /\ saga'.state = "CONFIRMED" /\ saga'.step = "LEDGER"
    BY <1>3 DEF ConfirmationSaved, Derived
  <2>2. StepIndex("LEDGER") = 6
    BY DEF StepIndex
  <2> QED BY <1>0, <2>1, <2>2 DEF Follows, Rank, Terminal, IsFailure
<1>4. CASE FailureSaved(r)
  <2>1. /\ ~Terminal(saga.state) /\ saga'.state \in {"FAILED_COMPENSATED", "FAILED"}
        /\ saga'.step = saga.step
    BY <1>4 DEF FailureSaved, Derived
  <2>2. Rank(saga.state) < 8 /\ Rank(saga'.state) = 8
    BY <1>0, <2>1 DEF Rank, WellFormed, StatesAt, Step
  <2> QED BY <1>0, <2>1, <2>2 DEF Follows
<1> QED BY <1>1, <1>2, <1>3, <1>4 DEF SoloStep, Unsaved

\* The saga moves on under a request that is half answered.
LEMMA ReadingNext ==
  ASSUME NEW r \in Procs, SoloInv(r), SoloInv(r)', SoloStep(r), Reading, UNCHANGED response
  PROVE  Reading'
<1>1. /\ saga.state \in State /\ saga'.state \in State
      /\ saga.step \in Step /\ saga'.step \in Step
  BY DEF SoloInv, RecordInv, SnapshotInv, TypeOK, StoreTypeOK, SagaRow
<1>2. /\ StepIndex(saga.step) \in Nat /\ StepIndex(saga'.step) \in Nat
      /\ StepIndex(response.step) \in Nat
  BY <1>1, StepFacts DEF Reading
<1>3. \A a \in State : Follows(a, saga.state) => Follows(a, saga'.state)
  BY <1>1, SagaFollows, FollowsTransitive
<1>4. StepIndex(response.step) <= StepIndex(saga.step) =>
        StepIndex(response.step) <= StepIndex(saga'.step)
  BY <1>2, SagaFollows
<1> QED BY <1>3, <1>4 DEF Reading, Follows

\* handleGet makes its next read, or starts over.
LEMMA ReadingGet ==
  ASSUME NEW r, SoloInv(r), Reading, handleGet
  PROVE  Reading'
<1> DEFINE Rows == [Step \X Attempt -> StepStatus \cup {"ABSENT"}]
           Response == [reads: 0 .. 2, status: State, state: State, step: Step, rows: Rows]
<1>a. response \in Response
  BY DEF Reading
<1>b. ASSUME response' \in Response
      PROVE  response' \in [reads: 0 .. 2, status: State, state: State, step: Step,
                            rows: [Step \X Attempt -> StepStatus \cup {"ABSENT"}]]
  BY <1>b
<1> HIDE DEF Rows
<1>0. /\ saga.state \in State /\ saga.step \in Step /\ tx.status = saga.state
      /\ UNCHANGED <<saga, tx, rows>> /\ StepIndex(saga.step) \in Nat
  <2>1. saga.state \in State /\ saga.step \in Step /\ tx.status = saga.state
    BY DEF SoloInv, Current, RecordInv, SnapshotInv, TypeOK, StoreTypeOK, SagaRow
  <2>2. UNCHANGED <<saga, tx, rows>>
    BY DEF handleGet, vars, store
  <2>3. StepIndex(saga.step) \in 1 .. 6
    BY <2>1, StepFacts
  <2> QED BY <2>1, <2>2, <2>3
<1>1. CASE response.reads = 0
  <2>1. response' = [response EXCEPT !.reads = 1, !.status = saga.state]
    BY <1>0, <1>1 DEF handleGet, Read, ReadOrder, Reading
  <2>2. response' = [reads |-> 1, status |-> saga.state, state |-> response.state,
                     step |-> response.step, rows |-> response.rows]
    BY <1>a, <2>1
  <2>3. response' \in Response
    BY <1>a, <1>0, <2>2
  <2> QED BY <1>0, <1>b, <2>2, <2>3 DEF Reading, Follows
<1>2. CASE response.reads = 1
  <2>1. response' = [response EXCEPT !.reads = 2, !.state = saga.state, !.step = saga.step]
    BY <1>2 DEF handleGet, Read, ReadOrder, Reading
  <2>2. response' = [reads |-> 2, status |-> response.status, state |-> saga.state,
                     step |-> saga.step, rows |-> response.rows]
    BY <1>a, <2>1
  <2>3. response' \in Response
    BY <1>a, <1>0, <2>2
  <2>4. Follows(response.status, saga.state) /\ Follows(saga.state, saga.state)
    BY <1>2 DEF Reading, Follows
  <2> QED BY <1>0, <1>b, <2>2, <2>3, <2>4 DEF Reading, Follows
<1>3. CASE response.reads = 2
  <2>1. response' = NoResponse
    BY <1>3 DEF handleGet
  <2> QED BY <2>1 DEF Reading, NoResponse, State, Step
<1> QED BY <1>1, <1>2, <1>3 DEF Reading

LEMMA GetInit ==
  ASSUME NEW r \in Procs, Solo(r), ClientsInit
  PROVE  GetInv(r)
<1>1. SoloInv(r)
  BY SoloInit DEF ClientsInit
<1>2. \A s \in Step : ~Passed(s)
  <2>1. saga.payload = {} /\ StepIndex(saga.step) = 1
    BY DEF ClientsInit, Init, CreateTx, InitialSaga, StepIndex
  <2>2. ASSUME NEW s \in Step PROVE ~(StepIndex(s) < 1)
    <3>1. StepIndex(s) \in 1 .. 6
      BY StepFacts
    <3> QED BY <3>1
  <2> QED BY <2>1, <2>2 DEF Passed
<1>3. History(r)
  BY <1>2 DEF ClientsInit, Init, History, Solo
<1>4. Reading
  BY DEF ClientsInit, Reading, NoResponse, State, Step
<1> QED BY <1>1, <1>3, <1>4 DEF GetInv

\* The replica works on, or nothing happens.
LEMMA GetKept ==
  ASSUME NEW r \in Procs, Solo(r), SoloInv(r), History(r), [Next]_vars
  PROVE  /\ SoloInv(r)' /\ History(r)'
         /\ Reading /\ UNCHANGED response => Reading'
<1>1. SoloInv(r)' /\ SoloStep(r)
  BY SoloNext
<1>2. RecordInv /\ TypeOK /\ TypeOK' /\ Current(r) /\ Current(r)'
  BY <1>1 DEF SoloInv, RecordInv, SnapshotInv
<1>3. RecordStep /\ RowStep(r) /\ QueueStep(r)
  BY <1>2, RecordNext, RowNext, QueueNext
<1> QED BY <1>1, <1>2, <1>3, HistoryNext, ReadingNext

LEMMA GetNext ==
  ASSUME NEW r \in Procs, Solo(r), GetInv(r), [ClientsNext]_cvars
  PROVE  GetInv(r)'
<1>1. CASE poller.pc = "nil"
  <2>1. ~PollerRun
    BY <1>1 DEF PollerRun, PollerStart, PollerLoad, PollerStatus, PollerLoadTx, PollerSave
  <2>2. UNCHANGED poller
    BY <2>1 DEF ClientsNext, clients, cvars, handleGet
  <2> QED BY <1>1, <2>2 DEF GetInv
<1>2. CASE poller.pc # "nil" /\ [Next]_vars /\ UNCHANGED response
  BY <1>2, GetKept DEF GetInv
<1>3. CASE poller.pc # "nil" /\ handleGet
  <2>1. UNCHANGED vars
    BY <1>3 DEF handleGet
  <2> QED BY <1>3, <2>1, GetKept, ReadingGet DEF GetInv
<1>4. CASE PollerSave
  <2>1. CASE PollerReturns("nil")
    BY <2>1 DEF PollerReturns, PollerIdle, GetInv
  <2>2. CASE UNCHANGED <<saga, tx, outbox>>
    BY <1>2, <1>1, <1>4, <2>2 DEF PollerSave, vars, store
  <2> QED BY <1>4, <2>1, <2>2 DEF PollerSave
<1>5. CASE PollerStart \/ PollerLoad \/ PollerStatus \/ PollerLoadTx
  BY <1>1, <1>2, <1>5 DEF PollerStart, PollerLoad, PollerStatus, PollerLoadTx, PollerOnly
<1>6. CASE (Next /\ UNCHANGED clients) \/ UNCHANGED cvars
  BY <1>1, <1>2, <1>6 DEF clients, cvars
<1> QED BY <1>1, <1>3, <1>4, <1>5, <1>6 DEF ClientsNext, PollerRun

\* A completed saga has every step on record.
LEMMA CompletedPassed ==
  ASSUME RecordInv, saga.state = "COMPLETED"
  PROVE  \A s \in Step : Passed(s)
<1>1. saga.step = "LEDGER" /\ saga.payload = RecordedBefore(7)
  BY DEF RecordInv, RowsWellFormed, WellFormed
<1>2. "LEDGER" \in Step /\ StepIndex("LEDGER") = 6 /\ "ledger_journal_id" \in PayloadMerge("LEDGER")
  BY DEF Step, StepIndex, PayloadMerge
<1>3. "ledger_journal_id" \in saga.payload
  BY <1>1, <1>2, RecordedMember
<1>4. \A s \in Step : s = "LEDGER" \/ StepIndex(s) < 6
  BY DEF Step, StepIndex
<1> QED BY <1>1, <1>2, <1>3, <1>4 DEF Passed

\* However the replica's steps, failures, crashes and cascades fall between
\* the three reads of GET /v1/transactions/{id}, the answer fits together:
\* no state before the status, no step behind current_step without its row,
\* no completed transaction whose history shows less.
THEOREM ResponsesFitTogether ==
  ASSUME NEW r, Solo(r)
  PROVE  ClientsSpec => ResponseCoherent
<1>0. r \in Procs
  BY DEF Solo, Procs
<1>1. ClientsInit => GetInv(r)
  BY <1>0, GetInit
<1>2. GetInv(r) /\ [ClientsNext]_cvars => GetInv(r)'
  BY <1>0, GetNext
<1>3. ASSUME GetInv(r), response.reads = 2, poller.pc # "nil"
      PROVE  Coherent(Read)
  <2>0. RecordInv /\ History(r) /\ Reading /\ saga.step \in Step
    BY <1>3 DEF GetInv, SoloInv, RecordInv, SnapshotInv, TypeOK, StoreTypeOK, SagaRow
  <2>1. /\ Read.status = response.status /\ Read.state = response.state
        /\ Read.step = response.step /\ Read.rows = rows
    <3>1. Read = [response EXCEPT !.reads = 3, !.rows = rows]
      BY <1>3, <2>0 DEF Read, ReadOrder, Reading
    <3> QED BY <2>0, <3>1 DEF Reading
  <2>2. Follows(response.status, response.state) /\ Follows(response.state, saga.state)
    BY <1>3, <2>0 DEF Reading
  <2>3. ASSUME NEW s \in Step, StepIndex(s) < StepIndex(response.step)
        PROVE  Listed(s, {"SUCCEEDED"} \cup Marks)
    <3>1. StepIndex(s) \in Nat /\ StepIndex(response.step) \in Nat /\ StepIndex(saga.step) \in Nat
      BY <2>0, StepFacts DEF Reading
    <3>2. Passed(s)
      BY <1>3, <2>0, <2>3, <3>1 DEF Reading, Passed
    <3> QED BY <2>0, <3>2 DEF History
  <2>4. ASSUME response.state = "COMPLETED", NEW s \in Step
        PROVE  Listed(s, {"SUCCEEDED"} \cup IF crashes = 0 THEN {} ELSE Marks)
    <3>1. saga.state = "COMPLETED"
      BY <2>2, <2>4 DEF Follows, Terminal
    <3>2. \A t \in Step : Passed(t)
      BY <2>0, <3>1, CompletedPassed
    <3>3. Listed(s, {"SUCCEEDED"} \cup Marks) /\ (crashes = 0 => Listed(s, {"SUCCEEDED"}))
      BY <2>0, <3>1, <3>2 DEF History
    <3> QED BY <3>3 DEF Listed
  <2> QED BY <2>1, <2>2, <2>3, <2>4 DEF Coherent, Follows, Listed, Marks
<1>4. GetInv(r) =>
        (response.reads = 2 /\ response' # response /\ poller.pc # "nil" => Coherent(Read))
  BY <1>3
<1> QED BY <1>1, <1>2, <1>4, PTL DEF ClientsSpec, ResponseCoherent
=============================================================================
