------------------------ MODULE SagaExecutor_proofs ------------------------
(***************************************************************************)
(* Theorems about the saga executor, for any set of replicas and of        *)
(* operators, any number of retries, crashes and failures, with or without *)
(* the lease.                                                              *)
(***************************************************************************)
EXTENDS SagaProperties, TLAPS

-----------------------------------------------------------------------------
(* The state machine.                                                      *)

\* The tables of statemachine.go are total: every step has a position, a state
\* it leads to and a successor that does not come before it.
LEMMA StepFacts ==
  ASSUME NEW s \in Step
  PROVE  /\ StepIndex(s) \in 1 .. 6
         /\ StepOrder(StepIndex(s)) = s
         /\ StepAfter(s) \in Step
         /\ StepIndex(s) <= StepIndex(StepAfter(s))
         /\ StateForStep(s) \in State
         /\ PayloadMerge(s) \subseteq PayloadKey
  BY DEF Step, StepIndex, StepOrder, StepAfter, StateForStep, State,
         PayloadMerge, PayloadKey

\* A terminal result puts the saga into a failure state.
LEMMA TerminalFacts ==
  ASSUME NEW s \in Step
  PROVE  /\ TerminalState(s) \in {"FAILED_COMPENSATED", "FAILED"}
         /\ TerminalMerge(s) \subseteq PayloadKey
  BY DEF TerminalState, TerminalMerge, PayloadKey

\* Every position of StepOrder holds a step.
LEMMA StepOrderInStep == \A i \in 1 .. 6 : StepOrder(i) \in Step
  BY DEF StepOrder, Step

\* handleCreate inserts a well-formed saga row.
LEMMA InitialSagaType == InitialSaga \in SagaRow
  BY DEF InitialSaga, SagaRow, State, Step

\* The saga rows that the SQL transactions derive from a snapshot.
LEMMA DerivedType ==
  ASSUME NEW sg \in SagaRow, NEW st \in State, NEW s \in Step,
         NEW keys \in SUBSET PayloadKey
  PROVE  Derived(sg, st, s, keys) \in SagaRow
  BY DEF Derived, SagaRow

\* The row runStepOnce saves after a success is well formed.
LEMMA AfterSuccessType ==
  ASSUME NEW sg \in SagaRow, NEW s \in Step
  PROVE  AfterSuccess(sg, s) \in SagaRow
<1>1. (IF s = "LEDGER" THEN "COMPLETED" ELSE StateForStep(s)) \in State
  BY StepFacts DEF State
<1>2. QED
  BY <1>1, StepFacts, DerivedType DEF AfterSuccess

-----------------------------------------------------------------------------
(* Type correctness.                                                       *)

\* Partner effects are counted up to the cap.
LEMMA EffectsType ==
  ASSUME TypeOK, NEW e \in Effect, Happens(e)
  PROVE  effects' \in [Effect -> 0 .. EffectCap]
  BY ConstantsAssumption DEF TypeOK, Happens

\* Failures stay within their bound.
LEMMA FaultsType ==
  ASSUME TypeOK, NEW k, Works \/ Fails(k)
  PROVE  faults' \in 0 .. MaxFaults
  BY ConstantsAssumption DEF TypeOK, Works, Fails

\* A jump to a label keeps pc well typed.
LEMMA GoType ==
  ASSUME TypeOK, NEW p \in Procs, NEW l \in Label, Go(p, l)
  PROVE  pc' \in [Procs -> Label]
  BY DEF TypeOK, Go

\* The local variables of a process stay well-typed when it returns.
LEMMA FinishType ==
  ASSUME TypeOK, NEW p \in Procs, Finish(p)
  PROVE  /\ pc' \in [Procs -> Label]
         /\ snapTx' \in [Procs -> Nat \ {0}]
         /\ snap' \in [Procs -> SagaRow]
         /\ att' \in [Procs -> Attempt]
         /\ idx' \in [Procs -> 1 .. 6]
  BY InitialSagaType, MaxRetriesAssumption
     DEF TypeOK, Finish, Go, Label, Attempt

\* runStepWithRetry never counts beyond MAX_RETRIES.
LEMMA NextAttemptType ==
  ASSUME TypeOK, NEW p \in Procs, NextAttempt(p)
  PROVE  pc' \in [Procs -> Label] /\ att' \in [Procs -> Attempt]
  BY MaxRetriesAssumption
     DEF TypeOK, NextAttempt, Go, Label, StepLabel, Attempt

\* UpdateStep keeps the step rows well typed.
LEMMA RowsType ==
  ASSUME TypeOK, NEW s \in Step, NEW a \in Attempt, NEW st \in StepStatus,
         rows' = UpdateStep(s, a, st)
  PROVE  rows' \in [Step \X Attempt -> StepStatus \cup {"ABSENT"}]
  BY DEF TypeOK, StoreTypeOK, UpdateStep

\* The events the executor writes are well formed.
LEMMA EventType ==
  /\ \A s \in Step, a \in Attempt : StepEvent(s, a) \in Event
  /\ \A s \in Step, a \in Attempt :
       TerminalEvent(TerminalState(s), s, a) \in Event
  /\ \A t \in {"transaction.created", "transaction.confirmed",
               "FAILED_COMPENSATED", "FAILED"} : SagaEvent(t) \in Event
<1>1. ASSUME NEW s \in Step, NEW a \in Attempt
      PROVE  StepEvent(s, a) \in Event
  <2>1. a \in 0 .. MaxRetries
    BY MaxRetriesAssumption DEF Attempt
  <2>2. QED
    BY <2>1 DEF StepEvent, Event
<1>2. ASSUME NEW s \in Step, NEW a \in Attempt
      PROVE  TerminalEvent(TerminalState(s), s, a) \in Event
  <2>1. a \in 0 .. MaxRetries
    BY MaxRetriesAssumption DEF Attempt
  <2>2. TerminalState(s) \in {"FAILED_COMPENSATED", "FAILED"}
    BY TerminalFacts
  <2>3. QED
    BY <2>1, <2>2 DEF TerminalEvent, Event
<1>3. ASSUME NEW t \in {"transaction.created", "transaction.confirmed",
                        "FAILED_COMPENSATED", "FAILED"}
      PROVE  SagaEvent(t) \in Event
  BY MaxRetriesAssumption DEF SagaEvent, Event
<1>4. QED
  BY <1>1, <1>2, <1>3

\* Both ways of writing the saga row keep the store well-typed.
LEMMA WriteType ==
  ASSUME TypeOK, NEW new \in SagaRow, NEW v, NEW evt \in Event,
         StrictWrite(new, evt) \/ LaxWrite(new, v, evt)
  PROVE  /\ tx' \in [status: State, version: Nat \ {0}]
         /\ saga' \in SagaRow
         /\ outbox' \in SUBSET Event
  BY DEF TypeOK, StoreTypeOK, StrictWrite, LaxWrite, Status, SagaRow

\* The rows CreateTx writes and the idle processes are well typed.
LEMMA TypeInit == Init => TypeOK
<1> SUFFICES ASSUME Init PROVE TypeOK
  OBVIOUS
<1>1. StoreTypeOK
  <2>1. rows \in [Step \X Attempt -> StepStatus \cup {"ABSENT"}]
    BY DEF Init, CreateTx, StepStatus
  <2>2. saga \in SagaRow /\ outbox \in SUBSET Event
    BY InitialSagaType, EventType DEF Init, CreateTx
  <2>3. QED
    BY <2>1, <2>2 DEF Init, CreateTx, StoreTypeOK, State
<1>2. QED
  BY <1>1, InitialSagaType, MaxRetriesAssumption, ConstantsAssumption
     DEF Init, TypeOK, Label, Attempt

\* compensateCascade preserves the types, run by a worker or by an operator.
LEMMA TypeCascade ==
  ASSUME TypeOK, NEW p \in Procs, compensateCascade(p)
  PROVE  TypeOK'
<1> USE DEF cluster, locals
<1>0. /\ snap[p] \in SagaRow /\ snapTx[p] \in Nat /\ saga \in SagaRow
      /\ StepOrder(idx[p]) \in Step /\ 1 \in Attempt
      /\ idx[p] \in 1 .. 6 /\ tx.version \in Nat \ {0}
      /\ CascadeLabel \subseteq Label /\ "idle" \in Label
  BY StepOrderInStep, MaxRetriesAssumption
     DEF TypeOK, StoreTypeOK, Attempt, Label
<1>1. CASE CascadeLoadSaga(p)
  BY <1>1, <1>0 DEF CascadeLoadSaga, ReadSaga, Go, store, TypeOK, StoreTypeOK, CascadeLabel
<1>2. CASE CascadeLoadTx(p)
  BY <1>2, <1>0 DEF CascadeLoadTx, ReadTx, Go, store, TypeOK, StoreTypeOK, CascadeLabel
<1>3. CASE CascadeFails(p)
  BY <1>3, FinishType, FaultsType DEF CascadeFails, store, TypeOK, StoreTypeOK
<1>4. ASSUME NEW st \in StepStatus, MarkRow(p, st)
      PROVE  /\ rows' \in [Step \X Attempt -> StepStatus \cup {"ABSENT"}]
             /\ faults' \in 0 .. MaxFaults
  <2>1. CASE Works /\ rows' = UpdateStep(StepOrder(idx[p]), 1, st)
    BY <2>1, <1>0, RowsType, FaultsType
  <2>2. CASE Fails("store") /\ UNCHANGED rows
    BY <2>2, FaultsType DEF TypeOK, StoreTypeOK
  <2>3. QED
    BY <1>4, <2>1, <2>2 DEF MarkRow
<1>5. CASE CascadeMark(p)
  BY <1>5, <1>4, <1>0, GoType DEF CascadeMark, TypeOK, StoreTypeOK, StepStatus, CascadeLabel
<1>6. CASE CascadeCall(p)
  <2>1. /\ faults' \in 0 .. MaxFaults
        /\ effects' \in [Effect -> 0 .. EffectCap]
        /\ pc' \in [Procs -> Label]
    <3> DEFINE s == StepOrder(idx[p])
    <3>1. CASE s = "PAYMENT"
      <4>1. PaymentCompensate(p)
        BY <1>6, <3>1 DEF CascadeCall
      <4>2. Works \/ Fails("reply")
        BY <4>1 DEF PaymentCompensate
      <4>3. UNCHANGED effects \/ Happens("refund")
        BY <4>1 DEF PaymentCompensate
      <4>4. Go(p, "cOk") \/ Go(p, "cErr")
        BY <4>1 DEF PaymentCompensate
      <4>5. QED
        BY <4>2, <4>3, <4>4, <1>0, FaultsType, EffectsType, GoType
           DEF TypeOK, Effect, CascadeLabel
    <3>2. CASE s = "BROADCAST"
      <4>1. BroadcastCompensate(p)
        BY <1>6, <3>2 DEF CascadeCall
      <4>2. QED
        BY <4>1, <1>0, FaultsType, EffectsType, GoType
           DEF BroadcastCompensate, TypeOK, Effect, CascadeLabel
    <3>3. CASE s \notin {"PAYMENT", "BROADCAST"}
      BY <1>6, <3>3, <1>0, FaultsType, GoType DEF CascadeCall, TypeOK, CascadeLabel
    <3>4. QED
      BY <3>1, <3>2, <3>3
  <2>2. QED
    BY <1>6, <2>1 DEF CascadeCall, store, TypeOK, StoreTypeOK
<1>7. CASE CascadeDone(p)
  <2>1. CASE At(p, "cOk")
    <3>1. MarkRow(p, "COMPENSATED") /\ idx' \in [Procs -> 1 .. 6] /\ pc' \in [Procs -> Label]
      BY <1>7, <2>1, <1>0 DEF CascadeDone, TypeOK, Go, CascadeLabel, At
    <3>2. QED
      BY <1>7, <3>1, <1>4 DEF CascadeDone, TypeOK, StoreTypeOK, StepStatus
  <2>2. CASE At(p, "cErr")
    <3>1. MarkRow(p, "FAILED") /\ idx' \in [Procs -> 1 .. 6] /\ pc' \in [Procs -> Label]
      BY <1>7, <2>2, <1>0 DEF CascadeDone, TypeOK, Go, CascadeLabel, At
    <3>2. QED
      BY <1>7, <3>1, <1>4 DEF CascadeDone, TypeOK, StoreTypeOK, StepStatus
  <2>3. QED
    BY <1>7, <2>1, <2>2 DEF CascadeDone
<1>8. CASE CascadeFinal(p)
  <2> DEFINE target == IF At(p, "cFinal") THEN "FAILED_COMPENSATED" ELSE "FAILED"
             new    == Derived(snap[p], target, snap[p].step, {})
  <2>1. new \in SagaRow /\ SagaEvent(target) \in Event
    <3>1. target \in State /\ snap[p].step \in Step
      BY <1>0 DEF State, SagaRow
    <3>2. QED
      BY <3>1, <1>0, DerivedType, EventType
  <2>2. CASE Works /\ LaxWrite(new, snapTx[p], SagaEvent(target))
    <3>1. StoreTypeOK'
      BY <1>8, <2>1, <2>2, WriteType DEF CascadeFinal, TypeOK, StoreTypeOK
    <3>2. QED
      BY <1>8, <2>2, <3>1, FinishType, FaultsType DEF CascadeFinal, TypeOK
  <2>3. CASE Fails("store") /\ UNCHANGED <<saga, tx, outbox>>
    BY <1>8, <2>3, FinishType, FaultsType DEF CascadeFinal, TypeOK, StoreTypeOK
  <2>4. QED
    BY <1>8, <2>2, <2>3 DEF CascadeFinal
<1>9. QED
  BY <1>1, <1>2, <1>3, <1>5, <1>6, <1>7, <1>8 DEF compensateCascade

\* Execute of a step: a partner call moves only pc, faults and effects.
LEMMA TypeExecute ==
  ASSUME TypeOK, NEW r \in Procs, Execute(r)
  PROVE  TypeOK'
<1>1. /\ UNCHANGED <<store, locals, lease, cluster>>
      /\ Works \/ Fails("transient") \/ Fails("reply")
      /\ UNCHANGED effects \/ \E e \in Effect : Happens(e)
      /\ \E l \in StepLabel : Go(r, l)
  <2> USE DEF Accepted, Unavailable, Refused, ReplyLost, TerminalResult, OnRecord,
              Effect, StepLabel
  <2>1. CASE PolicyExecute(r)
    BY <2>1 DEF PolicyExecute
  <2>2. CASE PaymentAuthorize(r)
    BY <2>2 DEF PaymentAuthorize
  <2>3. CASE PaymentCapture(r)
    BY <2>3 DEF PaymentCapture
  <2>4. CASE PaymentVoid(r)
    BY <2>4 DEF PaymentVoid
  <2>5. CASE KytExecute(r)
    BY <2>5 DEF KytExecute
  <2>6. CASE MpcSignExecute(r)
    BY <2>6 DEF MpcSignExecute
  <2>7. CASE BroadcastExecute(r)
    BY <2>7 DEF BroadcastExecute
  <2>8. CASE LedgerExecute(r)
    BY <2>8 DEF LedgerExecute
  <2>9. QED
    BY <2>1, <2>2, <2>3, <2>4, <2>5, <2>6, <2>7, <2>8 DEF Execute
<1>2. /\ faults' \in 0 .. MaxFaults
      /\ effects' \in [Effect -> 0 .. EffectCap]
      /\ pc' \in [Procs -> Label]
  <2>1. faults' \in 0 .. MaxFaults
    BY <1>1, FaultsType
  <2>2. effects' \in [Effect -> 0 .. EffectCap]
    BY <1>1, EffectsType DEF TypeOK
  <2>3. pc' \in [Procs -> Label]
    BY <1>1, GoType DEF Label
  <2>4. QED
    BY <2>1, <2>2, <2>3
<1>3. QED
  BY <1>1, <1>2 DEF TypeOK, StoreTypeOK, store, locals, cluster

\* The calls of Run outside the steps and the cascade.
LEMMA TypeLoop ==
  ASSUME TypeOK, NEW r \in Replicas,
         \/ Dequeue(r) \/ LoadTx(r) \/ LoadSagaState(r) \/ RunFails(r)
         \/ Acquire(r) \/ LeaseHeld(r) \/ Release(r) \/ Recheck(r)
         \/ AdvanceLoad(r) \/ Poll(r) \/ ConfirmLoadTx(r) \/ AdvanceFails(r)
         \/ PersistConfirmed(r)
  PROVE  TypeOK'
<1> USE DEF cluster, locals
<1>0. /\ r \in Procs
      /\ snap[r] \in SagaRow /\ snap[r].step \in Step /\ saga \in SagaRow
      /\ tx.version \in Nat \ {0}
      /\ 1 \in Attempt
  BY MaxRetriesAssumption DEF TypeOK, StoreTypeOK, Attempt, Procs, SagaRow
<1> USE <1>0
<1>1. CASE Dequeue(r)
  BY <1>1 DEF Dequeue, Go, store, TypeOK, StoreTypeOK, Label, RunLabel
<1>2. CASE LoadTx(r)
  BY <1>2 DEF LoadTx, ReadTx, Go, store, TypeOK, StoreTypeOK, Label, RunLabel
<1>3. CASE LoadSagaState(r)
  <2>1. CASE Terminal(saga.state)
    BY <1>3, <2>1, FinishType DEF LoadSagaState, store, TypeOK, StoreTypeOK
  <2>2. CASE ~Terminal(saga.state)
    BY <1>3, <2>2
       DEF LoadSagaState, ReadSaga, Go, store, TypeOK, StoreTypeOK, Label, RunLabel
  <2>3. QED
    BY <2>1, <2>2
<1>4. CASE RunFails(r)
  BY <1>4, FinishType, FaultsType DEF RunFails, store, TypeOK, StoreTypeOK
<1>5. CASE Acquire(r)
  BY <1>5 DEF Acquire, Go, store, TypeOK, StoreTypeOK, Label, StepLabel
<1>6. CASE LeaseHeld(r)
  BY <1>6 DEF LeaseHeld, Go, store, TypeOK, StoreTypeOK, Label, RunLabel
<1>7. CASE Release(r)
  <2>1. StepIndex(snap[r].step) \in 1 .. 6
    BY StepFacts
  <2>2. QED
    BY <1>7, <2>1
       DEF Release, Go, store, TypeOK, StoreTypeOK, Label, RunLabel, CascadeLabel
<1>8. CASE Recheck(r)
  <2>1. faults' \in 0 .. MaxFaults
    BY <1>8, FaultsType DEF Recheck
  <2>2. CASE Finish(r)
    BY <1>8, <2>1, <2>2, FinishType DEF Recheck, store, TypeOK, StoreTypeOK
  <2>3. CASE (Go(r, "advance") \/ Go(r, "loadTx")) /\ UNCHANGED locals
    BY <1>8, <2>1, <2>3
       DEF Recheck, Go, store, TypeOK, StoreTypeOK, Label, RunLabel
  <2>4. QED
    BY <1>8, <2>2, <2>3 DEF Recheck
<1>9. CASE AdvanceLoad(r)
  BY <1>9 DEF AdvanceLoad, ReadSaga, Go, store, TypeOK, StoreTypeOK, Label, RunLabel
<1>10. CASE Poll(r)
  BY <1>10 DEF Poll, Go, store, TypeOK, StoreTypeOK, Label, RunLabel
<1>11. CASE ConfirmLoadTx(r)
  BY <1>11 DEF ConfirmLoadTx, ReadTx, Go, store, TypeOK, StoreTypeOK, Label, RunLabel
<1>12. CASE AdvanceFails(r)
  BY <1>12, FaultsType
     DEF AdvanceFails, Go, store, TypeOK, StoreTypeOK, Label, RunLabel
<1>13. CASE PersistConfirmed(r)
  <2> DEFINE new == Derived(snap[r], "CONFIRMED", "LEDGER", {})
             evt == SagaEvent("transaction.confirmed")
  <2>1. new \in SagaRow /\ evt \in Event
    BY DerivedType, EventType DEF State, Step
  <2>2. StrictWrite(new, evt) \/ UNCHANGED <<saga, tx, outbox>>
    BY <1>13 DEF PersistConfirmed
  <2> HIDE DEF new, evt
  <2>3. /\ tx' \in [status: State, version: Nat \ {0}]
        /\ saga' \in SagaRow
        /\ outbox' \in SUBSET Event
    BY <2>1, <2>2, WriteType DEF TypeOK, StoreTypeOK
  <2>4. QED
    BY <1>13, <2>3
       DEF PersistConfirmed, Go, TypeOK, StoreTypeOK, Label, RunLabel
<1>14. QED
  BY <1>1, <1>2, <1>3, <1>4, <1>5, <1>6, <1>7, <1>8, <1>9, <1>10, <1>11, <1>12,
     <1>13

\* runStepOnce around the partner calls.
LEMMA TypeStep ==
  ASSUME TypeOK, NEW r \in Replicas,
         \/ BeginStep(r) \/ StepTxFails(r) \/ PersistSuccess(r)
         \/ PersistTerminal(r) \/ MarkFailed(r)
  PROVE  TypeOK'
<1> USE DEF cluster, locals
<1>0. /\ r \in Procs
      /\ snap[r] \in SagaRow /\ snap[r].step \in Step
      /\ att[r] \in Attempt
  BY DEF TypeOK, Procs, SagaRow
<1> USE <1>0
<1>1. CASE BeginStep(r)
  <2>1. rows' \in [Step \X Attempt -> StepStatus \cup {"ABSENT"}]
    BY <1>1, RowsType DEF BeginStep, StepStatus, TypeOK, StoreTypeOK
  <2>2. /\ pc' \in [Procs -> Label] /\ att' \in [Procs -> Attempt]
        /\ faults' \in 0 .. MaxFaults
    <3>1. Works \/ Fails("ack")
      BY <1>1 DEF BeginStep
    <3>2. \/ (Go(r, "releaseOk") \/ Go(r, "call")) /\ UNCHANGED att
          \/ NextAttempt(r)
      BY <1>1 DEF BeginStep
    <3>3. QED
      BY <3>1, <3>2, FaultsType, NextAttemptType, GoType DEF TypeOK, Label, StepLabel
  <2>3. QED
    BY <1>1, <2>1, <2>2 DEF BeginStep, TypeOK, StoreTypeOK
<1>2. CASE StepTxFails(r)
  BY <1>2, NextAttemptType, FaultsType DEF StepTxFails, store, TypeOK, StoreTypeOK
<1>3. CASE PersistSuccess(r)
  <2> DEFINE s   == snap[r].step
             new == AfterSuccess(snap[r], s)
             evt == StepEvent(s, att[r])
  <2>1. new \in SagaRow /\ evt \in Event
    BY AfterSuccessType, EventType
  <2>2. /\ \/ StrictWrite(new, evt) /\ rows' = UpdateStep(s, att[r], "SUCCEEDED")
           \/ UNCHANGED store
        /\ Works \/ Fails("ack")
        /\ (Go(r, "releaseOk") /\ UNCHANGED att) \/ NextAttempt(r)
        /\ UNCHANGED <<snapTx, snap, idx, lease, cluster, effects>>
    BY <1>3 DEF PersistSuccess
  <2> HIDE DEF new, evt
  <2>3. StoreTypeOK'
    <3>1. CASE StrictWrite(new, evt) /\ rows' = UpdateStep(s, att[r], "SUCCEEDED")
      <4>1. rows' \in [Step \X Attempt -> StepStatus \cup {"ABSENT"}]
        BY <3>1, RowsType DEF StepStatus
      <4>2. QED
        BY <3>1, <4>1, <2>1, WriteType DEF StoreTypeOK
    <3>2. CASE UNCHANGED store
      BY <3>2 DEF store, TypeOK, StoreTypeOK
    <3>3. QED
      BY <2>2, <3>1, <3>2
  <2>4. pc' \in [Procs -> Label] /\ att' \in [Procs -> Attempt]
    BY <2>2, NextAttemptType, GoType DEF TypeOK, Label, StepLabel
  <2>5. QED
    BY <2>2, <2>3, <2>4, FaultsType DEF TypeOK
<1>4. CASE PersistTerminal(r)
  <2> DEFINE s   == snap[r].step
             new == Derived(snap[r], TerminalState(s), s, TerminalMerge(s))
             evt == TerminalEvent(TerminalState(s), s, att[r])
  <2>1. new \in SagaRow /\ evt \in Event
    <3>1. TerminalState(s) \in State /\ TerminalMerge(s) \in SUBSET PayloadKey
      BY TerminalFacts DEF State
    <3>2. QED
      BY <3>1, DerivedType, EventType
  <2>2. /\ \/ /\ LaxWrite(new, snapTx[r], evt)
              /\ UNCHANGED rows \/ rows' = UpdateStep(s, att[r], "FAILED")
           \/ UNCHANGED store
        /\ Works \/ Fails("store")
        /\ Go(r, "releaseOk")
        /\ UNCHANGED <<locals, lease, cluster, effects>>
    BY <1>4 DEF PersistTerminal
  <2> HIDE DEF new, evt
  <2>3. StoreTypeOK'
    <3>1. CASE /\ LaxWrite(new, snapTx[r], evt)
               /\ UNCHANGED rows \/ rows' = UpdateStep(s, att[r], "FAILED")
      <4>1. rows' \in [Step \X Attempt -> StepStatus \cup {"ABSENT"}]
        BY <3>1, RowsType DEF StepStatus, TypeOK, StoreTypeOK
      <4>2. QED
        BY <3>1, <4>1, <2>1, WriteType DEF StoreTypeOK
    <3>2. CASE UNCHANGED store
      BY <3>2 DEF store, TypeOK, StoreTypeOK
    <3>3. QED
      BY <2>2, <3>1, <3>2
  <2>4. QED
    BY <2>2, <2>3, FaultsType, GoType DEF TypeOK, Label, StepLabel
<1>5. CASE MarkFailed(r)
  <2>1. rows' \in [Step \X Attempt -> StepStatus \cup {"ABSENT"}]
    BY <1>5, RowsType DEF MarkFailed, StepStatus, TypeOK, StoreTypeOK
  <2>2. pc' \in [Procs -> Label] /\ att' \in [Procs -> Attempt]
    BY <1>5, NextAttemptType, GoType DEF MarkFailed, TypeOK, Label, StepLabel
  <2>3. QED
    BY <1>5, <2>1, <2>2, FaultsType DEF MarkFailed, TypeOK, StoreTypeOK
<1>6. QED
  BY <1>1, <1>2, <1>3, <1>4, <1>5

\* Every step of the system preserves the types.
LEMMA TypeNext == TypeOK /\ [Next]_vars => TypeOK'
<1> SUFFICES ASSUME TypeOK, [Next]_vars PROVE TypeOK'
  OBVIOUS
<1> USE DEF cluster, locals
<1>1. ASSUME NEW r \in Replicas, Run(r) PROVE TypeOK'
  BY <1>1, TypeLoop, TypeStep, TypeExecute, TypeCascade DEF Run, Procs
<1>2. ASSUME NEW r \in Replicas, Crash(r) PROVE TypeOK'
  <2>1. r \in Procs
    BY DEF Procs
  <2>2. crashes' \in 0 .. MaxCrashes
    BY <1>2, ConstantsAssumption DEF Crash, TypeOK
  <2>3. QED
    BY <1>2, <2>1, <2>2, FinishType DEF Crash, store, TypeOK, StoreTypeOK
<1>3. ASSUME NEW r \in Replicas, Restart(r) PROVE TypeOK'
  <2>1. Inflight \in BOOLEAN
    BY DEF Inflight, Terminal, IsFailure
  <2>2. QED
    BY <1>3, <2>1 DEF Restart, store, TypeOK, StoreTypeOK
<1>4. ASSUME NEW o \in Operators, Operate(o) PROVE TypeOK'
  <2>0. o \in Procs
    BY DEF Procs
  <2>1. CASE Compensate(o)
    <3>1. StepIndex(saga.step) \in 1 .. 6
      BY StepFacts DEF TypeOK, StoreTypeOK, SagaRow
    <3>2. requests' \in 0 .. MaxRequests
      BY <2>1, ConstantsAssumption DEF Compensate, TypeOK
    <3>3. QED
      BY <2>0, <2>1, <3>1, <3>2
         DEF Compensate, Go, store, TypeOK, StoreTypeOK, Label, CascadeLabel
  <2>2. CASE Retry(o)
    BY <2>2 DEF Retry, store, TypeOK, StoreTypeOK
  <2>3. CASE RequestAborted(o)
    BY <2>0, <2>3, FinishType, FaultsType DEF RequestAborted, store, TypeOK, StoreTypeOK
  <2>4. QED
    BY <1>4, <2>0, <2>1, <2>2, <2>3, TypeCascade DEF Operate
<1>5. CASE LeaseExpires
  BY <1>5 DEF LeaseExpires, store, TypeOK, StoreTypeOK
<1>6. CASE UNCHANGED vars
  BY <1>6 DEF vars, store, TypeOK, StoreTypeOK
<1>7. QED
  BY <1>1, <1>2, <1>3, <1>4, <1>5, <1>6 DEF Next

\* Type correctness of the executor: no call, crash or failure takes a
\* version, an attempt, a step or a counter out of its range.
THEOREM TypeCorrect == Spec => []TypeOK
<1>1. Init => TypeOK
  BY TypeInit
<1>2. TypeOK /\ [Next]_vars => TypeOK'
  BY TypeNext
<1>3. QED
  BY <1>1, <1>2, PTL DEF Spec

-----------------------------------------------------------------------------
(* Snapshots and saves.  Only three SQL transactions write the saga row,   *)
(* each derives the new row from a snapshot and saves it only over a row   *)
(* of the snapshot's version; a snapshot changes only by loading the row   *)
(* or by going away.                                                       *)

\* p saves a row derived from its snapshot, which has the row's version.
Saves(p) ==
  \E st \in State, s \in Step, keys \in SUBSET PayloadKey :
    /\ snap[p].version = saga.version
    /\ StepIndex(snap[p].step) <= StepIndex(s)
    /\ saga' = Derived(snap[p], st, s, keys)

\* What a step does to the snapshots.
SnapshotStep ==
  \/ UNCHANGED snap
  \/ \E p \in Procs : snap' = [snap EXCEPT ![p] = saga]
  \/ \E p \in Procs : snap' = [snap EXCEPT ![p] = InitialSaga]

\* A SQL transaction of either kind saves the row it was given or leaves the
\* stored one alone.
LEMMA SaveFrame ==
  ASSUME NEW p \in Procs, TypeOK, NEW st \in State, NEW s \in Step,
         NEW keys \in SUBSET PayloadKey, NEW new, new = Derived(snap[p], st, s, keys),
         StepIndex(snap[p].step) <= StepIndex(s),
         saga' = new, saga.version = new.version - 1
  PROVE  Saves(p)
<1>1. snap[p].version \in Nat /\ saga.version \in Nat
  BY DEF TypeOK, StoreTypeOK, SagaRow
<1>2. new.version = snap[p].version + 1
  BY DEF Derived
<1>3. snap[p].version = saga.version
  BY <1>1, <1>2
<1>4. QED
  BY <1>3 DEF Saves

\* compensateCascade saves only a row derived from its snapshot, and loads
\* only the stored row.
LEMMA CascadeFrame ==
  ASSUME TypeOK, NEW p \in Procs, compensateCascade(p)
  PROVE  (UNCHANGED saga \/ Saves(p)) /\ SnapshotStep
<1> USE DEF locals, store, SnapshotStep
<1>1. CASE CascadeLoadSaga(p)
  BY <1>1 DEF CascadeLoadSaga, ReadSaga
<1>2. CASE CascadeLoadTx(p)
  BY <1>2 DEF CascadeLoadTx
<1>3. CASE CascadeFails(p)
  BY <1>3 DEF CascadeFails, Finish
<1>4. CASE CascadeMark(p)
  BY <1>4 DEF CascadeMark
<1>5. CASE CascadeCall(p)
  BY <1>5 DEF CascadeCall
<1>6. CASE CascadeDone(p)
  BY <1>6 DEF CascadeDone
<1>7. CASE CascadeFinal(p)
  <2> DEFINE target == IF At(p, "cFinal") THEN "FAILED_COMPENSATED" ELSE "FAILED"
             new    == Derived(snap[p], target, snap[p].step, {})
  <2>1. UNCHANGED saga \/ (saga' = new /\ saga.version = new.version - 1)
    BY <1>7 DEF CascadeFinal, LaxWrite, SaveMatches
  <2>2. /\ target \in State
        /\ snap[p].step \in Step
        /\ StepIndex(snap[p].step) \in 1 .. 6
    BY StepFacts DEF State, TypeOK, SagaRow
  <2> HIDE DEF target
  <2>3. UNCHANGED saga \/ Saves(p)
    BY <2>1, <2>2, SaveFrame
  <2>4. QED
    BY <1>7, <2>3 DEF CascadeFinal, Finish
<1>8. QED
  BY <1>1, <1>2, <1>3, <1>4, <1>5, <1>6, <1>7 DEF compensateCascade

\* So do the loop of Run and the steps.
LEMMA RunFrame ==
  ASSUME TypeOK, NEW r \in Replicas, Run(r)
  PROVE  (UNCHANGED saga \/ Saves(r)) /\ SnapshotStep
<1> USE DEF locals, store
<1>0. /\ r \in Procs
      /\ snap[r] \in SagaRow /\ snap[r].step \in Step
      /\ StepIndex(snap[r].step) \in 1 .. 6
  BY StepFacts DEF TypeOK, SagaRow, Procs
<1>1. CASE \/ Dequeue(r) \/ LoadTx(r) \/ LoadSagaState(r) \/ RunFails(r)
           \/ Acquire(r) \/ LeaseHeld(r) \/ Release(r) \/ Recheck(r)
           \/ AdvanceLoad(r) \/ Poll(r) \/ ConfirmLoadTx(r) \/ AdvanceFails(r)
  BY <1>1, <1>0
     DEF Dequeue, LoadTx, LoadSagaState, RunFails, Acquire, LeaseHeld, Release,
         Recheck, AdvanceLoad, Poll, ConfirmLoadTx, AdvanceFails, ReadSaga, Finish,
         SnapshotStep
<1>2. CASE PersistConfirmed(r)
  <2> DEFINE new == Derived(snap[r], "CONFIRMED", "LEDGER", {})
  <2>1. /\ UNCHANGED saga \/ (saga' = new /\ saga.version = new.version - 1)
        /\ UNCHANGED snap
    BY <1>2 DEF PersistConfirmed, StrictCommits, SaveMatches, StrictWrite
  <2>2. "CONFIRMED" \in State /\ "LEDGER" \in Step /\ StepIndex("LEDGER") = 6
    BY DEF State, Step, StepIndex
  <2>3. UNCHANGED saga \/ Saves(r)
    BY <1>0, <2>1, <2>2, SaveFrame
  <2>4. QED
    BY <2>1, <2>3 DEF SnapshotStep
<1>3. CASE PersistSuccess(r)
  <2> DEFINE s   == snap[r].step
             st  == IF s = "LEDGER" THEN "COMPLETED" ELSE StateForStep(s)
             new == Derived(snap[r], st, StepAfter(s), PayloadMerge(s))
  <2>1. /\ UNCHANGED saga \/ (saga' = new /\ saga.version = new.version - 1)
        /\ UNCHANGED snap
    BY <1>3 DEF PersistSuccess, AfterSuccess, StrictCommits, SaveMatches, StrictWrite
  <2>2. st \in State
    BY <1>0, StepFacts DEF State
  <2> HIDE DEF st
  <2>3. UNCHANGED saga \/ Saves(r)
    BY <1>0, <2>1, <2>2, StepFacts, SaveFrame
  <2>4. QED
    BY <2>1, <2>3 DEF SnapshotStep
<1>4. CASE PersistTerminal(r)
  <2> DEFINE s   == snap[r].step
             new == Derived(snap[r], TerminalState(s), s, TerminalMerge(s))
  <2>1. /\ UNCHANGED saga \/ (saga' = new /\ saga.version = new.version - 1)
        /\ UNCHANGED snap
    BY <1>4 DEF PersistTerminal, LaxWrite, SaveMatches
  <2>2. TerminalState(s) \in State /\ TerminalMerge(s) \in SUBSET PayloadKey
    BY <1>0, TerminalFacts DEF State
  <2>3. UNCHANGED saga \/ Saves(r)
    BY <1>0, <2>1, <2>2, SaveFrame
  <2>4. QED
    BY <2>1, <2>3 DEF SnapshotStep
<1>5. CASE BeginStep(r) \/ StepTxFails(r) \/ MarkFailed(r)
  BY <1>5 DEF BeginStep, StepTxFails, MarkFailed, SnapshotStep
<1>6. CASE Execute(r)
  BY <1>6 DEF Execute, PolicyExecute, PaymentAuthorize, PaymentCapture, PaymentVoid,
              KytExecute, MpcSignExecute, BroadcastExecute, LedgerExecute, SnapshotStep
<1>7. CASE compensateCascade(r)
  BY <1>0, <1>7, CascadeFrame
<1>8. QED
  BY <1>1, <1>2, <1>3, <1>4, <1>5, <1>6, <1>7 DEF Run

\* Whatever happens, the saga row changes only by a save of a row derived from
\* the snapshot of the process that acts.
LEMMA NextFrame ==
  ASSUME TypeOK, [Next]_vars
  PROVE  (UNCHANGED saga \/ \E p \in Procs : Saves(p)) /\ SnapshotStep
<1> USE DEF locals, store
<1>1. ASSUME NEW r \in Replicas, Run(r) \/ Crash(r) \/ Restart(r)
      PROVE  (UNCHANGED saga \/ \E p \in Procs : Saves(p)) /\ SnapshotStep
  BY <1>1, RunFrame DEF Crash, Restart, Finish, SnapshotStep, Procs
<1>2. ASSUME NEW o \in Operators, Operate(o)
      PROVE  (UNCHANGED saga \/ \E p \in Procs : Saves(p)) /\ SnapshotStep
  <2>1. o \in Procs
    BY DEF Procs
  <2>2. QED
    BY <1>2, <2>1, CascadeFrame
       DEF Operate, Compensate, Retry, RequestAborted, Finish, SnapshotStep
<1>3. CASE LeaseExpires \/ UNCHANGED vars
  BY <1>3 DEF LeaseExpires, vars, SnapshotStep
<1>4. QED
  BY <1>1, <1>2, <1>3 DEF Next

\* SnapshotCoherent is inductive together with: the first version of the
\* row is the one handleCreate inserted, which idle processes stand for.
FirstVersion == saga.version = 1 => saga = InitialSaga

SnapshotInv == TypeOK /\ SnapshotCoherent /\ FirstVersion

\* Under the invariant a save is made from the current row.
LEMMA SaveFromCurrent ==
  ASSUME SnapshotInv, NEW p \in Procs, Saves(p)
  PROVE  /\ saga'.version = saga.version + 1
         /\ saga.payload \subseteq saga'.payload
         /\ StepIndex(saga.step) <= StepIndex(saga'.step)
<1>1. snap[p] = saga
  BY DEF SnapshotInv, SnapshotCoherent, Saves
<1>2. QED
  BY <1>1 DEF Saves, Derived

\* A step that loads rows, and saves at most a row derived from the stored
\* one, keeps the snapshots coherent with the stored row.
LEMMA SnapshotKept ==
  ASSUME SnapshotInv, TypeOK', SnapshotStep,
         \/ UNCHANGED saga
         \/ /\ saga'.version = saga.version + 1
            /\ saga.payload \subseteq saga'.payload
            /\ StepIndex(saga.step) <= StepIndex(saga'.step)
  PROVE  SnapshotInv'
<1>1. TypeOK /\ TypeOK'
  BY DEF SnapshotInv
<1>2. /\ saga.version \in Nat \ {0} /\ saga'.version \in Nat \ {0}
      /\ StepIndex(saga.step) \in 1 .. 6 /\ StepIndex(saga'.step) \in 1 .. 6
      /\ \A q \in Procs : /\ snap[q].version \in Nat \ {0}
                          /\ StepIndex(snap[q].step) \in 1 .. 6
  BY <1>1, StepFacts DEF TypeOK, StoreTypeOK, SagaRow
<1>3. FirstVersion'
  BY <1>2 DEF SnapshotInv, FirstVersion
<1>4. SnapshotCoherent'
  <2> SUFFICES ASSUME NEW q \in Procs
               PROVE  /\ snap'[q].version <= saga'.version
                      /\ snap'[q].version = saga'.version => snap'[q] = saga'
                      /\ snap'[q].payload \subseteq saga'.payload
                      /\ StepIndex(snap'[q].step) <= StepIndex(saga'.step)
    BY DEF SnapshotCoherent
  <2>1. snap'[q] \in {snap[q], saga, InitialSaga}
    BY <1>1 DEF SnapshotStep, TypeOK
  <2>2. ASSUME NEW w \in {snap[q], saga, InitialSaga}
        PROVE  /\ w.version <= saga.version
               /\ w.version = saga.version => w = saga
               /\ w.payload \subseteq saga.payload
               /\ StepIndex(w.step) <= StepIndex(saga.step)
    <3>1. CASE w = snap[q]
      BY <3>1 DEF SnapshotInv, SnapshotCoherent
    <3>2. CASE w = saga
      BY <3>2, <1>2
    <3>3. CASE w = InitialSaga
      <4>1. w.version = 1 /\ w.payload = {} /\ StepIndex(w.step) = 1
        BY <3>3 DEF InitialSaga, StepIndex
      <4>2. QED
        BY <4>1, <3>3, <1>2 DEF SnapshotInv, FirstVersion
    <3>4. QED
      BY <3>1, <3>2, <3>3
  <2>3. /\ snap'[q].version \in Nat
        /\ StepIndex(snap'[q].step) \in 1 .. 6
    BY <1>1, StepFacts DEF TypeOK, SagaRow
  <2>4. /\ snap'[q].version <= saga.version
        /\ snap'[q].version = saga.version => snap'[q] = saga
        /\ snap'[q].payload \subseteq saga.payload
        /\ StepIndex(snap'[q].step) <= StepIndex(saga.step)
    BY <2>1, <2>2
  <2>5. QED
    BY <2>3, <2>4, <1>2
<1>5. QED
  BY <1>1, <1>3, <1>4 DEF SnapshotInv

\* Every step keeps snapshots coherent with the stored row.
LEMMA SnapshotNext == SnapshotInv /\ [Next]_vars => SnapshotInv'
<1> SUFFICES ASSUME SnapshotInv, [Next]_vars PROVE SnapshotInv'
  OBVIOUS
<1>1. TypeOK /\ TypeOK'
  BY TypeNext DEF SnapshotInv
<1>2. \/ UNCHANGED saga
      \/ /\ saga'.version = saga.version + 1
         /\ saga.payload \subseteq saga'.payload
         /\ StepIndex(saga.step) <= StepIndex(saga'.step)
  BY <1>1, NextFrame, SaveFromCurrent
<1>3. QED
  BY <1>1, <1>2, NextFrame, SnapshotKept

\* The snapshots of idle processes stand for the row CreateTx wrote.
LEMMA SnapshotInit == Init => SnapshotInv
<1> SUFFICES ASSUME Init PROVE SnapshotCoherent /\ FirstVersion
  BY TypeInit DEF SnapshotInv
<1>1. saga = InitialSaga /\ \A p \in Procs : snap[p] = InitialSaga
  BY DEF Init, CreateTx
<1>2. InitialSaga.version = 1 /\ StepIndex(InitialSaga.step) = 1
  BY DEF InitialSaga, StepIndex
<1>3. QED
  BY <1>1, <1>2 DEF SnapshotCoherent, FirstVersion

\* Snapshots are always coherent.
LEMMA SnapshotInvariant == Spec => []SnapshotInv
<1>1. Init => SnapshotInv
  BY SnapshotInit
<1>2. SnapshotInv /\ [Next]_vars => SnapshotInv'
  BY SnapshotNext
<1>3. QED
  BY <1>1, <1>2, PTL DEF Spec

\* The saga row a process keeps across its calls is the current one or an
\* older one with no more steps done, for any number of replicas and
\* operators and any failures, with or without the lease.
THEOREM SnapshotsCoherent == Spec => []SnapshotCoherent
<1>1. SnapshotInv => SnapshotCoherent
  BY DEF SnapshotInv
<1>2. QED
  BY <1>1, SnapshotInvariant, PTL

\* Optimistic concurrency alone, without the lease, suffices for the saga
\* row: no save is lost, drops a recorded key or moves the saga back.
THEOREM UpdatesKept == Spec => NoLostUpdate
<1>1. ASSUME SnapshotInv, [Next]_vars
      PROVE  [saga' # saga =>
                /\ saga'.version = saga.version + 1
                /\ saga.payload \subseteq saga'.payload
                /\ StepIndex(saga.step) <= StepIndex(saga'.step)]_vars
  BY <1>1, NextFrame, SaveFromCurrent DEF SnapshotInv
<1>2. QED
  BY <1>1, SnapshotInvariant, PTL DEF Spec, NoLostUpdate

-----------------------------------------------------------------------------
(* The lease.                                                              *)

\* Whoever is inside a step holds the lease.
HolderInStep == \A r \in Replicas : pc[r] \in StepLabel => lease = r

\* A step that leaves the lease alone and lets nobody into a step.
KeepsOut(p) ==
  /\ UNCHANGED lease
  /\ \/ UNCHANGED pc
     \/ \E l \in Label : /\ pc' = [pc EXCEPT ![p] = l]
                         /\ l \in StepLabel => pc[p] \in StepLabel

\* An action that keeps a process out of the steps of a transaction cannot
\* break the tie between being inside a step and holding the lease.
LEMMA KeepsOutInv ==
  ASSUME TypeOK, HolderInStep, NEW p \in Procs, KeepsOut(p)
  PROVE  HolderInStep'
  BY DEF TypeOK, HolderInStep, KeepsOut, Procs

\* A cascade never enters a step.
LEMMA CascadeKeepsOut ==
  ASSUME NEW p \in Procs, compensateCascade(p)
  PROVE  KeepsOut(p)
<1> USE DEF KeepsOut, Go, Finish, Label, StepLabel, CascadeLabel, At
<1>1. CASE CascadeLoadSaga(p) \/ CascadeLoadTx(p) \/ CascadeFails(p) \/ CascadeMark(p)
  BY <1>1 DEF CascadeLoadSaga, CascadeLoadTx, CascadeFails, CascadeMark
<1>2. CASE CascadeCall(p)
  <2>1. Go(p, "cOk") \/ Go(p, "cErr")
    BY <1>2 DEF CascadeCall, PaymentCompensate, BroadcastCompensate
  <2>2. QED
    BY <1>2, <2>1 DEF CascadeCall
<1>3. CASE CascadeDone(p) \/ CascadeFinal(p)
  BY <1>3 DEF CascadeDone, CascadeFinal
<1>4. QED
  BY <1>1, <1>2, <1>3 DEF compensateCascade

\* Executing a step neither takes nor loses the lease.
LEMMA ExecuteKeepsOut ==
  ASSUME NEW p \in Procs, Execute(p)
  PROVE  KeepsOut(p)
<1>1. /\ UNCHANGED lease
      /\ \E l \in Label : Go(p, l)
      /\ pc[p] \in StepLabel
  <2> USE DEF Calling, Accepted, Unavailable, Refused, ReplyLost, TerminalResult,
              OnRecord, Label, StepLabel, At
  <2>1. CASE PolicyExecute(p)
    BY <2>1 DEF PolicyExecute
  <2>2. CASE PaymentAuthorize(p)
    BY <2>2 DEF PaymentAuthorize
  <2>3. CASE PaymentCapture(p)
    BY <2>3 DEF PaymentCapture
  <2>4. CASE PaymentVoid(p)
    BY <2>4 DEF PaymentVoid
  <2>5. CASE KytExecute(p)
    BY <2>5 DEF KytExecute
  <2>6. CASE MpcSignExecute(p)
    BY <2>6 DEF MpcSignExecute
  <2>7. CASE BroadcastExecute(p)
    BY <2>7 DEF BroadcastExecute
  <2>8. CASE LedgerExecute(p)
    BY <2>8 DEF LedgerExecute
  <2>9. QED
    BY <2>1, <2>2, <2>3, <2>4, <2>5, <2>6, <2>7, <2>8 DEF Execute
<1>2. QED
  BY <1>1 DEF KeepsOut, Go

\* With the lease on, whoever is inside a step holds it after every step.
LEMMA HolderNext ==
  ASSUME LeaseOn, TypeOK, HolderInStep, [Next]_vars
  PROVE  HolderInStep'
<1> USE DEF Go, Finish, Label, RunLabel, StepLabel, CascadeLabel, At
<1>1. ASSUME NEW r \in Replicas, Run(r) PROVE HolderInStep'
  <2>0. r \in Procs
    BY DEF Procs
  <2>1. CASE Acquire(r)
    BY <2>0, <2>1, ConstantsAssumption DEF Acquire, HolderInStep, TypeOK
  <2>2. CASE Release(r)
    <3>1. lease = r
      BY <2>2 DEF Release, HolderInStep
    <3>2. \A q \in Replicas : pc[q] \in StepLabel => q = r
      BY <3>1 DEF HolderInStep
    <3>3. pc' = [pc EXCEPT ![r] = "recheck"] \/ pc' = [pc EXCEPT ![r] = "cLoadSaga"]
      BY <2>2 DEF Release
    <3>4. pc'[r] \notin StepLabel /\ \A q \in Replicas \ {r} : pc'[q] = pc[q]
      BY <2>0, <3>3 DEF TypeOK, Procs
    <3> HIDE DEF StepLabel
    <3>5. QED
      BY <3>2, <3>4 DEF HolderInStep
  <2>3. CASE \/ Dequeue(r) \/ LoadTx(r) \/ LoadSagaState(r) \/ RunFails(r)
             \/ LeaseHeld(r) \/ Recheck(r) \/ AdvanceLoad(r) \/ Poll(r)
             \/ ConfirmLoadTx(r) \/ AdvanceFails(r) \/ PersistConfirmed(r)
    <3>1. KeepsOut(r)
      BY <2>3 DEF Dequeue, LoadTx, LoadSagaState, RunFails, LeaseHeld, Recheck,
                  AdvanceLoad, Poll, ConfirmLoadTx, AdvanceFails, PersistConfirmed,
                  KeepsOut
    <3>2. QED
      BY <2>0, <3>1, KeepsOutInv
  <2>4. CASE \/ BeginStep(r) \/ StepTxFails(r) \/ PersistSuccess(r)
             \/ PersistTerminal(r) \/ MarkFailed(r)
    <3>0. NextAttempt(r) => \E l \in Label : pc' = [pc EXCEPT ![r] = l]
      BY DEF NextAttempt
    <3>1. KeepsOut(r)
      <4>1. CASE BeginStep(r) \/ StepTxFails(r) \/ MarkFailed(r)
        BY <4>1, <3>0 DEF BeginStep, StepTxFails, MarkFailed, KeepsOut
      <4>2. CASE PersistSuccess(r)
        BY <4>2, <3>0 DEF PersistSuccess, KeepsOut
      <4>3. CASE PersistTerminal(r)
        BY <4>3 DEF PersistTerminal, KeepsOut
      <4>4. QED
        BY <2>4, <4>1, <4>2, <4>3
    <3>2. QED
      BY <2>0, <3>1, KeepsOutInv
  <2>5. CASE Execute(r) \/ compensateCascade(r)
    BY <2>0, <2>5, ExecuteKeepsOut, CascadeKeepsOut, KeepsOutInv
  <2>6. QED
    BY <1>1, <2>1, <2>2, <2>3, <2>4, <2>5 DEF Run
<1>2. ASSUME NEW r \in Replicas, Crash(r) PROVE HolderInStep'
  <2>1. r \in Procs
    BY DEF Procs
  <2>2. QED
    BY <1>2, <2>1 DEF Crash, HolderInStep, TypeOK
<1>3. ASSUME NEW r \in Replicas, Restart(r) PROVE HolderInStep'
  BY <1>3 DEF Restart, HolderInStep
<1>4. ASSUME NEW o \in Operators, Operate(o) PROVE HolderInStep'
  <2>1. o \in Procs
    BY DEF Procs
  <2>2. KeepsOut(o)
    BY <1>4, <2>1, CascadeKeepsOut
       DEF Operate, Compensate, Retry, RequestAborted, KeepsOut
  <2>3. QED
    BY <2>1, <2>2, KeepsOutInv
<1>5. CASE LeaseExpires
  BY <1>5, ConstantsAssumption DEF LeaseExpires, HolderInStep
<1>6. CASE UNCHANGED vars
  BY <1>6 DEF vars, HolderInStep
<1>7. QED
  BY <1>1, <1>2, <1>3, <1>4, <1>5, <1>6 DEF Next

\* With the lease, at most one replica is inside a step of the transaction,
\* whatever crashes and failures happen and however many replicas there are.
THEOREM StepsSingleFlight == ASSUME LeaseOn PROVE Spec => []SingleFlight
<1>1. Init => HolderInStep
  BY DEF Init, HolderInStep, StepLabel, Procs
<1>2. TypeOK /\ HolderInStep /\ [Next]_vars => HolderInStep'
  BY HolderNext
<1>3. HolderInStep => SingleFlight
  BY DEF HolderInStep, SingleFlight
<1>4. QED
  BY <1>1, <1>2, <1>3, TypeCorrect, PTL DEF Spec
=============================================================================
