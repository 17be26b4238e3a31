------------------------- MODULE SagaRecords_proofs -------------------------
(***************************************************************************)
(* Theorems about what the saga executor puts on record - the payload, the *)
(* step rows and the outbox events - and what its partners have carried    *)
(* out, for any set of replicas and of operators, any failures and any     *)
(* crashes, with or without the lease.                                     *)
(***************************************************************************)
EXTENDS SagaExecutor_proofs, SagaClients

-----------------------------------------------------------------------------
(* The inductive invariant.                                                *)

\* The states in which step s is the next one.
StatesAt(s) ==
  CASE s = "POLICY" -> {"CREATED"} [] s = "PAYMENT" -> {"POLICY_CHECKED"}
    [] s = "KYT" -> {"PAYMENT_CAPTURED"} [] s = "MPC_SIGN" -> {"KYT_SCREENED"}
    [] s = "BROADCAST" -> {"SIGNED"} [] s = "LEDGER" -> {"BROADCASTED", "CONFIRMED"}

\* The state, the current step and the payload of a saga row agree.
WellFormed(row) ==
  /\ RecordedBefore(StepIndex(row.step)) \subseteq row.payload
  /\ ~Terminal(row.state) => /\ row.payload = RecordedBefore(StepIndex(row.step))
                             /\ row.state \in StatesAt(row.step)
  /\ row.state = "COMPLETED" => /\ row.payload = RecordedBefore(7)
                                /\ row.step = "LEDGER"

\* Every row a process has in its hands is well formed, as is the stored one.
RowsWellFormed == WellFormed(saga) /\ \A p \in Procs : WellFormed(snap[p])

\* A process inside a step took its snapshot in a state that was not terminal,
\* captures for the payment step only, and persists only what its partner has
\* carried out.
Inside(p) ==
  /\ pc[p] \in StepLabel \cup {"acquire"} => ~Terminal(snap[p].state)
  /\ pc[p] \in {"capture", "voidRetry", "voidFinal"} => snap[p].step = "PAYMENT"
  /\ pc[p] = "persist" => effects[StepEffect(snap[p].step)] > 0

InsideStep == \A p \in Procs : Inside(p)

Records ==
  /\ PayloadMatchesStep
  /\ EffectsFollowRecords
  /\ RecordsFollowEffects
  /\ SucceededIsPassed
  /\ OneEventPerStep
  /\ TransitionsHaveEvents

RecordInv == SnapshotInv /\ RowsWellFormed /\ InsideStep /\ Records

-----------------------------------------------------------------------------
(* What the steps put on record.                                           *)

\* A key is on record before position i when an earlier step merges it.
LEMMA RecordedMember ==
  ASSUME NEW i, NEW k
  PROVE  k \in RecordedBefore(i) <=>
           \E s \in Step : StepIndex(s) < i /\ k \in PayloadMerge(s)
  BY DEF RecordedBefore

\* Nothing is on record before the first step, and a step that has succeeded
\* adds what it merges to what was on record before it.
LEMMA RecordedNext ==
  /\ RecordedBefore(1) = {}
  /\ \A s \in Step :
       RecordedBefore(StepIndex(s) + 1) = RecordedBefore(StepIndex(s)) \cup PayloadMerge(s)
<1>1. RecordedBefore(1) = {}
  BY RecordedMember, StepFacts
<1>2. ASSUME NEW s \in Step
      PROVE  RecordedBefore(StepIndex(s) + 1)
               = RecordedBefore(StepIndex(s)) \cup PayloadMerge(s)
  <2>1. \A t \in Step : StepIndex(t) < StepIndex(s) + 1
                           <=> StepIndex(t) < StepIndex(s) \/ t = s
    BY StepFacts
  <2>2. QED
    BY <2>1, RecordedMember
<1>3. QED
  BY <1>1, <1>2

\* The keys that later steps and compensation read are on record from the
\* step after the one that merges them, and not before.
LEMMA RecordedKeys ==
  ASSUME NEW s \in Step
  PROVE  /\ "policy_reason" \in RecordedBefore(StepIndex(s)) <=> s # "POLICY"
         /\ "capture_id" \in RecordedBefore(StepIndex(s))
              <=> s \in {"KYT", "MPC_SIGN", "BROADCAST", "LEDGER"}
         /\ "kyt_reason" \in RecordedBefore(StepIndex(s))
              <=> s \in {"MPC_SIGN", "BROADCAST", "LEDGER"}
         /\ "signed_tx_hex" \in RecordedBefore(StepIndex(s))
              <=> s \in {"BROADCAST", "LEDGER"}
         /\ "tx_hash" \in RecordedBefore(StepIndex(s)) <=> s = "LEDGER"
         /\ "ledger_journal_id" \notin RecordedBefore(StepIndex(s))
<1>1. \A k : k \in RecordedBefore(StepIndex(s)) <=>
              \E t \in Step : StepIndex(t) < StepIndex(s) /\ k \in PayloadMerge(t)
  BY RecordedMember
<1>2. QED
  BY <1>1 DEF Step, StepIndex, PayloadMerge

-----------------------------------------------------------------------------
(* The kinds of step.  Three SQL transactions write the saga row, each     *)
(* together with its event; whatever else happens leaves the row, the step *)
(* events and the SUCCEEDED rows alone.                                    *)

\* No step event and no SUCCEEDED row appears.
NoStepRecorded ==
  \A s \in Step, a \in Attempt :
    /\ StepEvent(s, a) \in outbox' => StepEvent(s, a) \in outbox
    /\ rows'[<<s, a>>] = "SUCCEEDED" => rows[<<s, a>>] = "SUCCEEDED"

\* p commits the success of the current step.
SavesSuccess(p) ==
  LET s == saga.step
  IN  /\ pc[p] = "persist" /\ snap[p] = saga
      /\ validatePath(saga.state, StateForStep(s), AfterSuccess(saga, s).state)
      /\ saga' = AfterSuccess(saga, s)
      /\ outbox' = outbox \cup {StepEvent(s, att[p])}
      /\ rows' = UpdateStep(s, att[p], "SUCCEEDED")

\* Somebody commits the confirmation of a broadcast saga.
SavesConfirmed ==
  /\ saga.state = "BROADCASTED"
  /\ saga' = Derived(saga, "CONFIRMED", "LEDGER", {})
  /\ SagaEvent("transaction.confirmed") \in outbox'
  /\ NoStepRecorded

\* A terminal result or a cascade commits a failure.
SavesFailure ==
  /\ \E st \in {"FAILED_COMPENSATED", "FAILED"},
        keys \in SUBSET {"policy_reason", "ledger_reconcile_required"} :
       /\ saga' = Derived(saga, st, saga.step, keys)
       /\ \E e \in outbox' : e.type = st
  /\ NoStepRecorded

RecordStep ==
  /\ outbox \subseteq outbox'
  /\ \/ UNCHANGED saga /\ NoStepRecorded
     \/ \E p \in Procs : SavesSuccess(p)
     \/ SavesConfirmed
     \/ SavesFailure

\* Marking a step row with anything but SUCCEEDED records no step.
LEMMA MarkedRow ==
  ASSUME TypeOK, NEW s \in Step, NEW a \in Attempt, NEW st, st # "SUCCEEDED",
         rows' = UpdateStep(s, a, st)
  PROVE  \A t \in Step, b \in Attempt :
           rows'[<<t, b>>] = "SUCCEEDED" => rows[<<t, b>>] = "SUCCEEDED"
  BY DEF TypeOK, StoreTypeOK, UpdateStep

\* A save that matches the stored row was derived from it.
LEMMA SavedFromStored ==
  ASSUME SnapshotInv, NEW p \in Procs, NEW st, NEW s, NEW keys,
         SaveMatches(Derived(snap[p], st, s, keys))
  PROVE  snap[p] = saga
<1>1. snap[p].version \in Nat /\ saga.version \in Nat
  BY DEF SnapshotInv, TypeOK, StoreTypeOK, SagaRow
<1>2. snap[p].version = saga.version
  BY <1>1 DEF SaveMatches, Derived
<1>3. QED
  BY <1>2 DEF SnapshotInv, SnapshotCoherent

\* CONFIRMED is reached from BROADCASTED alone.
LEMMA ConfirmedFrom ==
  ASSUME NEW st, Transition(st, "CONFIRMED")
  PROVE  st = "BROADCASTED"
  BY DEF Transition, IsFailure, forward

\* A SQL transaction that ignores its errors and writes a failure.
LEMMA FailureWrite ==
  ASSUME SnapshotInv, NEW p \in Procs,
         NEW st \in {"FAILED_COMPENSATED", "FAILED"},
         NEW keys \in SUBSET {"policy_reason", "ledger_reconcile_required"},
         NEW evt, evt.type = st, NEW v,
         LaxWrite(Derived(snap[p], st, snap[p].step, keys), v, evt),
         \A s \in Step, a \in Attempt :
           rows'[<<s, a>>] = "SUCCEEDED" => rows[<<s, a>>] = "SUCCEEDED"
  PROVE  RecordStep
<1> DEFINE new == Derived(snap[p], st, snap[p].step, keys)
<1>1. \A s \in Step, a \in Attempt : evt # StepEvent(s, a)
  BY DEF StepEvent
<1>2. outbox \subseteq outbox' /\ NoStepRecorded
  BY <1>1 DEF LaxWrite, NoStepRecorded
<1>3. CASE UNCHANGED saga
  BY <1>2, <1>3 DEF RecordStep
<1>4. CASE evt \in outbox' /\ SaveMatches(new) /\ saga' = new
  <2>1. saga' = Derived(saga, st, saga.step, keys)
    BY <1>4, SavedFromStored
  <2>2. QED
    BY <1>2, <1>4, <2>1 DEF RecordStep, SavesFailure
<1>5. QED
  BY <1>3, <1>4 DEF LaxWrite

\* A step that leaves the tables alone records nothing.
LEMMA StoreUnchanged == ASSUME UNCHANGED store PROVE RecordStep
  BY DEF store, RecordStep, NoStepRecorded

\* A cascade records nothing but, at its end, the failure of the saga.
LEMMA CascadeRecords ==
  ASSUME SnapshotInv, NEW p \in Procs, compensateCascade(p)
  PROVE  RecordStep
<1>0. TypeOK /\ StepOrder(idx[p]) \in Step /\ 1 \in Attempt
  BY StepOrderInStep, MaxRetriesAssumption DEF SnapshotInv, TypeOK, Attempt
<1>1. CASE CascadeLoadSaga(p) \/ CascadeLoadTx(p) \/ CascadeFails(p) \/ CascadeCall(p)
  BY <1>1, StoreUnchanged
     DEF CascadeLoadSaga, CascadeLoadTx, CascadeFails, CascadeCall
<1>2. CASE CascadeMark(p) \/ CascadeDone(p)
  <2>1. PICK st \in {"COMPENSATING", "COMPENSATED", "FAILED"} : MarkRow(p, st)
    BY <1>2 DEF CascadeMark, CascadeDone
  <2>2. \A s \in Step, a \in Attempt :
          rows'[<<s, a>>] = "SUCCEEDED" => rows[<<s, a>>] = "SUCCEEDED"
    <3>1. CASE rows' = UpdateStep(StepOrder(idx[p]), 1, st)
      BY <1>0, <3>1, MarkedRow
    <3>2. CASE UNCHANGED rows
      BY <3>2
    <3>3. QED
      BY <2>1, <3>1, <3>2 DEF MarkRow
  <2>3. UNCHANGED <<saga, outbox>>
    BY <1>2 DEF CascadeMark, CascadeDone
  <2>4. QED
    BY <2>2, <2>3 DEF RecordStep, NoStepRecorded
<1>3. CASE CascadeFinal(p)
  <2> DEFINE target == IF At(p, "cFinal") THEN "FAILED_COMPENSATED" ELSE "FAILED"
             new    == Derived(snap[p], target, snap[p].step, {})
  <2>1. UNCHANGED rows
    BY <1>3 DEF CascadeFinal
  <2>2. CASE LaxWrite(new, snapTx[p], SagaEvent(target))
    <3>1. SagaEvent(target).type = target
      BY DEF SagaEvent
    <3>2. target \in {"FAILED_COMPENSATED", "FAILED"}
      OBVIOUS
    <3> HIDE DEF target
    <3>3. QED
      BY <2>1, <2>2, <3>1, <3>2, FailureWrite
  <2>3. CASE UNCHANGED <<saga, tx, outbox>>
    BY <2>1, <2>3, StoreUnchanged DEF store
  <2>4. QED
    BY <1>3, <2>2, <2>3 DEF CascadeFinal
<1>4. QED
  BY <1>1, <1>2, <1>3 DEF compensateCascade

\* runStepOnce records the success of the current step or its failure.
LEMMA StepRecords ==
  ASSUME SnapshotInv, NEW r \in Replicas,
         \/ BeginStep(r) \/ StepTxFails(r) \/ PersistSuccess(r)
         \/ PersistTerminal(r) \/ MarkFailed(r)
  PROVE  RecordStep
<1>0. /\ r \in Procs /\ TypeOK
      /\ snap[r].step \in Step /\ att[r] \in Attempt
  BY DEF SnapshotInv, TypeOK, Procs, SagaRow
<1> USE <1>0
<1>1. CASE BeginStep(r) \/ MarkFailed(r)
  <2>1. UNCHANGED <<saga, outbox>>
    BY <1>1 DEF BeginStep, MarkFailed
  <2>2. \/ UNCHANGED rows
        \/ \E st \in {"RUNNING", "FAILED"} : rows' = UpdateStep(snap[r].step, att[r], st)
    BY <1>1 DEF BeginStep, MarkFailed
  <2>3. \A s \in Step, a \in Attempt :
          rows'[<<s, a>>] = "SUCCEEDED" => rows[<<s, a>>] = "SUCCEEDED"
    BY <2>2, MarkedRow
  <2>4. QED
    BY <2>1, <2>3 DEF RecordStep, NoStepRecorded
<1>2. CASE StepTxFails(r)
  BY <1>2, StoreUnchanged DEF StepTxFails
<1>3. CASE PersistSuccess(r)
  <2> DEFINE s   == snap[r].step
             new == AfterSuccess(snap[r], s)
             evt == StepEvent(s, att[r])
  <2>1. CASE UNCHANGED store
    BY <2>1, StoreUnchanged
  <2>2. CASE ~UNCHANGED store
    <3>1. /\ pc[r] = "persist"
          /\ validatePath(snap[r].state, StateForStep(s), new.state)
          /\ SaveMatches(new)
          /\ saga' = new
          /\ outbox' = outbox \cup {evt}
          /\ rows' = UpdateStep(s, att[r], "SUCCEEDED")
      BY <1>3, <2>2 DEF PersistSuccess, At, StrictCommits, StrictWrite
    <3>2. snap[r] = saga
      BY <3>1, SavedFromStored DEF AfterSuccess
    <3>3. SavesSuccess(r)
      BY <3>1, <3>2 DEF SavesSuccess
    <3>4. QED
      BY <3>1, <3>3 DEF RecordStep
  <2>3. QED
    BY <2>1, <2>2
<1>4. CASE PersistTerminal(r)
  <2> DEFINE s   == snap[r].step
             st  == TerminalState(s)
             evt == TerminalEvent(st, s, att[r])
  <2>1. CASE UNCHANGED store
    BY <2>1, StoreUnchanged
  <2>2. CASE /\ LaxWrite(Derived(snap[r], st, s, TerminalMerge(s)), snapTx[r], evt)
             /\ UNCHANGED rows \/ rows' = UpdateStep(s, att[r], "FAILED")
    <3>1. \A t \in Step, a \in Attempt :
            rows'[<<t, a>>] = "SUCCEEDED" => rows[<<t, a>>] = "SUCCEEDED"
      BY <2>2, MarkedRow
    <3>2. /\ TerminalMerge(s) \in SUBSET {"policy_reason", "ledger_reconcile_required"}
          /\ st \in {"FAILED_COMPENSATED", "FAILED"} /\ evt.type = st
      BY DEF TerminalMerge, TerminalState, TerminalEvent
    <3> HIDE DEF st, evt
    <3>3. QED
      BY <2>2, <3>1, <3>2, FailureWrite
  <2>3. QED
    BY <1>4, <2>1, <2>2 DEF PersistTerminal
<1>5. QED
  BY <1>1, <1>2, <1>3, <1>4

\* Every step of the executor is of one of the kinds.
LEMMA NextRecords ==
  ASSUME SnapshotInv, [Next]_vars
  PROVE  RecordStep
<1>1. ASSUME NEW r \in Replicas, Run(r) PROVE RecordStep
  <2>0. r \in Procs
    BY DEF Procs
  <2>1. CASE \/ Dequeue(r) \/ LoadTx(r) \/ LoadSagaState(r) \/ RunFails(r)
             \/ Acquire(r) \/ LeaseHeld(r) \/ Release(r) \/ Recheck(r)
             \/ AdvanceLoad(r) \/ Poll(r) \/ ConfirmLoadTx(r) \/ AdvanceFails(r)
    BY <2>1, StoreUnchanged
       DEF Dequeue, LoadTx, LoadSagaState, RunFails, Acquire, LeaseHeld, Release,
           Recheck, AdvanceLoad, Poll, ConfirmLoadTx, AdvanceFails
  <2>2. CASE PersistConfirmed(r)
    <3> DEFINE new == Derived(snap[r], "CONFIRMED", "LEDGER", {})
               evt == SagaEvent("transaction.confirmed")
    <3>1. CASE UNCHANGED store
      BY <3>1, StoreUnchanged
    <3>2. CASE ~UNCHANGED store
      <4>1. /\ Transition(snap[r].state, "CONFIRMED") /\ SaveMatches(new)
            /\ saga' = new /\ outbox' = outbox \cup {evt} /\ UNCHANGED rows
        BY <2>2, <3>2 DEF PersistConfirmed, StrictCommits, StrictWrite, store
      <4>2. snap[r] = saga
        BY <2>0, <4>1, SavedFromStored
      <4>3. saga.state = "BROADCASTED"
        BY <4>1, <4>2, ConfirmedFrom
      <4>4. \A s \in Step, a \in Attempt : evt # StepEvent(s, a)
        BY DEF SagaEvent, StepEvent
      <4>5. SavesConfirmed
        BY <4>1, <4>2, <4>3, <4>4 DEF SavesConfirmed, NoStepRecorded
      <4>6. QED
        BY <4>1, <4>5 DEF RecordStep
    <3>3. QED
      BY <3>1, <3>2
  <2>3. CASE Execute(r)
    BY <2>3, StoreUnchanged
       DEF Execute, PolicyExecute, PaymentAuthorize, PaymentCapture, PaymentVoid,
           KytExecute, MpcSignExecute, BroadcastExecute, LedgerExecute
  <2>4. QED
    BY <1>1, <2>0, <2>1, <2>2, <2>3, StepRecords, CascadeRecords DEF Run
<1>2. ASSUME NEW o \in Operators, Operate(o) PROVE RecordStep
  <2>1. o \in Procs
    BY DEF Procs
  <2>2. QED
    BY <1>2, <2>1, CascadeRecords, StoreUnchanged
       DEF Operate, Compensate, Retry, RequestAborted
<1>3. ASSUME NEW r \in Replicas, Crash(r) \/ Restart(r) PROVE RecordStep
  BY <1>3, StoreUnchanged DEF Crash, Restart
<1>4. CASE LeaseExpires \/ UNCHANGED vars
  BY <1>4, StoreUnchanged DEF LeaseExpires, vars
<1>5. QED
  BY <1>1, <1>2, <1>3, <1>4 DEF Next

-----------------------------------------------------------------------------
(* Saga rows stay well formed.                                             *)

\* What success of a step other than the last one leads to.
LEMMA StepAfterFacts ==
  ASSUME NEW s \in Step, s # "LEDGER"
  PROVE  /\ StepIndex(StepAfter(s)) = StepIndex(s) + 1
         /\ StateForStep(s) \in StatesAt(StepAfter(s))
         /\ ~Terminal(StateForStep(s))
  BY DEF Step, StepIndex, StepOrder, StepAfter, StateForStep, StatesAt, Terminal,
         IsFailure

\* The row handleCreate inserts is well formed.
LEMMA InitialWellFormed == WellFormed(InitialSaga)
<1>1. StepIndex("POLICY") = 1 /\ "CREATED" \in StatesAt("POLICY")
  BY DEF StepIndex, StatesAt
<1>2. QED
  BY <1>1, RecordedNext DEF WellFormed, InitialSaga

\* So is the row that records the success of a step.
LEMMA SuccessWellFormed ==
  ASSUME NEW row \in SagaRow, WellFormed(row), ~Terminal(row.state)
  PROVE  WellFormed(AfterSuccess(row, row.step))
<1> DEFINE s   == row.step
           new == AfterSuccess(row, s)
<1>0. s \in Step /\ row.payload = RecordedBefore(StepIndex(s))
  BY DEF SagaRow, WellFormed
<1>1. CASE s # "LEDGER"
  <2>1. /\ new.state = StateForStep(s) /\ new.step = StepAfter(s)
        /\ new.payload = RecordedBefore(StepIndex(s)) \cup PayloadMerge(s)
    BY <1>0, <1>1 DEF AfterSuccess, Derived
  <2>2. new.payload = RecordedBefore(StepIndex(new.step))
    BY <1>0, <1>1, <2>1, RecordedNext, StepAfterFacts
  <2>3. ~Terminal(new.state) /\ new.state \in StatesAt(new.step)
    BY <1>0, <1>1, <2>1, StepAfterFacts
  <2>4. new.state # "COMPLETED"
    BY <2>3 DEF Terminal
  <2>5. QED
    BY <2>2, <2>3, <2>4 DEF WellFormed
<1>2. CASE s = "LEDGER"
  <2>1. /\ new.state = "COMPLETED" /\ new.step = "LEDGER"
        /\ new.payload = RecordedBefore(6) \cup PayloadMerge("LEDGER")
    BY <1>0, <1>2 DEF AfterSuccess, Derived, StepAfter, StepIndex
  <2>2. RecordedBefore(7) = RecordedBefore(6) \cup PayloadMerge("LEDGER")
    BY RecordedNext DEF Step, StepIndex
  <2>3. StepIndex(new.step) = 6 /\ Terminal(new.state)
    BY <2>1 DEF StepIndex, Terminal
  <2>4. QED
    BY <2>1, <2>2, <2>3 DEF WellFormed
<1>3. QED
  BY <1>1, <1>2

\* A broadcast saga waits for the ledger step.
LEMMA BroadcastedAtLedger ==
  ASSUME NEW row \in SagaRow, WellFormed(row), row.state \in {"BROADCASTED", "CONFIRMED"}
  PROVE  row.step = "LEDGER" /\ ~Terminal(row.state)
<1>1. ~Terminal(row.state) /\ row.step \in Step
  BY DEF Terminal, IsFailure, SagaRow
<1>2. QED
  BY <1>1 DEF WellFormed, StatesAt, Step

\* What a committed success presupposes: the saga is in flight and the step
\* is the one it waits for; the ledger step asks for a confirmed saga.
LEMMA SuccessFrom ==
  ASSUME TypeOK, RowsWellFormed, InsideStep, NEW p \in Procs, SavesSuccess(p)
  PROVE  /\ saga \in SagaRow /\ saga.step \in Step /\ att[p] \in Attempt
         /\ ~Terminal(saga.state)
         /\ ~Passed(saga.step)
         /\ effects[StepEffect(saga.step)] > 0
         /\ saga.step = "LEDGER" => saga.state = "CONFIRMED"
<1>1. saga \in SagaRow /\ saga.step \in Step /\ att[p] \in Attempt
  BY DEF TypeOK, StoreTypeOK, SagaRow
<1>2. ~Terminal(saga.state) /\ effects[StepEffect(saga.step)] > 0
  BY DEF SavesSuccess, InsideStep, Inside, StepLabel
<1>3. saga.payload = RecordedBefore(StepIndex(saga.step))
  BY <1>2 DEF RowsWellFormed, WellFormed
<1>4. ~Passed(saga.step)
  BY <1>1, <1>3, RecordedKeys, StepFacts DEF Passed
<1>5. ASSUME saga.step = "LEDGER" PROVE saga.state = "CONFIRMED"
  <2>1. validatePath(saga.state, "LEDGERED", "COMPLETED")
    BY <1>5 DEF SavesSuccess, AfterSuccess, Derived, StateForStep
  <2>2. saga.state \in {"BROADCASTED", "CONFIRMED"}
    BY <1>2, <1>5 DEF RowsWellFormed, WellFormed, StatesAt
  <2>3. QED
    BY <2>1, <2>2 DEF validatePath, Transition, IsFailure, forward
<1>6. QED
  BY <1>1, <1>2, <1>4, <1>5

\* The stored row stays well formed, whoever writes it.
LEMMA SavedWellFormed ==
  ASSUME TypeOK, RowsWellFormed, InsideStep, RecordStep
  PROVE  WellFormed(saga')
<1>0. saga \in SagaRow /\ WellFormed(saga)
  BY DEF TypeOK, StoreTypeOK, RowsWellFormed
<1>1. CASE UNCHANGED saga
  BY <1>0, <1>1
<1>2. ASSUME NEW p \in Procs, SavesSuccess(p) PROVE WellFormed(saga')
  BY <1>0, <1>2, SuccessFrom, SuccessWellFormed DEF SavesSuccess
<1>3. CASE SavesConfirmed
  <2>1. saga.step = "LEDGER" /\ ~Terminal(saga.state)
    BY <1>0, <1>3, BroadcastedAtLedger DEF SavesConfirmed
  <2>2. /\ saga'.step = saga.step /\ saga'.state = "CONFIRMED"
        /\ saga'.payload = saga.payload
    BY <1>3, <2>1 DEF SavesConfirmed, Derived
  <2>3. "CONFIRMED" \in StatesAt("LEDGER")
    BY DEF StatesAt
  <2>4. QED
    BY <1>0, <2>1, <2>2, <2>3 DEF WellFormed
<1>4. CASE SavesFailure
  <2>1. /\ saga'.step = saga.step /\ IsFailure(saga'.state)
        /\ saga.payload \subseteq saga'.payload
    BY <1>4 DEF SavesFailure, Derived, IsFailure
  <2>2. Terminal(saga'.state) /\ saga'.state # "COMPLETED"
    BY <2>1 DEF Terminal, IsFailure
  <2>3. QED
    BY <1>0, <2>1, <2>2 DEF WellFormed
<1>5. QED
  BY <1>1, <1>2, <1>3, <1>4 DEF RecordStep

\* So does every snapshot: it was the stored row once.
LEMMA SnapshotsWellFormed ==
  ASSUME TypeOK, RowsWellFormed, SnapshotStep
  PROVE  \A p \in Procs : WellFormed(snap'[p])
<1>1. \A p \in Procs : snap'[p] \in {snap[p], saga, InitialSaga}
  BY DEF SnapshotStep, TypeOK
<1>2. QED
  BY <1>1, InitialWellFormed DEF RowsWellFormed

-----------------------------------------------------------------------------
(* The records.                                                            *)

\* Only a committed success puts a step behind the saga, and only its own.
LEMMA PassedNext ==
  ASSUME TypeOK, RowsWellFormed, InsideStep, RecordStep
  PROVE  \/ /\ NoStepRecorded
            /\ \A t \in Step : Passed(t)' <=> Passed(t)
         \/ \E p \in Procs :
              /\ SavesSuccess(p)
              /\ \A t \in Step : Passed(t)' <=> Passed(t) \/ t = saga.step
<1>0. saga \in SagaRow /\ WellFormed(saga) /\ saga.step \in Step
  BY DEF TypeOK, StoreTypeOK, RowsWellFormed, SagaRow
<1>1. CASE UNCHANGED saga /\ NoStepRecorded
  BY <1>1 DEF Passed
<1>2. ASSUME NEW p \in Procs, SavesSuccess(p)
      PROVE  \A t \in Step : Passed(t)' <=> Passed(t) \/ t = saga.step
  <2> DEFINE s == saga.step
  <2>1. /\ saga'.step = StepAfter(s)
        /\ saga'.payload = saga.payload \cup PayloadMerge(s)
    BY <1>2 DEF SavesSuccess, AfterSuccess, Derived
  <2>2. CASE s # "LEDGER"
    <3>1. StepIndex(saga'.step) = StepIndex(s) + 1
      BY <1>0, <2>1, <2>2, StepAfterFacts
    <3>2. "ledger_journal_id" \notin PayloadMerge(s)
      BY <1>0, <2>2 DEF PayloadMerge, Step
    <3>3. \A t \in Step : StepIndex(t) < StepIndex(saga'.step)
                             <=> StepIndex(t) < StepIndex(s) \/ t = s
      BY <1>0, <3>1, StepFacts
    <3>4. QED
      BY <2>1, <3>2, <3>3 DEF Passed
  <2>3. CASE s = "LEDGER"
    <3>1. saga'.step = "LEDGER" /\ "ledger_journal_id" \in saga'.payload
      BY <2>1, <2>3 DEF StepAfter, PayloadMerge
    <3>2. QED
      BY <2>3, <3>1 DEF Passed
  <2>4. QED
    BY <2>2, <2>3
<1>3. CASE SavesConfirmed
  <2>1. saga'.step = saga.step /\ saga'.payload = saga.payload
    BY <1>0, <1>3, BroadcastedAtLedger DEF SavesConfirmed, Derived
  <2>2. QED
    BY <1>3, <2>1 DEF Passed, SavesConfirmed
<1>4. CASE SavesFailure
  <2>1. PICK keys \in SUBSET {"policy_reason", "ledger_reconcile_required"} :
          saga'.step = saga.step /\ saga'.payload = saga.payload \cup keys
    BY <1>4 DEF SavesFailure, Derived
  <2>2. "ledger_journal_id" \in saga'.payload <=> "ledger_journal_id" \in saga.payload
    BY <2>1
  <2>3. QED
    BY <1>4, <2>1, <2>2 DEF Passed, SavesFailure
<1>5. QED
  BY <1>1, <1>2, <1>3, <1>4 DEF RecordStep

\* What the partners have carried out stays carried out.
EffectsKept == \A e \in Effect : effects[e] > 0 => effects'[e] > 0

\* Every step has its effect.
LEMMA StepEffectType == \A s \in Step : StepEffect(s) \in Effect
  BY DEF Step, StepEffect, Effect

\* Every transition outside the steps comes with its event.
LEMMA TransitionEventsKept ==
  ASSUME TypeOK, RowsWellFormed, InsideStep, Records, RecordStep
  PROVE  TransitionsHaveEvents'
<1>0. TransitionsHaveEvents /\ outbox \subseteq outbox'
  BY DEF Records, RecordStep
<1>1. CASE UNCHANGED saga
  BY <1>0, <1>1 DEF TransitionsHaveEvents
<1>2. ASSUME NEW p \in Procs, SavesSuccess(p) PROVE TransitionsHaveEvents'
  <2>1. saga.step \in Step /\ (saga.step = "LEDGER" => saga.state = "CONFIRMED")
    BY <1>2, SuccessFrom
  <2>2. saga'.state = IF saga.step = "LEDGER" THEN "COMPLETED" ELSE StateForStep(saga.step)
    BY <1>2 DEF SavesSuccess, AfterSuccess, Derived
  <2>3. CASE saga.step = "LEDGER"
    BY <1>0, <2>1, <2>2, <2>3 DEF TransitionsHaveEvents, IsFailure
  <2>4. CASE saga.step # "LEDGER"
    <3>1. saga'.state \notin {"CONFIRMED", "COMPLETED"} /\ ~IsFailure(saga'.state)
      BY <2>1, <2>2, <2>4 DEF StateForStep, Step, IsFailure
    <3>2. QED
      BY <3>1 DEF TransitionsHaveEvents
  <2>5. QED
    BY <2>3, <2>4
<1>3. CASE SavesConfirmed
  <2>1. saga'.state = "CONFIRMED" /\ SagaEvent("transaction.confirmed") \in outbox'
    BY <1>3 DEF SavesConfirmed, Derived
  <2>2. QED
    BY <2>1 DEF TransitionsHaveEvents, IsFailure, SagaEvent
<1>4. CASE SavesFailure
  <2>1. IsFailure(saga'.state) /\ \E e \in outbox' : e.type = saga'.state
    BY <1>4 DEF SavesFailure, Derived, IsFailure
  <2>2. saga'.state \notin {"CONFIRMED", "COMPLETED"}
    BY <2>1 DEF IsFailure
  <2>3. QED
    BY <2>1, <2>2 DEF TransitionsHaveEvents
<1>5. QED
  BY <1>1, <1>2, <1>3, <1>4 DEF RecordStep

\* Every kind of step keeps the records of steps, rows and events in line.
LEMMA RecordsKept ==
  ASSUME TypeOK, RowsWellFormed, InsideStep, Records, RecordStep, EffectsKept
  PROVE  /\ RecordsFollowEffects'
         /\ SucceededIsPassed'
         /\ OneEventPerStep'
         /\ TransitionsHaveEvents'
<1>1. CASE NoStepRecorded /\ \A t \in Step : Passed(t)' <=> Passed(t)
  <2>1. RecordsFollowEffects'
    BY <1>1, StepEffectType DEF RecordsFollowEffects, EffectsKept, Records
  <2>2. SucceededIsPassed'
    BY <1>1 DEF SucceededIsPassed, Records, NoStepRecorded
  <2>3. OneEventPerStep'
    <3>1. \A s \in Step, a \in Attempt : StepEvent(s, a) \in outbox' <=> StepEvent(s, a) \in outbox
      BY <1>1 DEF NoStepRecorded, RecordStep
    <3>2. \A s \in Step : {a \in Attempt : StepEvent(s, a) \in outbox'}
                            = {a \in Attempt : StepEvent(s, a) \in outbox}
      BY <3>1
    <3>3. OneEventPerStep
      BY DEF Records
    <3>4. ASSUME NEW s \in Step
          PROVE  LET evts == {a \in Attempt : StepEvent(s, a) \in outbox'}
                 IN  IF Passed(s)' THEN \E a \in Attempt : evts = {a} ELSE evts = {}
      BY <1>1, <3>2, <3>3 DEF OneEventPerStep
    <3>5. QED
      BY <3>4 DEF OneEventPerStep, StepEvent
  <2>4. QED
    BY <2>1, <2>2, <2>3, TransitionEventsKept
<1>2. ASSUME NEW p \in Procs, SavesSuccess(p),
             \A t \in Step : Passed(t)' <=> Passed(t) \/ t = saga.step
      PROVE  RecordsFollowEffects' /\ SucceededIsPassed' /\ OneEventPerStep'
  <2> DEFINE s0 == saga.step
             a0 == att[p]
  <2>0. /\ s0 \in Step /\ a0 \in Attempt /\ ~Passed(s0)
        /\ effects[StepEffect(s0)] > 0
        /\ outbox' = outbox \cup {StepEvent(s0, a0)}
        /\ rows' = UpdateStep(s0, a0, "SUCCEEDED")
    BY <1>2, SuccessFrom DEF SavesSuccess
  <2>1. RecordsFollowEffects'
    BY <1>2, <2>0, StepEffectType DEF RecordsFollowEffects, EffectsKept, Records
  <2>2. SucceededIsPassed'
    <3>1. \A t \in Step, b \in Attempt : rows'[<<t, b>>] = "SUCCEEDED"
            => rows[<<t, b>>] = "SUCCEEDED" \/ t = s0
      BY <2>0 DEF UpdateStep, TypeOK, StoreTypeOK
    <3>2. QED
      BY <1>2, <3>1 DEF SucceededIsPassed, Records
  <2>3. OneEventPerStep'
    <3>1. \A t \in Step, b \in Attempt :
            StepEvent(t, b) \in outbox' <=> StepEvent(t, b) \in outbox \/ (t = s0 /\ b = a0)
      BY <2>0 DEF StepEvent
    <3>2. OneEventPerStep
      BY DEF Records
    <3>3. ASSUME NEW t \in Step
          PROVE  LET evts == {a \in Attempt : StepEvent(t, a) \in outbox'}
                 IN  IF Passed(t)' THEN \E a \in Attempt : evts = {a} ELSE evts = {}
      <4> DEFINE old == {a \in Attempt : StepEvent(t, a) \in outbox}
                 new == {a \in Attempt : StepEvent(t, a) \in outbox'}
      <4>0. IF Passed(t) THEN \E a \in Attempt : old = {a} ELSE old = {}
        BY <3>2 DEF OneEventPerStep
      <4>1. CASE t = s0
        <5>1. old = {}
          BY <2>0, <4>0, <4>1
        <5>2. \A b \in Attempt : b \in new <=> b \in old \/ b = a0
          BY <3>1, <4>1
        <5>3. new = {a0}
          BY <2>0, <5>1, <5>2
        <5>4. QED
          BY <1>2, <2>0, <4>1, <5>3
      <4>2. CASE t # s0
        <5>1. new = old
          BY <3>1, <4>2
        <5>2. QED
          BY <1>2, <4>0, <4>2, <5>1
      <4>3. QED
        BY <4>1, <4>2
    <3>4. QED
      BY <3>3 DEF OneEventPerStep, StepEvent
  <2>4. QED
    BY <2>1, <2>2, <2>3
<1>3. QED
  BY <1>1, <1>2, PassedNext, TransitionEventsKept

-----------------------------------------------------------------------------
(* The partners.  A partner acts for a process inside the step it belongs  *)
(* to, whose snapshot holds what the steps before it have recorded.        *)

\* What must be on record before a partner carries out e.
Needs(e) ==
  CASE e = "allow" -> {}
    [] e \in {"capture", "stray_auth"} -> {"policy_reason"}
    [] e \in {"refund", "clear"} -> {"capture_id"}
    [] e = "sign" -> {"kyt_reason"}
    [] e = "broadcast" -> {"signed_tx_hex"}
    [] e \in {"post", "monitor"} -> {"tx_hash"}

\* p acts: no other process moves, its partner carries out at most what its
\* snapshot allows, and p is rightly where it gets.
Acts(p) ==
  /\ \A q \in Procs \ {p} : pc'[q] = pc[q] /\ snap'[q] = snap[q]
  /\ UNCHANGED effects \/ \E e \in Effect : Happens(e) /\ Needs(e) \subseteq snap[p].payload
  /\ Inside(p)'

\* What a partner carries out is counted, and nothing is forgotten.
LEMMA HappensCounts ==
  ASSUME TypeOK, NEW e \in Effect, Happens(e)
  PROVE  effects'[e] > 0 /\ EffectsKept
  BY ConstantsAssumption DEF TypeOK, Happens, EffectsKept

\* A process that is not inside a step afterwards is rightly there.
LEMMA OutsideActs ==
  ASSUME TypeOK, NEW p \in Procs, NEW l, Go(p, l),
         l \notin StepLabel \cup {"acquire"},
         \/ UNCHANGED snap \/ ReadSaga(p) \/ Finish(p),
         UNCHANGED effects
  PROVE  Acts(p)
<1>1. \A q \in Procs \ {p} : pc'[q] = pc[q] /\ snap'[q] = snap[q]
  BY DEF TypeOK, Go, ReadSaga, Finish
<1>2. pc'[p] = l
  BY DEF TypeOK, Go
<1>3. Inside(p)'
  BY <1>2 DEF Inside, StepLabel
<1>4. QED
  BY <1>1, <1>3 DEF Acts

\* The loop of Run and the confirmation.
LEMMA LoopActs ==
  ASSUME TypeOK, InsideStep, NEW r \in Replicas,
         \/ Dequeue(r) \/ LoadTx(r) \/ LoadSagaState(r) \/ RunFails(r)
         \/ Acquire(r) \/ LeaseHeld(r) \/ Release(r) \/ Recheck(r)
         \/ AdvanceLoad(r) \/ Poll(r) \/ ConfirmLoadTx(r) \/ AdvanceFails(r)
         \/ PersistConfirmed(r)
  PROVE  Acts(r)
<1>0. r \in Procs
  BY DEF Procs
<1> USE <1>0 DEF locals
<1>1. CASE LoadSagaState(r)
  <2>1. CASE Terminal(saga.state)
    BY <1>1, <2>1, OutsideActs DEF LoadSagaState, Finish, StepLabel
  <2>2. CASE ~Terminal(saga.state)
    <3>1. /\ pc' = [pc EXCEPT ![r] = "acquire"] /\ snap' = [snap EXCEPT ![r] = saga]
          /\ UNCHANGED effects
      BY <1>1, <2>2 DEF LoadSagaState, ReadSaga, Go
    <3>2. pc'[r] = "acquire" /\ snap'[r] = saga
      BY <3>1 DEF TypeOK
    <3>3. QED
      BY <2>2, <3>1, <3>2 DEF Acts, Inside, TypeOK
  <2>3. QED
    BY <2>1, <2>2
<1>2. CASE Acquire(r)
  <2>1. /\ pc' = [pc EXCEPT ![r] = "begin"] /\ UNCHANGED <<snap, effects>>
        /\ pc[r] = "acquire"
    BY <1>2 DEF Acquire, Go, At
  <2>2. pc'[r] = "begin"
    BY <2>1 DEF TypeOK
  <2>3. QED
    BY <2>1, <2>2 DEF Acts, Inside, InsideStep, TypeOK
<1>3. CASE Recheck(r)
  <2>1. \/ Finish(r) \/ (UNCHANGED snap /\ (Go(r, "advance") \/ Go(r, "loadTx")))
    BY <1>3 DEF Recheck
  <2>2. QED
    BY <1>3, <2>1, OutsideActs DEF Recheck, Finish, StepLabel
<1>4. CASE AdvanceLoad(r)
  BY <1>4, OutsideActs DEF AdvanceLoad, StepLabel
<1>5. CASE Release(r)
  BY <1>5, OutsideActs DEF Release, StepLabel
<1>6. CASE RunFails(r)
  BY <1>6, OutsideActs DEF RunFails, Finish, StepLabel
<1>7. CASE \/ Dequeue(r) \/ LoadTx(r) \/ LeaseHeld(r) \/ Poll(r) \/ ConfirmLoadTx(r)
           \/ AdvanceFails(r) \/ PersistConfirmed(r)
  <2>1. /\ UNCHANGED <<snap, effects>>
        /\ \E l \in {"loadTx", "loadSaga", "confirmLoad", "confirm"} : Go(r, l)
    BY <1>7 DEF Dequeue, LoadTx, LeaseHeld, Poll, ConfirmLoadTx, AdvanceFails,
                PersistConfirmed
  <2>2. QED
    BY <2>1, OutsideActs DEF StepLabel
<1>8. QED
  BY <1>1, <1>2, <1>3, <1>4, <1>5, <1>6, <1>7

\* A process inside a step that jumps to another label of the step.
LEMMA InsideActs ==
  ASSUME TypeOK, InsideStep, NEW p \in Procs, pc[p] \in StepLabel,
         NEW l \in StepLabel, Go(p, l), UNCHANGED snap,
         l \in {"capture", "voidRetry", "voidFinal"} => snap[p].step = "PAYMENT",
         l = "persist" => effects'[StepEffect(snap[p].step)] > 0,
         \/ UNCHANGED effects
         \/ \E e \in Effect : Happens(e) /\ Needs(e) \subseteq snap[p].payload
  PROVE  Acts(p)
<1>1. pc'[p] = l /\ \A q \in Procs \ {p} : pc'[q] = pc[q]
  BY DEF TypeOK, Go
<1>2. ~Terminal(snap[p].state)
  BY DEF InsideStep, Inside
<1>3. Inside(p)'
  BY <1>1, <1>2 DEF Inside
<1>4. QED
  BY <1>1, <1>3 DEF Acts

\* runStepOnce around the partner calls.
LEMMA StepActs ==
  ASSUME TypeOK, InsideStep, NEW r \in Replicas,
         \/ BeginStep(r) \/ StepTxFails(r) \/ PersistSuccess(r)
         \/ PersistTerminal(r) \/ MarkFailed(r)
  PROVE  Acts(r)
<1>0. r \in Procs
  BY DEF Procs
<1>1. NextAttempt(r) => Go(r, "begin") \/ Go(r, "releaseErr")
  BY DEF NextAttempt
<1>2. /\ pc[r] \in StepLabel /\ UNCHANGED <<snap, effects>>
      /\ \E l \in {"begin", "call", "releaseOk", "releaseErr"} : Go(r, l)
  <2>1. CASE BeginStep(r) \/ StepTxFails(r) \/ MarkFailed(r)
    BY <1>1, <2>1 DEF BeginStep, StepTxFails, MarkFailed, At, StepLabel
  <2>2. CASE PersistSuccess(r)
    BY <1>1, <2>2 DEF PersistSuccess, At, StepLabel
  <2>3. CASE PersistTerminal(r)
    BY <2>3 DEF PersistTerminal, At, StepLabel, locals
  <2>4. QED
    BY <2>1, <2>2, <2>3
<1>3. QED
  BY <1>0, <1>2, InsideActs DEF StepLabel

\* The snapshot of a process inside a step holds what the step's partner
\* needs, and not yet what the step records.
LEMMA InsideHolds ==
  ASSUME TypeOK, RowsWellFormed, InsideStep, NEW p \in Procs, pc[p] \in StepLabel
  PROVE  /\ snap[p].step \in Step
         /\ StepEffect(snap[p].step) \in Effect
         /\ Needs(StepEffect(snap[p].step)) \subseteq snap[p].payload
         /\ snap[p].step = "PAYMENT" => "policy_reason" \in snap[p].payload
         /\ snap[p].step = "BROADCAST" => "tx_hash" \notin snap[p].payload
         /\ "ledger_journal_id" \notin snap[p].payload
<1>1. snap[p].step \in Step
  BY DEF TypeOK, SagaRow
<1>2. snap[p].payload = RecordedBefore(StepIndex(snap[p].step))
  BY DEF InsideStep, Inside, RowsWellFormed, WellFormed
<1>3. Needs(StepEffect(snap[p].step)) \subseteq RecordedBefore(StepIndex(snap[p].step))
  BY <1>1, RecordedKeys DEF Needs, StepEffect, Step
<1>4. QED
  BY <1>1, <1>2, <1>3, RecordedKeys, StepEffectType

\* A partner call that is answered and leads to "persist".
LEMMA AcceptedActs ==
  ASSUME TypeOK, RowsWellFormed, InsideStep, NEW p \in Procs, pc[p] \in StepLabel,
         UNCHANGED snap, Accepted(p, StepEffect(snap[p].step))
  PROVE  Acts(p)
<1>1. /\ StepEffect(snap[p].step) \in Effect
      /\ Needs(StepEffect(snap[p].step)) \subseteq snap[p].payload
  BY InsideHolds
<1>2. Happens(StepEffect(snap[p].step)) /\ Go(p, "persist")
  BY DEF Accepted
<1>3. effects'[StepEffect(snap[p].step)] > 0
  BY <1>1, <1>2, HappensCounts
<1>4. "persist" \in StepLabel /\ "persist" \notin {"capture", "voidRetry", "voidFinal"}
  BY DEF StepLabel
<1>5. QED
  BY <1>1, <1>2, <1>3, <1>4, InsideActs

\* A partner call that fails, to an effect or to none.
LEMMA FailedCallActs ==
  ASSUME TypeOK, InsideStep, NEW p \in Procs, pc[p] \in StepLabel,
         UNCHANGED snap,
         \E l \in {"failRetry", "failFinal", "terminal"} : Go(p, l),
         \/ UNCHANGED effects
         \/ \E e \in Effect : Happens(e) /\ Needs(e) \subseteq snap[p].payload
  PROVE  Acts(p)
  BY InsideActs DEF StepLabel

\* Execute of the six steps.
LEMMA ExecuteActs ==
  ASSUME TypeOK, RowsWellFormed, InsideStep, NEW r \in Replicas, Execute(r)
  PROVE  Acts(r)
<1>0. /\ r \in Procs /\ UNCHANGED snap
      /\ pc[r] \in StepLabel
  BY DEF Procs, Execute, PolicyExecute, PaymentAuthorize, PaymentCapture, PaymentVoid,
         KytExecute, MpcSignExecute, BroadcastExecute, LedgerExecute, locals,
         Calling, At, StepLabel
<1> DEFINE s == snap[r].step
<1>1. /\ s \in Step /\ StepEffect(s) \in Effect
      /\ Needs(StepEffect(s)) \subseteq snap[r].payload
      /\ s = "PAYMENT" => "policy_reason" \in snap[r].payload
      /\ s = "BROADCAST" => "tx_hash" \notin snap[r].payload
      /\ "ledger_journal_id" \notin snap[r].payload
  BY <1>0, InsideHolds
<1>2. /\ s = "POLICY" => StepEffect(s) = "allow"
      /\ s = "PAYMENT" => StepEffect(s) = "capture"
      /\ s = "KYT" => StepEffect(s) = "clear"
      /\ s = "MPC_SIGN" => StepEffect(s) = "sign"
      /\ s = "BROADCAST" => StepEffect(s) = "broadcast"
      /\ s = "LEDGER" => StepEffect(s) = "post"
  BY DEF StepEffect
<1>3. s = "PAYMENT" => Needs("stray_auth") \subseteq snap[r].payload
  BY <1>1 DEF Needs
<1>4. Unavailable(r) \/ Refused(r) \/ TerminalResult(r) => Acts(r)
  BY <1>0, FailedCallActs DEF Unavailable, Refused, TerminalResult
<1>5. ReplyLost(r, StepEffect(s)) => Acts(r)
  BY <1>0, <1>1, FailedCallActs DEF ReplyLost
<1>6. Accepted(r, StepEffect(s)) => Acts(r)
  BY <1>0, AcceptedActs
<1>7. "stray_auth" \in Effect
  BY DEF Effect
<1>8. CASE PolicyExecute(r)
  BY <1>2, <1>4, <1>6, <1>8 DEF PolicyExecute, Calling
<1>9. CASE PaymentAuthorize(r)
  <2>1. CASE UNCHANGED effects /\ Go(r, "capture")
    BY <1>0, <1>9, <2>1, InsideActs DEF PaymentAuthorize, Calling, StepLabel
  <2>2. CASE ReplyLost(r, "stray_auth")
    BY <1>0, <1>3, <1>7, <1>9, <2>2, FailedCallActs
       DEF PaymentAuthorize, Calling, ReplyLost
  <2>3. QED
    BY <1>4, <1>9, <2>1, <2>2 DEF PaymentAuthorize
<1>10. CASE PaymentCapture(r)
  <2>1. s = "PAYMENT"
    BY <1>0, <1>10 DEF PaymentCapture, InsideStep, Inside, At
  <2>2. CASE Accepted(r, "capture")
    BY <1>2, <1>6, <2>1, <2>2
  <2>3. CASE /\ UNCHANGED effects \/ Happens("capture")
             /\ Go(r, "voidRetry") \/ Go(r, "voidFinal")
    BY <1>0, <1>1, <1>2, <2>1, <2>3, InsideActs DEF StepLabel
  <2>4. QED
    BY <1>10, <2>2, <2>3 DEF PaymentCapture
<1>11. CASE PaymentVoid(r)
  <2>1. s = "PAYMENT"
    BY <1>0, <1>11 DEF PaymentVoid, InsideStep, Inside, At
  <2>2. QED
    BY <1>0, <1>3, <1>7, <1>11, <2>1, FailedCallActs DEF PaymentVoid
<1>12. CASE KytExecute(r)
  BY <1>2, <1>4, <1>6, <1>12 DEF KytExecute, Calling
<1>13. CASE MpcSignExecute(r)
  BY <1>2, <1>4, <1>5, <1>6, <1>13 DEF MpcSignExecute, Calling
<1>14. CASE BroadcastExecute(r)
  <2>1. s = "BROADCAST" /\ (Refused(r) \/ Accepted(r, "broadcast") \/ Unavailable(r)
                             \/ ReplyLost(r, "broadcast"))
    BY <1>1, <1>14 DEF BroadcastExecute, Calling
  <2>2. QED
    BY <1>2, <1>4, <1>5, <1>6, <2>1
<1>15. CASE LedgerExecute(r)
  <2>1. s = "LEDGER" /\ (Accepted(r, "post") \/ TerminalResult(r) \/ Unavailable(r)
                          \/ ReplyLost(r, "post"))
    BY <1>1, <1>15 DEF LedgerExecute, Calling
  <2>2. QED
    BY <1>2, <1>4, <1>5, <1>6, <2>1
<1>16. QED
  BY <1>8, <1>9, <1>10, <1>11, <1>12, <1>13, <1>14, <1>15 DEF Execute

\* Compensation refunds a recorded capture and has a recorded broadcast
\* monitored.
LEMMA CascadeActs ==
  ASSUME TypeOK, NEW p \in Procs, compensateCascade(p)
  PROVE  Acts(p)
<1> USE DEF locals
<1>1. CASE CascadeLoadSaga(p)
  BY <1>1, OutsideActs DEF CascadeLoadSaga, StepLabel
<1>2. CASE CascadeFails(p) \/ CascadeFinal(p)
  BY <1>2, OutsideActs DEF CascadeFails, CascadeFinal, Finish, StepLabel
<1>3. CASE CascadeLoadTx(p) \/ CascadeMark(p) \/ CascadeDone(p)
  <2>1. /\ UNCHANGED <<snap, effects>>
        /\ \E l \in {"cMark", "cCall", "cFinal", "cFinalErr"} : Go(p, l)
    BY <1>3 DEF CascadeLoadTx, CascadeMark, CascadeDone
  <2>2. QED
    BY <2>1, OutsideActs DEF StepLabel
<1>4. CASE CascadeCall(p)
  <2>1. Go(p, "cOk") \/ Go(p, "cErr")
    BY <1>4 DEF CascadeCall, PaymentCompensate, BroadcastCompensate
  <2>2. \/ UNCHANGED effects
        \/ \E e \in Effect : Happens(e) /\ Needs(e) \subseteq snap[p].payload
    BY <1>4 DEF CascadeCall, PaymentCompensate, BroadcastCompensate, Needs, Effect
  <2>3. UNCHANGED snap
    BY <1>4 DEF CascadeCall
  <2>4. /\ \A q \in Procs \ {p} : pc'[q] = pc[q] /\ snap'[q] = snap[q]
        /\ pc'[p] \in {"cOk", "cErr"}
    BY <2>1, <2>3 DEF TypeOK, Go
  <2>5. Inside(p)'
    BY <2>4 DEF Inside, StepLabel
  <2>6. QED
    BY <2>2, <2>4, <2>5 DEF Acts
<1>5. QED
  BY <1>1, <1>2, <1>3, <1>4 DEF compensateCascade

-----------------------------------------------------------------------------
(* The invariant and the theorems.                                         *)

\* Every step of the executor is an act of one process or of none.
LEMMA NextActs ==
  ASSUME TypeOK, RowsWellFormed, InsideStep, [Next]_vars
  PROVE  UNCHANGED <<pc, snap, effects>> \/ \E p \in Procs : Acts(p)
<1> USE DEF locals
<1>1. ASSUME NEW r \in Replicas, Run(r) PROVE \E p \in Procs : Acts(p)
  <2>1. r \in Procs
    BY DEF Procs
  <2>2. Acts(r)
    BY <1>1, <2>1, LoopActs, StepActs, ExecuteActs, CascadeActs DEF Run
  <2>3. QED
    BY <2>1, <2>2
<1>2. ASSUME NEW r \in Replicas, Crash(r) PROVE \E p \in Procs : Acts(p)
  <2>1. r \in Procs
    BY DEF Procs
  <2>2. Acts(r)
    BY <1>2, <2>1, OutsideActs DEF Crash, Finish, StepLabel
  <2>3. QED
    BY <2>1, <2>2
<1>3. ASSUME NEW o \in Operators, Operate(o)
      PROVE  UNCHANGED <<pc, snap, effects>> \/ \E p \in Procs : Acts(p)
  <2>1. o \in Procs
    BY DEF Procs
  <2>2. CASE compensateCascade(o)
    BY <2>1, <2>2, CascadeActs
  <2>3. CASE Compensate(o)
    BY <2>1, <2>3, OutsideActs DEF Compensate, StepLabel
  <2>4. CASE RequestAborted(o)
    BY <2>1, <2>4, OutsideActs DEF RequestAborted, Finish, StepLabel
  <2>5. CASE Retry(o)
    BY <2>5 DEF Retry
  <2>6. QED
    BY <1>3, <2>2, <2>3, <2>4, <2>5 DEF Operate
<1>4. ASSUME NEW r \in Replicas, Restart(r) PROVE UNCHANGED <<pc, snap, effects>>
  BY <1>4 DEF Restart
<1>5. CASE LeaseExpires \/ UNCHANGED vars
  BY <1>5 DEF LeaseExpires, vars
<1>6. QED
  BY <1>1, <1>2, <1>3, <1>4, <1>5 DEF Next

\* A step of one of the kinds, in which at most one process acts, preserves
\* the invariant.
LEMMA RecordInvKept ==
  ASSUME RecordInv, SnapshotInv', RecordStep, SnapshotStep,
         UNCHANGED <<pc, snap, effects>> \/ \E p \in Procs : Acts(p)
  PROVE  RecordInv' /\ EffectsKept
<1>0. /\ TypeOK /\ TypeOK' /\ SnapshotInv /\ SnapshotInv'
      /\ RowsWellFormed /\ InsideStep /\ Records
  BY DEF RecordInv, SnapshotInv
<1>1. EffectsKept
  BY <1>0, HappensCounts DEF Acts, EffectsKept
<1>2. RowsWellFormed'
  <2>1. WellFormed(saga')
    BY <1>0, SavedWellFormed
  <2>2. \A p \in Procs : WellFormed(snap'[p])
    BY <1>0, SnapshotsWellFormed
  <2>3. QED
    BY <2>1, <2>2 DEF RowsWellFormed
<1>3. InsideStep'
  <2>1. ASSUME NEW q \in Procs, pc'[q] = pc[q], snap'[q] = snap[q] PROVE Inside(q)'
    <3>1. Inside(q) /\ StepEffect(snap[q].step) \in Effect
      BY <1>0, StepEffectType DEF InsideStep, TypeOK, SagaRow
    <3>2. QED
      BY <1>1, <2>1, <3>1 DEF Inside, EffectsKept
  <2>2. QED
    BY <2>1 DEF InsideStep, Acts
<1>4. PayloadMatchesStep'
  BY <1>2 DEF RowsWellFormed, WellFormed, PayloadMatchesStep
<1>5. saga.payload \subseteq saga'.payload
  BY DEF RecordStep, SavesSuccess, SavesConfirmed, SavesFailure, AfterSuccess, Derived
<1>6. EffectsFollowRecords'
  <2>1. \A e \in Effect : effects[e] > 0 => Needs(e) \subseteq saga.payload
    BY <1>0 DEF Records, EffectsFollowRecords, Needs, Effect
  <2>2. \A p \in Procs : snap[p].payload \subseteq saga.payload
    BY <1>0 DEF SnapshotInv, SnapshotCoherent
  <2>3. ASSUME NEW e \in Effect, effects'[e] > 0 PROVE Needs(e) \subseteq saga.payload
    <3>1. CASE effects'[e] = effects[e]
      BY <2>1, <2>3, <3>1
    <3>2. CASE effects'[e] # effects[e]
      <4>1. PICK p \in Procs, f \in Effect :
              Happens(f) /\ Needs(f) \subseteq snap[p].payload
        BY <3>2 DEF Acts
      <4>2. e = f
        BY <1>0, <3>2, <4>1 DEF Happens, TypeOK
      <4>3. QED
        BY <2>2, <4>1, <4>2
    <3>3. QED
      BY <3>1, <3>2
  <2>4. \A e \in Effect : effects'[e] > 0 => Needs(e) \subseteq saga'.payload
    BY <1>5, <2>3
  <2>5. /\ effects'["capture"] > 0 \/ effects'["stray_auth"] > 0 =>
             "policy_reason" \in saga'.payload
        /\ effects'["refund"] > 0 \/ effects'["clear"] > 0 => "capture_id" \in saga'.payload
    BY <2>4 DEF Needs, Effect
  <2>6. /\ effects'["sign"] > 0 => "kyt_reason" \in saga'.payload
        /\ effects'["broadcast"] > 0 => "signed_tx_hex" \in saga'.payload
        /\ effects'["post"] > 0 \/ effects'["monitor"] > 0 => "tx_hash" \in saga'.payload
    BY <2>4 DEF Needs, Effect
  <2>7. QED
    BY <2>5, <2>6 DEF EffectsFollowRecords, Effect
<1>7. Records'
  BY <1>0, <1>1, <1>4, <1>6, RecordsKept DEF Records
<1>8. QED
  BY <1>0, <1>1, <1>2, <1>3, <1>7 DEF RecordInv

\* The executor preserves the invariant.
LEMMA RecordNext ==
  ASSUME RecordInv, [Next]_vars
  PROVE  RecordInv' /\ EffectsKept /\ RecordStep
<1>1. SnapshotInv /\ SnapshotInv' /\ TypeOK
  BY SnapshotNext DEF RecordInv, SnapshotInv
<1>2. RecordStep /\ SnapshotStep
  BY <1>1, NextRecords, NextFrame
<1>3. UNCHANGED <<pc, snap, effects>> \/ \E p \in Procs : Acts(p)
  BY <1>1, NextActs DEF RecordInv
<1>4. QED
  BY <1>1, <1>2, <1>3, RecordInvKept

\* The rows CreateTx writes satisfy the invariant.
LEMMA RecordInit == Init => RecordInv
<1> SUFFICES ASSUME Init PROVE RecordInv
  OBVIOUS
<1>1. SnapshotInv
  BY SnapshotInit
<1>2. saga = InitialSaga /\ \A p \in Procs : snap[p] = InitialSaga
  BY DEF Init, CreateTx
<1>3. RowsWellFormed
  BY <1>2, InitialWellFormed DEF RowsWellFormed
<1>4. InsideStep
  BY DEF Init, InsideStep, Inside, StepLabel
<1>5. \A s \in Step : ~Passed(s)
  <2>1. saga.payload = {} /\ StepIndex(saga.step) = 1
    BY <1>2 DEF InitialSaga, StepIndex
  <2>2. ASSUME NEW s \in Step PROVE ~(StepIndex(s) < 1)
    <3>1. StepIndex(s) \in 1 .. 6
      BY StepFacts
    <3>2. QED
      BY <3>1
  <2>3. QED
    BY <2>1, <2>2 DEF Passed
<1>6. PayloadMatchesStep
  BY <1>3 DEF RowsWellFormed, WellFormed, PayloadMatchesStep
<1>7. EffectsFollowRecords
  BY DEF Init, EffectsFollowRecords
<1>8. RecordsFollowEffects /\ SucceededIsPassed
  <2>1. \A s \in Step, a \in Attempt : rows[<<s, a>>] # "SUCCEEDED"
    BY DEF Init, CreateTx
  <2>2. QED
    BY <1>5, <2>1 DEF RecordsFollowEffects, SucceededIsPassed
<1>9. OneEventPerStep
  <2>1. \A s \in Step, a \in Attempt : StepEvent(s, a) \notin outbox
    BY DEF Init, CreateTx, SagaEvent, StepEvent
  <2>2. QED
    BY <1>5, <2>1 DEF OneEventPerStep
<1>10. TransitionsHaveEvents
  BY <1>2 DEF TransitionsHaveEvents, InitialSaga, IsFailure
<1>11. QED
  BY <1>1, <1>3, <1>4, <1>6, <1>7, <1>8, <1>9, <1>10 DEF RecordInv, Records

\* The invariant holds of every behaviour of the executor.
LEMMA RecordInvariant == Spec => []RecordInv
<1>1. Init => RecordInv
  BY RecordInit
<1>2. RecordInv /\ [Next]_vars => RecordInv'
  BY RecordNext
<1>3. QED
  BY <1>1, <1>2, PTL DEF Spec

\* Whoever ran the steps and however often, the payload is exactly what the
\* steps before current_step have produced.
THEOREM PayloadExact == Spec => []PayloadMatchesStep
<1>1. RecordInv => PayloadMatchesStep
  BY DEF RecordInv, Records
<1>2. QED
  BY <1>1, RecordInvariant, PTL

\* No partner acts for a step before the results of the earlier ones are on
\* record.
THEOREM EffectsAfterRecords == Spec => []EffectsFollowRecords
<1>1. RecordInv => EffectsFollowRecords
  BY DEF RecordInv, Records
<1>2. QED
  BY <1>1, RecordInvariant, PTL

\* What is on record has been carried out by the partner of the step.
THEOREM RecordsAreTrue == Spec => []RecordsFollowEffects
<1>1. RecordInv => RecordsFollowEffects
  BY DEF RecordInv, Records
<1>2. QED
  BY <1>1, RecordInvariant, PTL

\* The SUCCEEDED rows that make runStepOnce skip a step are true.
THEOREM SkipsAreSafe == Spec => []SucceededIsPassed
<1>1. RecordInv => SucceededIsPassed
  BY DEF RecordInv, Records
<1>2. QED
  BY <1>1, RecordInvariant, PTL

\* Exactly one success event for each step the saga has passed.
THEOREM EventsExact == Spec => []OneEventPerStep
<1>1. RecordInv => OneEventPerStep
  BY DEF RecordInv, Records
<1>2. QED
  BY <1>1, RecordInvariant, PTL

\* Confirmation and failure are announced.
THEOREM TransitionsAnnounced == Spec => []TransitionsHaveEvents
<1>1. RecordInv => TransitionsHaveEvents
  BY DEF RecordInv, Records
<1>2. QED
  BY <1>1, RecordInvariant, PTL

-----------------------------------------------------------------------------
(* The confirmation poller, which races with the executor for the row.     *)

\* The row in the poller's hands is the stored one or an older version.
PollerInv ==
  /\ poller \in [pc: {"off", "load", "status", "loadTx", "save", "nil", "error"},
                 snap: SagaRow, snapTx: Nat \ {0}]
  /\ poller.snap.version <= saga.version
  /\ poller.snap.version = saga.version => poller.snap = saga
  /\ PollerTruthful

ClientsInv == RecordInv /\ PollerInv

\* A step of a client that only reads keeps the records.
LEMMA PollerOnlyKeeps ==
  ASSUME RecordInv, UNCHANGED vars
  PROVE  RecordInv'
  BY RecordNext

\* A poller that has no row in its hands agrees with the store.
LEMMA PollerIdleCoherent ==
  ASSUME RecordInv
  PROVE  /\ InitialSaga.version <= saga.version
         /\ InitialSaga.version = saga.version => InitialSaga = saga
<1>1. InitialSaga.version = 1 /\ saga.version \in Nat \ {0}
  BY DEF InitialSaga, RecordInv, SnapshotInv, TypeOK, StoreTypeOK, SagaRow
<1>2. QED
  BY <1>1 DEF RecordInv, SnapshotInv, FirstVersion

\* A saga that is broadcast, confirmed or completed has had its transaction
\* broadcast.
LEMMA BroadcastHappened ==
  ASSUME RecordInv, saga.state \in {"BROADCASTED", "CONFIRMED", "COMPLETED"}
  PROVE  effects["broadcast"] > 0
<1>1. saga \in SagaRow /\ WellFormed(saga) /\ RecordsFollowEffects
  BY DEF RecordInv, SnapshotInv, TypeOK, StoreTypeOK, RowsWellFormed, Records
<1>2. saga.step = "LEDGER"
  BY <1>1, BroadcastedAtLedger DEF WellFormed
<1>3. Passed("BROADCAST") /\ "BROADCAST" \in Step /\ StepEffect("BROADCAST") = "broadcast"
  BY <1>2 DEF Passed, StepIndex, Step, StepEffect
<1>4. QED
  BY <1>1, <1>3 DEF RecordsFollowEffects

\* The SQL transaction of the poller is one of the kinds of step.
LEMMA PollerSaveRecords ==
  ASSUME ClientsInv, PollerSave
  PROVE  RecordInv' /\ PollerInv'
<1> DEFINE new == Derived(poller.snap, "CONFIRMED", "LEDGER", {})
           evt == SagaEvent("transaction.confirmed")
<1>0. /\ RecordInv /\ PollerInv /\ TypeOK /\ SnapshotInv
      /\ saga \in SagaRow /\ saga.version \in Nat \ {0}
      /\ poller.snap \in SagaRow /\ poller.snap.version \in Nat \ {0}
  BY DEF ClientsInv, RecordInv, PollerInv, SnapshotInv, TypeOK, StoreTypeOK, SagaRow
<1>1. UNCHANGED <<rows, pc, snapTx, snap, att, idx, lease, queued, up, crashes, requests,
                  faults, effects>>
  BY DEF PollerSave, locals, cluster
<1>2. CASE PollerReturns("error") /\ UNCHANGED <<saga, tx, outbox>>
  <2>1. UNCHANGED vars
    BY <1>1, <1>2 DEF vars, store, locals, cluster
  <2>2. RecordInv'
    BY <1>0, <2>1, PollerOnlyKeeps
  <2>3. PollerInv'
    BY <1>0, <1>2, PollerIdleCoherent, InitialSagaType
       DEF PollerInv, PollerTruthful, PollerReturns, PollerIdle
  <2>4. QED
    BY <2>2, <2>3
<1>3. CASE /\ PollerReturns("nil") /\ StrictWrite(new, evt)
           /\ Transition(poller.snap.state, "CONFIRMED") /\ SaveMatches(new)
  <2>1. poller.snap.version = saga.version
    BY <1>0, <1>3 DEF SaveMatches, Derived
  <2>2. poller.snap = saga
    BY <1>0, <2>1 DEF PollerInv
  <2>3. /\ saga.state = "BROADCASTED" /\ saga.step = "LEDGER"
        /\ saga' = Derived(saga, "CONFIRMED", "LEDGER", {})
        /\ outbox' = outbox \cup {evt}
    <3>1. saga.state = "BROADCASTED"
      BY <1>3, <2>2, ConfirmedFrom
    <3>2. saga.step = "LEDGER"
      BY <1>0, <3>1, BroadcastedAtLedger DEF RecordInv, RowsWellFormed
    <3>3. QED
      BY <1>3, <2>2, <3>1, <3>2 DEF StrictWrite
  <2>4. RecordStep
    <3>1. \A s \in Step, a \in Attempt : evt # StepEvent(s, a)
      BY DEF SagaEvent, StepEvent
    <3>2. SavesConfirmed
      BY <1>1, <2>3, <3>1 DEF SavesConfirmed, NoStepRecorded
    <3>3. QED
      BY <2>3, <3>2 DEF RecordStep
  <2>5. TypeOK'
    <3>1. new \in SagaRow /\ evt \in Event
      BY <1>0, DerivedType, EventType DEF State, Step
    <3>2. StoreTypeOK'
      BY <1>0, <1>1, <1>3, <3>1, WriteType DEF TypeOK, StoreTypeOK
    <3>3. QED
      BY <1>0, <1>1, <3>2 DEF TypeOK
  <2>6. /\ saga'.version = saga.version + 1 /\ saga'.payload = saga.payload
        /\ saga'.step = saga.step
    BY <2>3 DEF Derived
  <2>7. SnapshotInv'
    <3>1. StepIndex(saga.step) \in 1 .. 6
      BY <1>0, StepFacts DEF SagaRow
    <3>2. SnapshotStep
      BY <1>1 DEF SnapshotStep
    <3>3. QED
      BY <1>0, <2>5, <2>6, <3>1, <3>2, SnapshotKept
  <2>8. RecordInv'
    BY <1>0, <1>1, <2>4, <2>7, RecordInvKept DEF SnapshotStep
  <2>9. PollerInv'
    <3>1. effects["broadcast"] > 0
      BY <1>0, <2>3, BroadcastHappened
    <3>2. PollerTruthful'
      BY <1>1, <2>3, <3>1 DEF PollerTruthful, SagaEvent
    <3>3. poller' = PollerIdle("nil")
      BY <1>3 DEF PollerReturns
    <3>4. /\ InitialSaga.version <= saga'.version
          /\ InitialSaga.version = saga'.version => InitialSaga = saga'
      BY <1>0, <2>6 DEF InitialSaga
    <3>5. QED
      BY <3>2, <3>3, <3>4, InitialSagaType DEF PollerInv, PollerIdle
  <2>10. QED
    BY <2>8, <2>9
<1>4. QED
  BY <1>2, <1>3 DEF PollerSave, StrictCommits

\* The other steps of the poller only read.
LEMMA PollerReads ==
  ASSUME ClientsInv, PollerStart \/ PollerLoad \/ PollerStatus \/ PollerLoadTx
  PROVE  RecordInv' /\ PollerInv'
<1>0. /\ RecordInv /\ PollerInv /\ UNCHANGED vars
      /\ saga \in SagaRow /\ saga.version \in Nat \ {0} /\ tx.version \in Nat \ {0}
  BY DEF ClientsInv, RecordInv, SnapshotInv, TypeOK, StoreTypeOK, SagaRow,
         PollerStart, PollerLoad, PollerStatus, PollerLoadTx, PollerOnly
<1>1. RecordInv' /\ UNCHANGED <<saga, outbox, effects>>
  BY <1>0, PollerOnlyKeeps DEF vars, store
<1>2. ASSUME NEW l \in {"load", "error", "nil"}, poller' = PollerIdle(l),
             l = "nil" => /\ SagaEvent("transaction.confirmed") \in outbox
                          /\ effects["broadcast"] > 0
      PROVE  PollerInv'
  <2>1. /\ poller'.pc = l /\ poller'.snap = InitialSaga
        /\ poller' \in [pc: {"off", "load", "status", "loadTx", "save", "nil", "error"},
                        snap: SagaRow, snapTx: Nat \ {0}]
    BY <1>2, InitialSagaType DEF PollerIdle
  <2>2. PollerTruthful'
    BY <1>1, <1>2, <2>1 DEF PollerTruthful, SagaEvent
  <2>3. QED
    BY <1>0, <1>1, <2>1, <2>2, PollerIdleCoherent DEF PollerInv
<1>3. CASE PollerStart \/ PollerLoadTx
  BY <1>0, <1>1, <1>3
     DEF PollerStart, PollerLoadTx, Poller, PollerInv, PollerTruthful
<1>4. CASE PollerStatus
  <2>1. CASE Poller("loadTx")
    BY <1>0, <1>1, <2>1 DEF Poller, PollerInv, PollerTruthful
  <2>2. QED
    BY <1>1, <1>2, <1>4, <2>1 DEF PollerStatus, PollerReturns
<1>5. CASE PollerLoad
  <2>1. CASE saga.state \in {"CONFIRMED", "LEDGERED", "COMPLETED"}
    <3>1. saga.state # "LEDGERED"
      <4>1. WellFormed(saga) /\ saga.step \in Step
        BY <1>0 DEF RecordInv, RowsWellFormed, SagaRow
      <4>2. "LEDGERED" \notin StatesAt(saga.step) /\ ~Terminal("LEDGERED")
        BY <4>1 DEF StatesAt, Step, Terminal, IsFailure
      <4>3. QED
        BY <4>1, <4>2 DEF WellFormed
    <3>2. SagaEvent("transaction.confirmed") \in outbox /\ effects["broadcast"] > 0
      BY <1>0, <2>1, <3>1, BroadcastHappened DEF RecordInv, Records, TransitionsHaveEvents
    <3>3. poller' = PollerIdle("nil")
      BY <1>5, <2>1 DEF PollerLoad, PollerReturns
    <3>4. QED
      BY <1>1, <1>2, <3>2, <3>3
  <2>2. CASE saga.state \notin {"CONFIRMED", "LEDGERED", "COMPLETED"}
    <3>1. \/ poller' = [poller EXCEPT !.pc = "status", !.snap = saga]
          \/ poller' = PollerIdle("error")
      BY <1>5, <2>2 DEF PollerLoad, PollerReturns
    <3>2. CASE poller' = [poller EXCEPT !.pc = "status", !.snap = saga]
      <4>1. /\ poller'.snap = saga /\ poller'.pc = "status"
            /\ poller' \in [pc: {"off", "load", "status", "loadTx", "save", "nil", "error"},
                            snap: SagaRow, snapTx: Nat \ {0}]
        BY <1>0, <3>2 DEF PollerInv
      <4>2. QED
        BY <1>0, <1>1, <4>1 DEF PollerInv, PollerTruthful
    <3>3. QED
      BY <1>1, <1>2, <3>1, <3>2
  <2>3. QED
    BY <2>1, <2>2
<1>6. QED
  BY <1>1, <1>3, <1>4, <1>5

\* The executor and its clients preserve the invariant.
LEMMA ClientsNextInv == ClientsInv /\ [ClientsNext]_cvars => ClientsInv'
<1> SUFFICES ASSUME ClientsInv, [ClientsNext]_cvars PROVE ClientsInv'
  OBVIOUS
<1>1. CASE [Next]_vars /\ UNCHANGED poller
  <2>1. RecordInv' /\ EffectsKept /\ RecordStep
    BY <1>1, RecordNext DEF ClientsInv
  <2>2. \/ UNCHANGED saga
        \/ saga'.version = saga.version + 1
    BY <2>1 DEF RecordStep, SavesSuccess, SavesConfirmed, SavesFailure, AfterSuccess,
                Derived
  <2>3. /\ saga.version \in Nat /\ saga'.version \in Nat
        /\ poller.snap.version \in Nat
    BY <2>1 DEF ClientsInv, RecordInv, PollerInv, SnapshotInv, TypeOK, StoreTypeOK,
                SagaRow
  <2>4. PollerTruthful'
    <3>1. outbox \subseteq outbox' /\ (effects["broadcast"] > 0 => effects'["broadcast"] > 0)
      BY <2>1 DEF RecordStep, EffectsKept, Effect
    <3>2. QED
      BY <1>1, <3>1 DEF ClientsInv, PollerInv, PollerTruthful, SagaEvent
  <2>5. QED
    BY <1>1, <2>1, <2>2, <2>3, <2>4 DEF ClientsInv, PollerInv
<1>2. CASE PollerRun
  BY <1>2, PollerSaveRecords, PollerReads DEF PollerRun, ClientsInv
<1>3. CASE handleGet \/ UNCHANGED cvars
  <2>1. [Next]_vars /\ UNCHANGED poller
    BY <1>3 DEF handleGet, cvars, clients
  <2>2. QED
    BY <1>1, <2>1
<1>4. QED
  BY <1>1, <1>2, <1>3 DEF ClientsNext, clients

\* Racing with any number of replicas and operators, the poller reports
\* success only for a transaction that was broadcast and announced.
THEOREM PollerIsTruthful == ClientsSpec => []PollerTruthful
<1>1. ClientsInit => ClientsInv
  <2> SUFFICES ASSUME ClientsInit PROVE ClientsInv
    OBVIOUS
  <2>1. RecordInv
    BY RecordInit DEF ClientsInit
  <2>2. PollerInv
    BY <2>1, PollerIdleCoherent, InitialSagaType
       DEF ClientsInit, PollerIdle, PollerInv, PollerTruthful
  <2>3. QED
    BY <2>1, <2>2 DEF ClientsInv
<1>2. ClientsInv /\ [ClientsNext]_cvars => ClientsInv'
  BY ClientsNextInv
<1>3. ClientsInv => PollerTruthful
  BY DEF ClientsInv, PollerInv
<1>4. QED
  BY <1>1, <1>2, <1>3, PTL DEF ClientsSpec
=============================================================================
