------------------------------ MODULE SagaStore ------------------------------
(***************************************************************************)
(* The rows the store keeps for ONE transaction (every operation of the    *)
(* executor touches the rows of one tx_id) and the store operations, with  *)
(* the Postgres semantics of internal/store/pg.go: RunInTx is one atomic   *)
(* serializable step; a compare-and-swap that matches no row reports       *)
(* ErrConflict and leaves the SQL transaction usable; a duplicate outbox   *)
(* dedup_key aborts the whole SQL transaction, even where the caller       *)
(* ignores the error of AppendOutbox, because the final Commit then fails. *)
(***************************************************************************)
EXTENDS StateMachine

CONSTANT MaxRetries        \* MAX_RETRIES: attempts of one step in one run

ASSUME MaxRetriesAssumption == MaxRetries \in Nat \ {0}

VARIABLES
  tx,       \* the transactions row: [status, version]
  saga,     \* the saga_state row: [state, step, payload, version]
  rows,     \* transaction_steps: status of row (step, attempt)
  outbox    \* the outbox_events ever inserted, by dedup key

Attempt == 1 .. MaxRetries

StepStatus == {"PENDING", "RUNNING", "SUCCEEDED", "FAILED", "COMPENSATING",
               "COMPENSATED"}

SagaRow == [state: State, step: Step, payload: SUBSET PayloadKey,
            version: Nat \ {0}]

\* An outbox event; step "" and attempt 0 for the events of the whole saga.
StepEvent(s, a) == [type |-> "step.succeeded", step |-> s, attempt |-> a]
TerminalEvent(state, s, a) == [type |-> state, step |-> s, attempt |-> a]
SagaEvent(type) == [type |-> type, step |-> "", attempt |-> 0]

Event == [type: {"transaction.created", "transaction.confirmed",
                 "step.succeeded", "FAILED_COMPENSATED", "FAILED"},
          step: Step \cup {""}, attempt: 0 .. MaxRetries]

StoreTypeOK ==
  /\ tx \in [status: State, version: Nat \ {0}]
  /\ saga \in SagaRow
  /\ rows \in [Step \X Attempt -> StepStatus \cup {"ABSENT"}]
  /\ outbox \in SUBSET Event

\* The saga row handleCreate inserts.
InitialSaga == [state |-> "CREATED", step |-> "POLICY", payload |-> {},
                version |-> 1]

\* What CreateTx writes: the transaction, its saga row, a PENDING attempt-1
\* row for each step, and the transaction.created event.
CreateTx ==
  /\ tx = [status |-> "CREATED", version |-> 1]
  /\ saga = InitialSaga
  /\ rows = [k \in Step \X Attempt |-> IF k[2] = 1 THEN "PENDING" ELSE "ABSENT"]
  /\ outbox = {SagaEvent("transaction.created")}

-----------------------------------------------------------------------------
\* The row a process derives from its snapshot sg and wants to save.
Derived(sg, state, step, keys) ==
  [state |-> state, step |-> step, payload |-> sg.payload \cup keys,
   version |-> sg.version + 1]

UpdateStep(s, a, status) == [rows EXCEPT ![<<s, a>>] = status]

\* Defect: the UPDATE of saga_state without "AND version = ...".
SaveMatchesAlways(new) == new.version > 0

\* SaveSagaState(new) matches the row: nobody saved since new was derived.
SaveMatches(new) == saga.version = new.version - 1

\* UpdateTransactionStatus(.., version) matches the row.
StatusMatches(version) == tx.version = version

Status(state) == [status |-> state, version |-> tx.version + 1]

\* Defect: the result of SaveSagaState is not checked.
StrictCommitsUnversioned(new, version, evt) == evt \notin outbox

\* A SQL transaction in which each error is returned: it commits only when
\* both compare-and-swaps match and the event is new.
StrictCommits(new, version, evt) ==
  /\ SaveMatches(new)
  /\ StatusMatches(version)
  /\ evt \notin outbox

\* Defect: the event is not part of the SQL transaction and gets lost.
StrictWriteNoEvent(new, evt) ==
  saga' = new /\ tx' = Status(new.state) /\ UNCHANGED outbox

\* Defect: the status column is left alone.
StrictWriteNoStatus(new, evt) ==
  /\ saga' = new
  /\ tx' = [tx EXCEPT !.version = @ + 1]
  /\ outbox' = outbox \cup {evt}

StrictWrite(new, evt) ==
  /\ saga' = new
  /\ tx' = Status(new.state)
  /\ outbox' = outbox \cup {evt}

\* Defect: the terminal event is forgotten.
LaxWriteNoEvent(new, version, evt) ==
  /\ saga' = IF SaveMatches(new) THEN new ELSE saga
  /\ tx' = IF StatusMatches(version) THEN Status(new.state) ELSE tx
  /\ UNCHANGED outbox

\* A SQL transaction that ignores the errors of its compare-and-swaps: each
\* of them applies or not on its own; a duplicate event undoes all of it.
LaxWrite(new, version, evt) ==
  IF evt \in outbox
  THEN UNCHANGED <<saga, tx, outbox>>
  ELSE /\ saga' = IF SaveMatches(new) THEN new ELSE saga
       /\ tx' = IF StatusMatches(version) THEN Status(new.state) ELSE tx
       /\ outbox' = outbox \cup {evt}

\* ListInflightSagaIDs returns this transaction.
Inflight == ~Terminal(saga.state)
=============================================================================
