--------------------------- MODULE SagaProperties ---------------------------
(***************************************************************************)
(* The correctness properties of the saga executor.                        *)
(***************************************************************************)
EXTENDS SagaExecutor, FiniteSets

-----------------------------------------------------------------------------
(* Safety with any number of replicas and operators.                       *)

\* Step s is behind the saga: its result is on record.
Passed(s) ==
  \/ StepIndex(s) < StepIndex(saga.step)
  \/ s = "LEDGER" /\ "ledger_journal_id" \in saga.payload

\* The keys on record once the steps before position i have succeeded.
RecordedBefore(i) == UNION {PayloadMerge(s) : s \in {t \in Step : StepIndex(t) < i}}

\* A process works on a saga row that existed: its snapshot is the current
\* row or an older version with no more steps done and no more keys in its
\* payload.  (Run and compensateCascade keep the row across many calls.)
SnapshotCoherent ==
  \A p \in Procs :
    /\ snap[p].version <= saga.version
    /\ snap[p].version = saga.version => snap[p] = saga
    /\ snap[p].payload \subseteq saga.payload
    /\ StepIndex(snap[p].step) <= StepIndex(saga.step)

\* The payload on record is exactly what the steps before current_step have
\* produced, whoever ran them and however often: current_step and state
\* never run ahead of the ids that compensation and later steps read.
PayloadMatchesStep ==
  /\ RecordedBefore(StepIndex(saga.step)) \subseteq saga.payload
  /\ ~Terminal(saga.state) => saga.payload = RecordedBefore(StepIndex(saga.step))
  /\ saga.state = "COMPLETED" => saga.payload = RecordedBefore(7)

\* No partner acts for a step before the results of the earlier steps are
\* durably on record: no capture before the policy verdict is saved, no
\* signature or broadcast before the capture_id a refund needs is saved, no
\* posting before the tx_hash is saved; a refund is for a recorded capture.
EffectsFollowRecords ==
  \A e \in Effect : effects[e] > 0 =>
    CASE e = "allow"     -> TRUE
      [] e \in {"capture", "stray_auth"} -> "policy_reason" \in saga.payload
      [] e \in {"refund", "clear"}       -> "capture_id" \in saga.payload
      [] e = "sign"      -> "kyt_reason" \in saga.payload
      [] e = "broadcast" -> "signed_tx_hex" \in saga.payload
      [] e \in {"post", "monitor"}       -> "tx_hash" \in saga.payload

\* The effect that lets the saga past step s.
StepEffect(s) ==
  CASE s = "POLICY" -> "allow" [] s = "PAYMENT" -> "capture"
    [] s = "KYT" -> "clear" [] s = "MPC_SIGN" -> "sign"
    [] s = "BROADCAST" -> "broadcast" [] s = "LEDGER" -> "post"

\* What is on record has happened: a saga past a step was let through by the
\* partner of that step (so a COMPLETED one was screened, paid, signed,
\* broadcast and posted), whichever replica made the call.
RecordsFollowEffects == \A s \in Step : Passed(s) => effects[StepEffect(s)] > 0

\* A SUCCEEDED row, which makes runStepOnce skip the step, exists only for a
\* step whose result is on record: skipping never loses a step, and a run
\* that skips finds the saga ahead of it when it loads it again.
SucceededIsPassed ==
  \A s \in Step, a \in Attempt : rows[<<s, a>>] = "SUCCEEDED" => Passed(s)

\* Consumers see exactly one success event for each step the saga has
\* passed and none for the others, although stale replicas repeat steps.
OneEventPerStep ==
  \A s \in Step :
    LET evts == {a \in Attempt : StepEvent(s, a) \in outbox}
    IN  IF Passed(s) THEN \E a \in Attempt : evts = {a} ELSE evts = {}

\* Every transition outside the steps has its event: confirmation and both
\* failure states.
TransitionsHaveEvents ==
  /\ saga.state \in {"CONFIRMED", "COMPLETED"} =>
       SagaEvent("transaction.confirmed") \in outbox
  /\ IsFailure(saga.state) => \E e \in outbox : e.type = saga.state

\* The saga row is never overwritten with an outdated one: each save adds
\* one to the version, keeps every recorded key and never moves the saga
\* back to an earlier step.
NoLostUpdate ==
  [][saga' # saga =>
       /\ saga'.version = saga.version + 1
       /\ saga.payload \subseteq saga'.payload
       /\ StepIndex(saga.step) <= StepIndex(saga'.step)]_vars

-----------------------------------------------------------------------------
(* Safety that depends on the lease.                                       *)

\* Two replicas are never inside the same step: the lease gives
\* single-flight step execution, also across a crash of the holder.
SingleFlight ==
  \A r, q \in Replicas :
    pc[r] \in StepLabel /\ pc[q] \in StepLabel => r = q

-----------------------------------------------------------------------------
(* Safety of one replica that crashes and recovers, with no operator.      *)

\* A saga that reports failed_compensated has given back what it recorded
\* as captured.
CaptureRefunded ==
  saga.state = "FAILED_COMPENSATED" /\ "capture_id" \in saga.payload
    => effects["refund"] > 0

\* A payment is refunded after a recorded broadcast only once monitoring of
\* the on-chain transaction has been asked for.
MonitoredRefund ==
  [][effects'["refund"] # effects["refund"] /\ "tx_hash" \in saga.payload
       => effects["monitor"] > 0]_vars

\* Money moves, and a transaction is signed or broadcast, a second time only
\* after something went wrong: a lost reply, a failed store or partner call,
\* or a crash.  Each attempt has an idempotency key of its own, so nothing but
\* the records of the saga keeps a step from being repeated.  (A posting is
\* repeated without any failure, as long as the broadcast is unconfirmed.)
RepeatsExplained ==
  \A e \in {"capture", "refund", "sign", "broadcast"} :
    effects[e] > 1 => faults + crashes > 0

\* The executor implements the life cycle its clients are promised.
Lifecycle == INSTANCE SagaLifecycle WITH
  state <- saga.state, status <- tx.status, events <- Cardinality(outbox)

LifecycleSpec == Lifecycle!Spec

\* A recovered saga reaches a terminal state: no in-flight saga is lost by a
\* crash, and no retry, lease or confirmation wait goes on for ever.
ReachesTerminal == <>Terminal(saga.state)

-----------------------------------------------------------------------------
(* What the documentation, comments and tests say of the program and the   *)
(* code does not do: each has a configuration in which TLC refutes it.     *)

\* "Ledger failure post-broadcast does NOT refund": once a tx_hash is on
\* record the payment is kept.
NoRefundOnceBroadcast == ~("tx_hash" \in saga.payload /\ effects["refund"] > 0)

\* "a tx is never broadcast twice".
BroadcastOnce == effects["broadcast"] <= 1

\* "Refund is called exactly once" for a saga that is compensated.
RefundOnce == effects["refund"] <= 1

\* "Atomic end-to-end transaction flow with compensation": a saga is not
\* both compensated and completed.
CompletedKeepsPayment == saga.state = "COMPLETED" => effects["refund"] = 0

\* "if captured, refund payment": also when the answer to Capture was lost.
CaptureGivenBack ==
  saga.state = "FAILED_COMPENSATED" /\ effects["capture"] > 0
    => effects["refund"] > 0

\* "persist auth_id so compensate can void": a failed_compensated saga
\* leaves no authorization open.
NoStrayAuthorization ==
  saga.state = "FAILED_COMPENSATED" => effects["stray_auth"] = 0

\* "Both StateFailedCompensated and StateFailed are terminal and cannot be
\* left".
FailureIsFinal ==
  [][IsFailure(saga.state) => saga'.state = saga.state]_vars

\* An event that announces a failure is written with the transition to it.
FailureEventsAreTrue ==
  (\E e \in outbox : e.type \in {"FAILED_COMPENSATED", "FAILED"})
    => IsFailure(saga.state)

\* "Two orchestrator replicas cannot execute the same tx concurrently".
OneReplicaAtWork ==
  \A r, q \in Replicas :
    pc[r] \in StepLabel /\ pc[q] \in CascadeLabel => r = q
=============================================================================
