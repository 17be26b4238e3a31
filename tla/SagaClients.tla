----------------------------- MODULE SagaClients -----------------------------
(***************************************************************************)
(* The executor together with the clients that look at its saga while it   *)
(* runs: the confirmation poller (internal/saga/confirm_poller.go), which  *)
(* may confirm the saga in the executor's place; and the request that      *)
(* shows a transaction (GET /v1/transactions/{id}), which reads its three  *)
(* tables one after the other.                                             *)
(***************************************************************************)
EXTENDS SagaProperties

CONSTANT Clients    \* the clients at work, a subset of {"poller", "reader"}

ASSUME ClientsAssumption == Clients \subseteq {"poller", "reader"}

VARIABLES
  poller,   \* the poller: [pc, snap, snapTx]
  response  \* the answer to GET under construction: [reads, status, ...]

clients == <<poller, response>>
cvars == <<vars, clients>>

NoResponse == [reads |-> 0, status |-> "CREATED", state |-> "CREATED",
               step |-> "POLICY", rows |-> [k \in Step \X Attempt |-> "ABSENT"]]

\* The poller with no row in its hands.
PollerIdle(l) == [pc |-> l, snap |-> InitialSaga, snapTx |-> 1]

ClientsInit ==
  /\ Init
  /\ poller = PollerIdle("off")
  /\ response = NoResponse

-----------------------------------------------------------------------------
(* ConfirmPoller.Run and persistConfirmed, called once.                    *)

PollerReturns(l) == poller' = PollerIdle(l)
Poller(l) == poller' = [poller EXCEPT !.pc = l]
PollerOnly == UNCHANGED <<vars, response>>

PollerStart == poller.pc = "off" /\ Poller("load") /\ PollerOnly

\* A saga that is confirmed already needs nothing; one that is not
\* broadcast is refused.
PollerLoad ==
  /\ poller.pc = "load"
  /\ CASE saga.state \in {"CONFIRMED", "LEDGERED", "COMPLETED"} -> PollerReturns("nil")
       [] saga.state = "BROADCASTED" /\ "tx_hash" \in saga.payload ->
            poller' = [poller EXCEPT !.pc = "status", !.snap = saga]
       [] OTHER -> PollerReturns("error")
  /\ PollerOnly

\* Confirmed; or not yet: wait for the next tick, or give up.
PollerStatus ==
  /\ poller.pc = "status"
  /\ Poller("loadTx") \/ PollerReturns("load") \/ PollerReturns("error")
  /\ PollerOnly

PollerLoadTx ==
  /\ poller.pc = "loadTx"
  /\ poller' = [poller EXCEPT !.pc = "save", !.snapTx = tx.version]
  /\ PollerOnly

\* Defect: a conflict is ignored, as if somebody else had confirmed.
PollerSaveIgnoresConflict ==
  LET new == Derived(poller.snap, "CONFIRMED", "LEDGER", {})
      evt == SagaEvent("transaction.confirmed")
  IN  /\ poller.pc = "save"
      /\ PollerReturns("nil")
      /\ IF StrictCommits(new, poller.snapTx, evt)
         THEN StrictWrite(new, evt)
         ELSE UNCHANGED <<saga, tx, outbox>>
      /\ UNCHANGED <<rows, pc, locals, lease, cluster, faults, effects, response>>

PollerSave ==
  LET new == Derived(poller.snap, "CONFIRMED", "LEDGER", {})
      evt == SagaEvent("transaction.confirmed")
  IN  /\ poller.pc = "save"
      /\ IF /\ Transition(poller.snap.state, "CONFIRMED")
            /\ StrictCommits(new, poller.snapTx, evt)
         THEN PollerReturns("nil") /\ StrictWrite(new, evt)
         ELSE PollerReturns("error") /\ UNCHANGED <<saga, tx, outbox>>
      /\ UNCHANGED <<rows, pc, locals, lease, cluster, faults, effects, response>>

PollerRun ==
  PollerStart \/ PollerLoad \/ PollerStatus \/ PollerLoadTx \/ PollerSave

-----------------------------------------------------------------------------
(* handleGet: three reads, with anything in between.  (handleSteps makes   *)
(* the first and the last.)                                                *)

\* Defect: the step history is read before the saga.
ReadOrderStepsFirst == <<"tx", "steps", "saga">>

\* LoadTx, LoadSagaState, ListSteps.
ReadOrder == <<"tx", "saga", "steps">>

\* The response with what its next read finds.
Read ==
  LET r == [response EXCEPT !.reads = @ + 1]
      table == ReadOrder[response.reads + 1]
  IN  CASE table = "tx" -> [r EXCEPT !.status = tx.status]
        [] table = "saga" -> [r EXCEPT !.state = saga.state, !.step = saga.step]
        [] table = "steps" -> [r EXCEPT !.rows = rows]

\* The last read sends the response, and another request may follow.
handleGet ==
  /\ response' = IF response.reads = 2 THEN NoResponse ELSE Read
  /\ UNCHANGED <<vars, poller>>

ClientsNext ==
  \/ Next /\ UNCHANGED clients
  \/ "poller" \in Clients /\ PollerRun
  \/ "reader" \in Clients /\ handleGet

ClientsSpec == ClientsInit /\ [][ClientsNext]_cvars

-----------------------------------------------------------------------------
(* Properties of one replica that crashes and recovers, with no operator.  *)

\* The states in the order of the forward table.
Rank(s) ==
  CASE s = "CREATED" -> 0 [] s = "POLICY_CHECKED" -> 1
    [] s = "PAYMENT_CAPTURED" -> 2 [] s = "KYT_SCREENED" -> 3
    [] s = "SIGNED" -> 4 [] s = "BROADCASTED" -> 5 [] s = "CONFIRMED" -> 6
    [] s = "LEDGERED" -> 7 [] OTHER -> 8

\* What the client can make sense of: the state is the status or one that
\* follows it, each step before current_step is listed as over, and a
\* completed transaction is shown with six steps that have succeeded (or,
\* when a crash has cut a cascade short, with the marks it left on them).
Coherent(r) ==
  LET Shown(s, set) == \E a \in Attempt : r.rows[<<s, a>>] \in set
      marks == {"COMPENSATING", "COMPENSATED", "FAILED"}
  IN  /\ \/ r.state = r.status
         \/ ~Terminal(r.status) /\ Rank(r.status) < Rank(r.state)
      /\ \A s \in Step : StepIndex(s) < StepIndex(r.step) =>
           Shown(s, {"SUCCEEDED"} \cup marks)
      /\ r.state = "COMPLETED" =>
           \A s \in Step :
             Shown(s, {"SUCCEEDED"} \cup IF crashes = 0 THEN {} ELSE marks)

\* The answer to GET is put together from three reads at three times, while
\* the executor moves on, crashes or compensates: it is coherent all the same.
\* (Only a confirmation of the poller can spoil it: the executor's cascade
\* then loses the saga row and still writes its failure as the status.)
ResponseCoherent ==
  [][response.reads = 2 /\ response' # response /\ poller.pc # "nil"
       => Coherent(Read)]_cvars

\* The poller answers nil only for a transaction that is broadcast and whose
\* confirmation has been announced, by itself or by the executor, whichever
\* of them won the race for the saga row.
PollerTruthful ==
  poller.pc = "nil" =>
    /\ SagaEvent("transaction.confirmed") \in outbox
    /\ effects["broadcast"] > 0
=============================================================================
