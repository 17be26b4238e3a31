---------------------------- MODULE StateMachine ----------------------------
(***************************************************************************)
(* The saga state machine of internal/statemachine: the states of a        *)
(* transaction, the six steps that move it forward, the table of legal     *)
(* moves, and the keys each step records in the saga payload.              *)
(***************************************************************************)
EXTENDS Integers

Step == {"POLICY", "PAYMENT", "KYT", "MPC_SIGN", "BROADCAST", "LEDGER"}

State == {"CREATED", "POLICY_CHECKED", "PAYMENT_CAPTURED", "KYT_SCREENED",
          "SIGNED", "BROADCASTED", "CONFIRMED", "LEDGERED", "COMPLETED",
          "FAILED_COMPENSATED", "FAILED"}

IsFailure(s) == s \in {"FAILED_COMPENSATED", "FAILED"}

Terminal(s) == s = "COMPLETED" \/ IsFailure(s)

\* Position of a step in StepOrder.
StepIndex(s) ==
  CASE s = "POLICY" -> 1 [] s = "PAYMENT" -> 2 [] s = "KYT" -> 3
    [] s = "MPC_SIGN" -> 4 [] s = "BROADCAST" -> 5 [] s = "LEDGER" -> 6

\* The step at position i of StepOrder.
StepOrder(i) ==
  CASE i = 1 -> "POLICY" [] i = 2 -> "PAYMENT" [] i = 3 -> "KYT"
    [] i = 4 -> "MPC_SIGN" [] i = 5 -> "BROADCAST" [] i = 6 -> "LEDGER"

\* Defect: the step after payment is taken to be signing.
StepAfterSkipsKyt(s) ==
  CASE s = "LEDGER" -> s [] s = "PAYMENT" -> "MPC_SIGN"
    [] OTHER -> StepOrder(StepIndex(s) + 1)

\* The current_step a saga is left with when step s succeeds: the following
\* step, or s itself when it is the last one.
StepAfter(s) == IF s = "LEDGER" THEN s ELSE StepOrder(StepIndex(s) + 1)

StateForStep(s) ==
  CASE s = "POLICY" -> "POLICY_CHECKED" [] s = "PAYMENT" -> "PAYMENT_CAPTURED"
    [] s = "KYT" -> "KYT_SCREENED" [] s = "MPC_SIGN" -> "SIGNED"
    [] s = "BROADCAST" -> "BROADCASTED" [] s = "LEDGER" -> "LEDGERED"

\* The happy-path table; "" where no forward move exists.
forward(s) ==
  CASE s = "CREATED" -> "POLICY_CHECKED"
    [] s = "POLICY_CHECKED" -> "PAYMENT_CAPTURED"
    [] s = "PAYMENT_CAPTURED" -> "KYT_SCREENED"
    [] s = "KYT_SCREENED" -> "SIGNED"
    [] s = "SIGNED" -> "BROADCASTED"
    [] s = "BROADCASTED" -> "CONFIRMED"
    [] s = "CONFIRMED" -> "LEDGERED"
    [] s = "LEDGERED" -> "COMPLETED"
    [] OTHER -> ""

\* Transition(cur, nxt) returns no error.
Transition(cur, nxt) ==
  /\ ~Terminal(cur)
  /\ IsFailure(nxt) \/ nxt = forward(cur)

\* validatePath(from, mid, to) returns no error: one legal hop, or two.
validatePath(from, mid, to) ==
  \/ from = to
  \/ mid \in {from, to} /\ Transition(from, to)
  \/ mid \notin {from, to} /\ Transition(from, mid) /\ Transition(mid, to)

-----------------------------------------------------------------------------
PayloadKey == {"policy_reason", "auth_id", "capture_id", "kyt_reason",
               "signed_tx_hex", "tx_hash", "ledger_journal_id",
               "ledger_reconcile_required"}

\* What a successful Execute of step s merges into the saga payload.
PayloadMerge(s) ==
  CASE s = "POLICY" -> {"policy_reason"}
    [] s = "PAYMENT" -> {"auth_id", "capture_id"}
    [] s = "KYT" -> {"kyt_reason"}
    [] s = "MPC_SIGN" -> {"signed_tx_hex"}
    [] s = "BROADCAST" -> {"tx_hash"}
    [] s = "LEDGER" -> {"ledger_journal_id"}

\* What a terminal result of step s merges: only a policy denial and a
\* permanent ledger failure produce one.
TerminalMerge(s) ==
  IF s = "POLICY" THEN {"policy_reason"} ELSE {"ledger_reconcile_required"}

TerminalState(s) == IF s = "POLICY" THEN "FAILED_COMPENSATED" ELSE "FAILED"
=============================================================================
