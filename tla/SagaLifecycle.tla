---------------------------- MODULE SagaLifecycle ----------------------------
(***************************************************************************)
(* What the orchestrator promises its clients about one transaction        *)
(* (README, "Per-tx state machine" and "Outbox + Event Bus"): its state    *)
(* follows the forward table or fails; the status that the API reports     *)
(* changes with it; every change is accompanied by one outbox event; a     *)
(* terminal state is final.                                                *)
(***************************************************************************)
EXTENDS StateMachine

VARIABLES
  state,    \* state of the saga
  status,   \* status of the transaction
  events    \* number of outbox events

vars == <<state, status, events>>

Init == state = "CREATED" /\ status = "CREATED" /\ events = 1

Move(to) == state' = to /\ status' = to /\ events' = events + 1

\* One hop of the forward table.
Advance ==
  /\ state \in {"CREATED", "POLICY_CHECKED", "PAYMENT_CAPTURED",
                "KYT_SCREENED", "SIGNED", "BROADCASTED"}
  /\ Move(forward(state))

\* The ledger step passes through LEDGERED within one SQL transaction.
Settle == state = "CONFIRMED" /\ Move("COMPLETED")

Fail ==
  /\ ~Terminal(state)
  /\ \E to \in {"FAILED_COMPENSATED", "FAILED"} : Move(to)

Next == Advance \/ Settle \/ Fail

Spec == Init /\ [][Next]_vars
=============================================================================
