---------------------------- MODULE MCOutboxRelay ----------------------------
(* The relays for TLC: events of two transactions, interleaved.            *)
EXTENDS OutboxRelay
CONSTANTS q1, q2
OneRelay == {q1}
TwoRelays == {q1, q2}
NoFault == {}
AllFaults == FaultKind
BusFaults == {"bus"}
TwoTxs == [e \in Event |-> e % 2]
=============================================================================
