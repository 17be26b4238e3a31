---------------------------- MODULE MCSagaClients ----------------------------
(* The executor with its clients for TLC.                                  *)
EXTENDS SagaClients, TLC
CONSTANT r1
OneReplica == {r1}
NoOperator == {}
ReportedFaults == FaultKind \ {"ack"}
Everybody == {"poller", "reader"}
=============================================================================
