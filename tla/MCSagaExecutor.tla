--------------------------- MODULE MCSagaExecutor ---------------------------
(* The executor for TLC: small sets of replicas and operators.             *)
EXTENDS SagaProperties, TLC
CONSTANTS r1, r2, o1
OneReplica == {r1}
TwoReplicas == {r1, r2}
NoOperator == {}
OneOperator == {o1}
NoFault == {}
OperatorFaults == {"abort", "ack"}
LostReplies == {"reply"}
Transients == {"transient"}
CallFaults == {"transient", "reply", "ack"}
ReportedFaults == FaultKind \ {"ack"}
Symmetric == Permutations(TwoReplicas)
=============================================================================
