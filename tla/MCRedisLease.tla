---------------------------- MODULE MCRedisLease ----------------------------
(* The lease for TLC.                                                      *)
EXTENDS RedisLease
CONSTANTS w1, w2, w3
TwoOwners == {w1, w2}
ThreeOwners == {w1, w2, w3}
NoFault == {}
AllFaults == FaultKind
ReadFaults == {"get"}
=============================================================================
