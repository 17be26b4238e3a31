----------------------------- MODULE MCProcess -----------------------------
(* One process and its transactions for TLC.                               *)
EXTENDS Process
CONSTANTS t1, t2, c1
OneCaller == {c1}
OneTx == {t1}
TwoTxs == {t1, t2}
FirstPartition == [t \in TwoTxs |-> 1]

AllOk == [p \in GrpcPartner |-> "ok"]
AllUnset == [p \in GrpcPartner |-> "unset"]
\* No URL at all, one missing, one malformed.
BadUrls == {AllUnset} \cup {[AllOk EXCEPT !["mpc"] = u] : u \in {"unset", "malformed"}}

Complete ==
  [dev |-> FALSE, stub |-> FALSE, secret |-> TRUE, db |-> TRUE, redis |-> TRUE,
   bus |-> "kafka", rest |-> FALSE, url |-> AllOk, tls |-> "good"]

\* Production: complete, and without a secret.
Production == {Complete, [Complete EXCEPT !.secret = FALSE]}

\* Production with something missing, of every kind: none of them starts.
Broken ==
  [dev: {FALSE}, stub: {FALSE}, secret: {TRUE}, db: BOOLEAN, redis: {TRUE},
   bus: {"unset", "kafka"}, rest: BOOLEAN, url: BadUrls \cup {AllOk},
   tls: {"none", "partial", "unreadable", "good"}] \ {Complete}

\* Stub mode: stubs are the fallback; the in-memory store only in DEV_MODE;
\* no lease, a bus nobody knows.
Development ==
  {[dev |-> TRUE, stub |-> FALSE, secret |-> FALSE, db |-> FALSE, redis |-> FALSE,
    bus |-> "memory", rest |-> TRUE, url |-> AllUnset, tls |-> "none"],
   [dev |-> FALSE, stub |-> TRUE, secret |-> TRUE, db |-> TRUE, redis |-> FALSE,
    bus |-> "unknown", rest |-> TRUE, url |-> AllOk, tls |-> "none"]}

AllEnvs == Production \cup Broken \cup Development
=============================================================================
