---------------------------- MODULE MCDispatcher ----------------------------
(* The dispatcher for TLC.                                                 *)
EXTENDS Dispatcher, TLC
CONSTANTS t1, t2, t3, c1, c2
TwoCallers == {c1, c2}
AllTxs == {t1, t2, t3}
TwoOld == {t1, t2}
NoneOld == {}
\* t1 and t2 share a partition of two; or all three do.
Spread == (t1 :> 1) @@ (t2 :> 1) @@ (t3 :> 2)
Crowded == [t \in AllTxs |-> 1]
=============================================================================
