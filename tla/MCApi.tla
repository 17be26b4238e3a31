------------------------------- MODULE MCApi -------------------------------
(* The API and the dispatcher for TLC.                                     *)
EXTENDS Api, TLC
CONSTANTS t1, t2, t3, c1, c2
TwoCallers == {c1, c2}
AllTxs == {t1, t2, t3}
TwoOld == {t1, t2}
OneOld == {t1}
\* t1 and t2 share a partition of two.
Spread == (t1 :> 1) @@ (t2 :> 1) @@ (t3 :> 2)
=============================================================================
