----------------------------- MODULE MCMemStore -----------------------------
(* The in-memory store for TLC: few callers of each kind.                  *)
EXTENDS MemStore, TLC
CONSTANTS w1, w2, o1, q1, q2
TwoWorkers == {w1, w2}
OneOperator == {o1}
TwoRelays == {q1, q2}
Symmetric == Permutations(TwoWorkers) \cup Permutations(TwoRelays)
=============================================================================
