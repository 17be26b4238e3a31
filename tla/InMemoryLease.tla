--------------------------- MODULE InMemoryLease ---------------------------
(***************************************************************************)
(* The lease of one transaction as the in-memory manager provides it       *)
(* (internal/lease/inmemory.go): Acquire and release are atomic, under a   *)
(* mutex, and there is no expiry (the renewer of this manager does         *)
(* nothing).  It is what the executor expects of a lease, and the abstract *)
(* specification that the Redis lease is shown to implement.               *)
(***************************************************************************)
CONSTANT Owners

VARIABLE locks   \* {o}: the map has owner o under the key; {}: it has no entry

Init == locks = {}

\* Taken only when there is no entry; otherwise Acquire returns false.
Acquire(o) == locks = {} /\ locks' = {o}

\* release deletes the entry if it is the caller's.
Release(o) == o \in locks /\ locks' = locks \ {o}

Next == \E o \in Owners : Acquire(o) \/ Release(o)

Spec == Init /\ [][Next]_locks
=============================================================================
