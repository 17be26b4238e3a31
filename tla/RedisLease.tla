----------------------------- MODULE RedisLease -----------------------------
(***************************************************************************)
(* The Redis lease of ONE transaction (internal/lease/redis.go): SET NX    *)
(* with a TTL, a renewer goroutine that wakes up every half TTL, reads the *)
(* key and extends it, and a release that stops the renewer, reads the key *)
(* and deletes it.  Every Redis call is a step of its own: time passes,    *)
(* and the key may expire and change hands, between the read and the call  *)
(* that follows.                                                           *)
(*                                                                         *)
(* Time advances by Tick in units that divide half a TTL.  How long the    *)
(* calls take is a parameter: with a small Delay the lease is an atomic    *)
(* lock, with a large one it is not.                                       *)
(***************************************************************************)
EXTENDS Integers

CONSTANTS
  Owners,      \* the processes that compete for the lease
  None,        \* the key does not exist
  HalfTTL,     \* half the TTL, the period of the renewer's ticker
  Delay,       \* the longest time from SET NX to the start of the ticker,
               \* from a wake-up to the end of its calls, and from the call
               \* of release to its DEL
  Faults,      \* calls that may fail, a subset of FaultKind
  MaxFaults,   \* bound on those failures in one behaviour
  MaxCrashes   \* bound on the crashes of one behaviour

\* "setnx": SET NX takes effect and its reply is lost; "get", "expire": the
\* call of the renewer fails; "release": GET or DEL of release fails.
FaultKind == {"setnx", "get", "expire", "release"}

TTL == 2 * HalfTTL

ASSUME LeaseAssumption ==
  /\ None \notin Owners
  /\ HalfTTL \in Nat \ {0}
  /\ Delay \in Nat
  /\ Faults \subseteq FaultKind
  /\ MaxFaults \in Nat
  /\ MaxCrashes \in Nat

VARIABLES
  key,      \* value of the key lease:<txID>
  left,     \* time the key has left, 0 when there is none
  pc,       \* "acquiring" from SET NX to its reply, "held" from there to the
            \* call of release, "stopping" and "delete" inside release
  late,     \* time since SET NX, or since the call of release
  renewer,  \* the goroutine of each owner
  due,      \* time until the owner's ticker fires
  fired,    \* a wake-up waits in the channel of the ticker
  broken,   \* a renewal of the owner's present lease has failed, or the
            \* late release of an owner whose lease was broken deleted it
  faults, crashes

vars == <<key, left, pc, late, renewer, due, fired, broken, faults, crashes>>
caller == <<pc, late>>
timer == <<due, fired>>

TypeOK ==
  /\ key \in Owners \cup {None}
  /\ left \in 0 .. TTL
  /\ pc \in [Owners -> {"idle", "acquiring", "held", "stopping", "delete"}]
  /\ late \in [Owners -> 0 .. Delay]
  /\ renewer \in [Owners -> {"off", "sleep", "expire"}]
  /\ due \in [Owners -> 1 .. HalfTTL]
  /\ fired \in [Owners -> BOOLEAN]
  /\ broken \in [Owners -> BOOLEAN]
  /\ faults \in 0 .. MaxFaults
  /\ crashes \in 0 .. MaxCrashes

Init ==
  /\ key = None /\ left = 0
  /\ pc = [o \in Owners |-> "idle"]
  /\ late = [o \in Owners |-> 0]
  /\ renewer = [o \in Owners |-> "off"]
  /\ due = [o \in Owners |-> HalfTTL]
  /\ fired = [o \in Owners |-> FALSE]
  /\ broken = [o \in Owners |-> FALSE]
  /\ faults = 0 /\ crashes = 0

-----------------------------------------------------------------------------
\* Every call but DEL, which ends what GET began, starts the clock anew.
Go(o, l) ==
  /\ pc' = [pc EXCEPT ![o] = l]
  /\ late' = IF l = "delete" THEN late ELSE [late EXCEPT ![o] = 0]

Renewer(o, l) == renewer' = [renewer EXCEPT ![o] = l]
Fails(k) == k \in Faults /\ faults < MaxFaults /\ faults' = faults + 1
Works == UNCHANGED faults
Breaks(o) == broken' = [broken EXCEPT ![o] = TRUE]

\* Defect: the key is set without an expiry.
AcquireForever(o) ==
  /\ pc[o] = "idle" /\ key = None
  /\ key' = o /\ left' = 0
  /\ broken' = [broken EXCEPT ![o] = FALSE]
  /\ Go(o, "acquiring")
  /\ UNCHANGED <<renewer, timer, faults, crashes>>

\* Defect: the key lives as long as the ticker's period.
AcquireShort(o) ==
  /\ pc[o] = "idle" /\ key = None
  /\ key' = o /\ left' = HalfTTL
  /\ broken' = [broken EXCEPT ![o] = FALSE]
  /\ Go(o, "acquiring")
  /\ UNCHANGED <<renewer, timer, faults, crashes>>

\* Defect: SET without NX.
AcquireAnyway(o) ==
  /\ pc[o] = "idle"
  /\ key' = o /\ left' = TTL
  /\ broken' = [broken EXCEPT ![o] = FALSE]
  /\ Go(o, "acquiring")
  /\ UNCHANGED <<renewer, timer, faults, crashes>>

\* Acquire: SET NX finds no key and sets it.
Acquire(o) ==
  /\ pc[o] = "idle" /\ key = None
  /\ key' = o /\ left' = TTL
  /\ broken' = [broken EXCEPT ![o] = FALSE]
  /\ Go(o, "acquiring")
  /\ UNCHANGED <<renewer, timer, faults, crashes>>

\* The reply arrives: the renewer is started and the caller has the lease.
\* If the reply is lost the caller does not know that the key is its own.
Acquired(o) ==
  /\ pc[o] = "acquiring"
  /\ \/ /\ Works /\ Go(o, "held") /\ Renewer(o, "sleep")
        /\ due' = [due EXCEPT ![o] = HalfTTL]
        /\ fired' = [fired EXCEPT ![o] = FALSE]
     \/ Fails("setnx") /\ Go(o, "idle") /\ UNCHANGED <<renewer, timer>>
  /\ UNCHANGED <<key, left, broken, crashes>>

\* The renewer wakes up and reads the key: on an error, or when the key is
\* not ours, the goroutine ends.
RenewGet(o) ==
  /\ renewer[o] = "sleep" /\ fired[o]
  /\ fired' = [fired EXCEPT ![o] = FALSE]
  /\ \/ /\ Works /\ Renewer(o, IF key = o THEN "expire" ELSE "off")
        /\ UNCHANGED broken
     \/ Fails("get") /\ Renewer(o, "off") /\ Breaks(o)
  /\ UNCHANGED <<key, left, caller, due, crashes>>

\* Defect: EXPIRE sets less than the TTL.
RenewExpireShort(o) ==
  /\ renewer[o] = "expire"
  /\ Renewer(o, "sleep")
  /\ \/ Works /\ left' = (IF key = None THEN 0 ELSE TTL - 2) /\ UNCHANGED broken
     \/ Fails("expire") /\ Breaks(o) /\ UNCHANGED left
  /\ UNCHANGED <<key, caller, timer, crashes>>

\* EXPIRE extends the key, whoever owns it by now; its error is ignored.
RenewExpire(o) ==
  /\ renewer[o] = "expire"
  /\ Renewer(o, "sleep")
  /\ \/ Works /\ left' = (IF key = None THEN 0 ELSE TTL) /\ UNCHANGED broken
     \/ Fails("expire") /\ Breaks(o) /\ UNCHANGED left
  /\ UNCHANGED <<key, caller, timer, crashes>>

\* The step is done: release closes the stop channel of the renewer ...
Release(o) ==
  /\ pc[o] = "held"
  /\ Go(o, "stopping")
  /\ UNCHANGED <<key, left, renewer, timer, faults, crashes, broken>>

\* ... which ends where it waits for the ticker; a wake-up may go first.
RenewStops(o) ==
  /\ pc[o] = "stopping" /\ renewer[o] = "sleep"
  /\ Renewer(o, "off")
  /\ UNCHANGED <<key, left, caller, timer, faults, crashes, broken>>

\* Then release reads the key: it goes on only if the key is ours.
ReleaseGet(o) ==
  /\ pc[o] = "stopping" /\ renewer[o] = "off"
  /\ \/ Works /\ Go(o, IF key = o THEN "delete" ELSE "idle")
     \/ Fails("release") /\ Go(o, "idle")
  /\ UNCHANGED <<key, left, renewer, timer, crashes, broken>>

\* DEL removes the key, whoever owns it by now.
ReleaseDel(o) ==
  /\ pc[o] = "delete"
  /\ Go(o, "idle")
  /\ \/ /\ Works /\ key' = None /\ left' = 0
        /\ broken' = [q \in Owners |-> broken[q] \/ (broken[o] /\ key = q)]
     \/ Fails("release") /\ UNCHANGED <<key, left, broken>>
  /\ UNCHANGED <<renewer, timer, crashes>>

\* The process dies, and its renewer with it.
Crash(o) ==
  /\ pc[o] # "idle" /\ crashes < MaxCrashes
  /\ crashes' = crashes + 1
  /\ Go(o, "idle") /\ Renewer(o, "off")
  /\ UNCHANGED <<key, left, timer, faults, broken>>

\* The renewer of o has been woken up and is not done yet.
Pending(o) == (renewer[o] = "sleep" /\ fired[o]) \/ renewer[o] = "expire"

\* The calls of o that are under way may take another unit of time.  (The
\* ticker was reset when it fired: it has run for HalfTTL - due[o] since.)
MayWait(o) ==
  /\ Pending(o) => HalfTTL - due[o] < Delay
  /\ pc[o] \in {"acquiring", "stopping", "delete"} => late[o] < Delay

\* The clock advances by one unit: a key that has no time left is gone.
Tick ==
  /\ \A o \in Owners : MayWait(o)
  /\ key # None \/ \E o \in Owners : pc[o] # "idle"
  /\ left' = IF left > 0 THEN left - 1 ELSE 0
  /\ key' = IF left = 1 THEN None ELSE key
  /\ due' = [o \in Owners |-> IF renewer[o] = "off" \/ due[o] = 1 THEN HalfTTL
                                                            ELSE due[o] - 1]
  /\ fired' = [o \in Owners |-> renewer[o] # "off" /\ (fired[o] \/ due[o] = 1)]
  /\ late' = [o \in Owners |-> IF pc[o] \in {"idle", "held"} THEN 0
                                                           ELSE late[o] + 1]
  /\ UNCHANGED <<pc, renewer, faults, crashes, broken>>

Step(o) ==
  \/ Acquire(o) \/ Acquired(o) \/ RenewGet(o) \/ RenewExpire(o)
  \/ Release(o) \/ RenewStops(o) \/ ReleaseGet(o) \/ ReleaseDel(o)

Next == Tick \/ \E o \in Owners : Step(o) \/ Crash(o)

Spec == Init /\ [][Next]_vars

\* Time passes; the renewer's calls and those of release are made.  Nothing
\* obliges anyone to acquire the lease or to come to the end of a step.
FairSpec ==
  /\ Spec /\ WF_vars(Tick)
  /\ \A o \in Owners :
        WF_vars(Acquired(o) \/ RenewGet(o) \/ RenewExpire(o) \/ RenewStops(o)
                  \/ ReleaseGet(o) \/ ReleaseDel(o))

-----------------------------------------------------------------------------
(* Properties.                                                             *)

\* "A background renewer extends the TTL while the step is running": whoever
\* is inside a step, and whose lease was not broken, has the key, however
\* long the step takes and whatever goes wrong for others.
HolderHasKey == \A o \in Owners : pc[o] = "held" /\ ~broken[o] => key = o

\* No two owners are inside a step at the same time, unless the lease of one
\* of them was broken.
Exclusive ==
  \A o, q \in Owners :
    /\ pc[o] = "held" /\ ~broken[o]
    /\ pc[q] = "held" /\ ~broken[q]
    => o = q

\* The owners inside a step whose lease was not broken.
Holders == {o \in Owners : pc[o] = "held" /\ ~broken[o]}

Atomic == INSTANCE InMemoryLease WITH locks <- Holders

\* SET NX, a TTL and a renewer behave like an atomic lock: the Redis lease
\* implements the in-memory one.  An owner gets it when nobody holds it, and
\* it never passes from one owner to another without having been given up, by
\* release, by a failed renewal or by the death of its process, or taken by
\* the late release of an owner whose own lease was broken.
AtomicLease == Atomic!Spec

\* "so long-running steps do not lose the lease": without exception.
LeaseNeverLost == \A o \in Owners : pc[o] = "held" => key = o

\* "Delete only if we still own the lease": the key that GET saw is still the
\* owner's own when DEL arrives, although time passes in between and DEL does
\* not look: a release whose lease was not broken by then leaves the keys of
\* others alone.
DeletesOwnKey ==
  [][\A o \in Owners :
       pc[o] = "delete" /\ pc'[o] = "idle" /\ ~broken[o] /\ key' # key => key = o]_vars

\* A key whose owner crashed, or whose release failed, is given up: other
\* replicas are not locked out for good.
OrphansExpire ==
  \A o \in Owners :
    (key = o /\ pc[o] = "idle") ~> (key # o)
=============================================================================
