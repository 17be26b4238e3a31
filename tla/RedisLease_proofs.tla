-------------------------- MODULE RedisLease_proofs --------------------------
(***************************************************************************)
(* What the Redis lease guarantees when no call takes longer than Delay    *)
(* and three such delays fit into half a TTL, for any number of owners.    *)
(*                                                                         *)
(* The argument is about time.  The ticker starts at most Delay after the  *)
(* key was set, a wake-up is handled at most Delay after the ticker fired, *)
(* and release is done at most Delay after it was called, so that the key  *)
(* of an owner whose calls work is never closer to its expiry than half a  *)
(* TTL less the delays spent.                                              *)
(***************************************************************************)
EXTENDS RedisLease, TLAPS

\* The three delays fit into half a TTL.
Prompt == 3 * Delay < HalfTTL

\* The time the key has left while the renewer of its owner is alive: enough
\* for the calls of a renewer that was woken up, and half a TTL more than the
\* ticker of one that sleeps.
Slack(o) ==
  IF Pending(o)
  THEN left + Delay >= due[o] /\ due[o] + Delay >= HalfTTL
  ELSE left + Delay >= due[o] + HalfTTL

\* A lease that was not broken has its key from SET NX to DEL, with the time
\* left that the calls under way may still need.
OwnerInv(o) ==
  /\ pc[o] = "acquiring" => key = o /\ left + late[o] >= TTL
  /\ pc[o] = "held" => renewer[o] # "off"
  /\ renewer[o] # "off" => key = o /\ Slack(o)
  /\ pc[o] \in {"stopping", "delete"} /\ renewer[o] = "off"
       => key = o /\ left + late[o] + 2 * Delay >= HalfTTL

\* Only an owner inside a step or in release has a renewer.
RenewerInv == \A o \in Owners : renewer[o] # "off" => pc[o] \in {"held", "stopping"}

LeaseInv ==
  /\ RenewerInv
  /\ \A o \in Owners : ~broken[o] => OwnerInv(o)

-----------------------------------------------------------------------------
\* Nothing is held at the start.
LEMMA LeaseInit == Init => TypeOK /\ LeaseInv
BY LeaseAssumption DEF Init, TypeOK, LeaseInv, RenewerInv, OwnerInv, TTL

\* The position of a caller and its clock keep their types.
LEMMA GoType ==
  ASSUME TypeOK, NEW o \in Owners,
         NEW l \in {"idle", "acquiring", "held", "stopping", "delete"}, Go(o, l)
  PROVE  /\ pc' \in [Owners -> {"idle", "acquiring", "held", "stopping", "delete"}]
         /\ late' \in [Owners -> 0 .. Delay]
BY LeaseAssumption DEF TypeOK, Go

\* Every step keeps the types.
LEMMA LeaseTypeNext == TypeOK /\ [Next]_vars => TypeOK'
<1> SUFFICES ASSUME TypeOK, [Next]_vars PROVE TypeOK'
  OBVIOUS
<1> USE LeaseAssumption DEF TypeOK, TTL
<1>0. CASE UNCHANGED vars
  BY <1>0 DEF vars
<1>1. CASE Tick
  <2>1. fired' \in [Owners -> BOOLEAN]
    BY <1>1, Zenon DEF Tick
  <2>2. due' \in [Owners -> 1 .. HalfTTL]
    BY <1>1 DEF Tick
  <2>3. key' \in Owners \cup {None} /\ left' \in 0 .. TTL
    BY <1>1 DEF Tick
  <2>4. late' \in [Owners -> 0 .. Delay]
    BY <1>1 DEF Tick, MayWait
  <2> QED BY <1>1, <2>1, <2>2, <2>3, <2>4 DEF Tick
<1>2. ASSUME NEW o \in Owners, Acquire(o) PROVE TypeOK'
  <2>1. broken' \in [Owners -> BOOLEAN]
    BY <1>2, Zenon DEF Acquire
  <2> QED BY <1>2, <2>1, GoType DEF Acquire, timer
<1>3. ASSUME NEW o \in Owners, Acquired(o) PROVE TypeOK'
  <2>1. fired' \in [Owners -> BOOLEAN]
    BY <1>3, Zenon DEF Acquired, timer
  <2>2. due' \in [Owners -> 1 .. HalfTTL] /\ faults' \in 0 .. MaxFaults
    BY <1>3 DEF Acquired, timer, Works, Fails
  <2>3. renewer' \in [Owners -> {"off", "sleep", "expire"}]
    BY <1>3 DEF Acquired, Renewer
  <2> QED BY <1>3, <2>1, <2>2, <2>3, GoType DEF Acquired
<1>4. ASSUME NEW o \in Owners, RenewGet(o) \/ RenewExpire(o) PROVE TypeOK'
  <2>1. fired' \in [Owners -> BOOLEAN]
    BY <1>4, Zenon DEF RenewGet, RenewExpire, timer
  <2>2. left' \in 0 .. TTL /\ faults' \in 0 .. MaxFaults
    BY <1>4 DEF RenewGet, RenewExpire, Works, Fails
  <2>3. renewer' \in [Owners -> {"off", "sleep", "expire"}]
    BY <1>4 DEF RenewGet, RenewExpire, Renewer
  <2>4. broken' \in [Owners -> BOOLEAN]
    BY <1>4, Zenon DEF RenewGet, RenewExpire, Breaks
  <2> QED BY <1>4, <2>1, <2>2, <2>3, <2>4 DEF RenewGet, RenewExpire, timer, caller
<1>5. ASSUME NEW o \in Owners, Release(o) PROVE TypeOK'
  BY <1>5, GoType DEF Release, timer
<1>6. ASSUME NEW o \in Owners, RenewStops(o) PROVE TypeOK'
  BY <1>6 DEF RenewStops, Renewer, timer, caller
<1>7. ASSUME NEW o \in Owners, ReleaseGet(o) PROVE TypeOK'
  <2>1. faults' \in 0 .. MaxFaults
    BY <1>7 DEF ReleaseGet, Works, Fails
  <2> QED BY <1>7, <2>1, GoType DEF ReleaseGet, timer
<1>8. ASSUME NEW o \in Owners, ReleaseDel(o) PROVE TypeOK'
  <2>1. broken' \in [Owners -> BOOLEAN]
    BY <1>8, Zenon DEF ReleaseDel
  <2>2. faults' \in 0 .. MaxFaults
    BY <1>8 DEF ReleaseDel, Works, Fails
  <2> QED BY <1>8, <2>1, <2>2, GoType DEF ReleaseDel, timer
<1>9. ASSUME NEW o \in Owners, Crash(o) PROVE TypeOK'
  BY <1>9, GoType DEF Crash, Renewer, timer
<1> QED BY <1>0, <1>1, <1>2, <1>3, <1>4, <1>5, <1>6, <1>7, <1>8, <1>9 DEF Next, Step

\* Renewers live inside steps and releases only.
LEMMA RenewerNext ==
  ASSUME TypeOK, RenewerInv, [Next]_vars
  PROVE  RenewerInv'
<1> USE DEF TypeOK, RenewerInv, Go, Renewer, caller
<1>0. CASE UNCHANGED vars
  BY <1>0 DEF vars
<1>1. CASE Tick
  BY <1>1 DEF Tick
<1>2. ASSUME NEW o \in Owners, Step(o) PROVE RenewerInv'
  BY <1>2 DEF Step, Acquire, Acquired, RenewGet, RenewExpire, Release, RenewStops,
              ReleaseGet, ReleaseDel
<1>3. ASSUME NEW o \in Owners, Crash(o) PROVE RenewerInv'
  BY <1>3 DEF Crash
<1> QED BY <1>0, <1>1, <1>2, <1>3 DEF Next

\* The clock advances: an owner whose calls are not overdue keeps its key.
LEMMA TickKeepsOwner ==
  ASSUME Prompt, TypeOK, RenewerInv, Tick, NEW o \in Owners, OwnerInv(o)
  PROVE  OwnerInv(o)'
<1> USE LeaseAssumption DEF TypeOK, Prompt, TTL
<1>1. /\ pc' = pc /\ renewer' = renewer
      /\ left' = (IF left > 0 THEN left - 1 ELSE 0)
      /\ key' = (IF left = 1 THEN None ELSE key)
      /\ late'[o] = (IF pc[o] \in {"idle", "held"} THEN 0 ELSE late[o] + 1)
      /\ MayWait(o)
  BY DEF Tick
<1>2. CASE pc[o] = "acquiring"
  <2>1. renewer[o] = "off"
    BY <1>2 DEF RenewerInv
  <2>2. key = o /\ left + late[o] >= TTL /\ late[o] < Delay
    BY <1>1, <1>2 DEF OwnerInv, MayWait
  <2>3. left > 1
    BY <2>2
  <2> QED BY <1>1, <1>2, <2>1, <2>2, <2>3 DEF OwnerInv
<1>3. CASE renewer[o] # "off"
  <2>1. pc[o] \in {"held", "stopping"} /\ key = o /\ Slack(o)
    BY <1>3 DEF RenewerInv, OwnerInv
  <2>2. /\ due'[o] = (IF due[o] = 1 THEN HalfTTL ELSE due[o] - 1)
        /\ fired'[o] <=> (fired[o] \/ due[o] = 1)
    BY <1>3 DEF Tick
  <2>3. CASE Pending(o)
    <3>1. left + Delay >= due[o] /\ due[o] + Delay >= HalfTTL + 1
      BY <1>1, <2>1, <2>3 DEF Slack, MayWait
    <3>2. left > 1 /\ due[o] > 1
      BY <3>1
    <3>3. Pending(o)'
      BY <1>1, <2>2, <2>3 DEF Pending
    <3>4. key' = o /\ Slack(o)'
      BY <1>1, <2>1, <2>2, <3>1, <3>2, <3>3 DEF Slack
    <3> QED BY <1>1, <1>3, <2>1, <3>4 DEF OwnerInv
  <2>4. CASE ~Pending(o)
    <3>1. left + Delay >= due[o] + HalfTTL
      BY <2>1, <2>4 DEF Slack
    <3>2. left > 1
      BY <3>1
    <3>3. renewer[o] = "sleep" /\ ~fired[o]
      BY <1>3, <2>4 DEF Pending
    <3>4. CASE due[o] = 1
      <4>1. Pending(o)'
        BY <1>1, <2>2, <3>3, <3>4 DEF Pending
      <4> QED BY <1>1, <1>3, <2>1, <2>2, <3>1, <3>2, <3>4, <4>1 DEF Slack, OwnerInv
    <3>5. CASE due[o] # 1
      <4>1. ~Pending(o)'
        BY <1>1, <2>2, <3>3, <3>5 DEF Pending
      <4> QED BY <1>1, <1>3, <2>1, <2>2, <3>1, <3>2, <3>5, <4>1 DEF Slack, OwnerInv
    <3> QED BY <3>4, <3>5
  <2> QED BY <2>3, <2>4
<1>4. CASE pc[o] \in {"stopping", "delete"} /\ renewer[o] = "off"
  <2>1. key = o /\ left + late[o] + 2 * Delay >= HalfTTL /\ late[o] < Delay
    BY <1>1, <1>4 DEF OwnerInv, MayWait
  <2>2. left > 1
    BY <2>1
  <2> QED BY <1>1, <1>4, <2>1, <2>2 DEF OwnerInv
<1>5. CASE pc[o] \in {"idle", "held"} /\ renewer[o] = "off"
  BY <1>1, <1>5 DEF OwnerInv
<1> QED BY <1>2, <1>3, <1>4, <1>5

\* A step of another owner leaves the key and the time it has left alone, or
\* extends the key, unless it is the DEL of an owner whose lease was broken.
LEMMA OthersKeepOwner ==
  ASSUME Prompt, TypeOK, LeaseInv, NEW o \in Owners, NEW q \in Owners \ {o},
         Step(q) \/ Crash(q), ~broken[o], ~broken'[o]
  PROVE  OwnerInv(o)'
<1> USE LeaseAssumption DEF TypeOK, TTL
<1>1. OwnerInv(o)
  BY DEF LeaseInv
<1>2. /\ pc'[o] = pc[o] /\ renewer'[o] = renewer[o] /\ late'[o] = late[o]
      /\ due'[o] = due[o] /\ fired'[o] = fired[o]
  BY DEF Step, Acquire, Acquired, RenewGet, RenewExpire, Release, RenewStops,
         ReleaseGet, ReleaseDel, Crash, Go, Renewer, timer, caller
<1>3. ASSUME key = o PROVE key' = o /\ left' >= left /\ left' \in Nat
  <2>1. CASE Acquire(q)
    BY <1>3, <2>1 DEF Acquire
  <2>2. CASE ReleaseDel(q)
    <3>1. CASE broken[q]
      BY <1>3, <2>2, <3>1 DEF ReleaseDel
    <3>2. CASE ~broken[q]
      <4>1. pc[q] = "delete" /\ renewer[q] = "off"
        BY <2>2 DEF ReleaseDel, LeaseInv, RenewerInv
      <4>2. key = q
        BY <3>2, <4>1 DEF LeaseInv, OwnerInv
      <4> QED BY <1>3, <4>2
    <3> QED BY <3>1, <3>2
  <2>3. CASE RenewExpire(q)
    BY <1>3, <2>3 DEF RenewExpire
  <2> QED BY <1>3, <2>1, <2>2, <2>3 DEF Step, Acquired, RenewGet, Release, RenewStops,
                                       ReleaseGet, Crash
<1>4. CASE key = o
  BY <1>1, <1>2, <1>3, <1>4 DEF OwnerInv, Slack, Pending
<1>5. CASE key # o
  <2>1. pc[o] = "idle" /\ renewer[o] = "off"
    BY <1>1, <1>5 DEF OwnerInv
  <2> QED BY <1>2, <2>1 DEF OwnerInv
<1> QED BY <1>4, <1>5

\* The owner's own steps keep its key, or give it up.
LEMMA OwnKeepsOwner ==
  ASSUME Prompt, TypeOK, LeaseInv, NEW o \in Owners, Step(o) \/ Crash(o), ~broken'[o]
  PROVE  OwnerInv(o)'
<1> USE LeaseAssumption DEF TypeOK, TTL, Prompt
<1>0. (pc[o] = "idle" => renewer[o] = "off") /\ (pc[o] = "acquiring" => renewer[o] = "off")
      /\ (pc[o] = "delete" => renewer[o] = "off")
  BY DEF LeaseInv, RenewerInv
<1>1. CASE Acquire(o)
  BY <1>0, <1>1 DEF Acquire, Go, timer, OwnerInv
<1>2. ASSUME broken' = broken PROVE OwnerInv(o)
  BY <1>2 DEF LeaseInv
<1>3. CASE Acquired(o)
  <2>1. key = o /\ left + late[o] >= TTL /\ key' = key /\ left' = left /\ late[o] <= Delay
    BY <1>2, <1>3 DEF Acquired, OwnerInv
  <2>2. CASE Go(o, "idle") /\ UNCHANGED renewer
    BY <1>0, <1>3, <2>2 DEF Acquired, Go, OwnerInv
  <2>3. CASE /\ Go(o, "held") /\ Renewer(o, "sleep")
             /\ due' = [due EXCEPT ![o] = HalfTTL] /\ fired' = [fired EXCEPT ![o] = FALSE]
    <3>1. pc'[o] = "held" /\ renewer'[o] = "sleep" /\ due'[o] = HalfTTL /\ ~fired'[o]
      BY <2>3 DEF Go, Renewer
    <3> QED BY <2>1, <3>1 DEF OwnerInv, Slack, Pending
  <2> QED BY <1>3, <2>2, <2>3 DEF Acquired
<1>4. CASE RenewGet(o)
  <2>1. broken' = broken /\ renewer' = [renewer EXCEPT ![o] = IF key = o THEN "expire" ELSE "off"]
    BY <1>4 DEF RenewGet, Breaks, Renewer
  <2>2. OwnerInv(o) /\ renewer[o] # "off" /\ Pending(o)
    BY <1>2, <1>4, <2>1 DEF RenewGet, Pending
  <2>3. key = o /\ Slack(o) /\ renewer'[o] = "expire"
    BY <2>1, <2>2 DEF OwnerInv
  <2>4. key' = key /\ left' = left /\ due' = due /\ pc' = pc /\ late' = late
    BY <1>4 DEF RenewGet, caller
  <2>5. pc[o] \in {"held", "stopping"}
    BY <2>2 DEF LeaseInv, RenewerInv
  <2> QED BY <2>2, <2>3, <2>4, <2>5 DEF OwnerInv, Slack, Pending
<1>5. CASE RenewExpire(o)
  <2>1. broken' = broken /\ left' = (IF key = None THEN 0 ELSE TTL)
    BY <1>5 DEF RenewExpire, Breaks
  <2>2. /\ renewer[o] = "expire" /\ renewer'[o] = "sleep" /\ key' = key
        /\ pc' = pc /\ due' = due /\ fired' = fired
    BY <1>5 DEF RenewExpire, Renewer, caller, timer
  <2>3. key = o /\ Slack(o) /\ pc[o] \in {"held", "stopping"}
    BY <1>2, <2>1, <2>2 DEF OwnerInv, LeaseInv, RenewerInv
  <2>4. due[o] + Delay >= HalfTTL
    BY <2>2, <2>3 DEF Slack, Pending
  <2> QED BY <2>1, <2>2, <2>3, <2>4 DEF OwnerInv, Slack, Pending
<1>6. CASE Release(o)
  <2>1. OwnerInv(o) /\ pc[o] = "held"
    BY <1>2, <1>6 DEF Release
  <2>2. renewer[o] # "off" /\ key = o /\ Slack(o)
    BY <2>1 DEF OwnerInv
  <2> QED BY <1>6, <2>2 DEF Release, Go, timer, OwnerInv, Slack, Pending
<1>7. CASE RenewStops(o)
  <2>1. OwnerInv(o) /\ renewer[o] # "off" /\ pc[o] = "stopping"
    BY <1>2, <1>7 DEF RenewStops
  <2>2. key = o /\ Slack(o)
    BY <2>1 DEF OwnerInv
  <2>3. left + 2 * Delay >= HalfTTL
    BY <2>2 DEF Slack
  <2>4. /\ key' = key /\ left' = left /\ pc' = pc /\ late' = late
        /\ renewer'[o] = "off"
    BY <1>7 DEF RenewStops, Renewer, caller
  <2> QED BY <2>1, <2>2, <2>3, <2>4 DEF OwnerInv
<1>8. CASE ReleaseGet(o)
  <2>1. OwnerInv(o) /\ pc[o] = "stopping" /\ renewer[o] = "off"
    BY <1>2, <1>8 DEF ReleaseGet
  <2> QED BY <1>8, <2>1 DEF ReleaseGet, Go, OwnerInv
<1>9. CASE ReleaseDel(o)
  BY <1>0, <1>9 DEF ReleaseDel, Go, OwnerInv
<1>10. CASE Crash(o)
  BY <1>10 DEF Crash, Go, Renewer, OwnerInv
<1> QED BY <1>1, <1>3, <1>4, <1>5, <1>6, <1>7, <1>8, <1>9, <1>10 DEF Step

\* A lease that is broken stays so until the next SET NX of its owner.
LEMMA BrokenStays ==
  ASSUME TypeOK, NEW o \in Owners, NEW q \in Owners, Step(q) \/ Crash(q), q # o,
         ~broken'[o]
  PROVE  ~broken[o]
BY DEF TypeOK, Step, Acquire, Acquired, RenewGet, RenewExpire, Release, RenewStops,
       ReleaseGet, ReleaseDel, Crash, Breaks

LEMMA LeaseNext ==
  ASSUME Prompt, TypeOK, LeaseInv, [Next]_vars
  PROVE  LeaseInv'
<1>1. RenewerInv'
  BY RenewerNext DEF LeaseInv
<1>2. ASSUME NEW o \in Owners, ~broken'[o] PROVE OwnerInv(o)'
  <2>0. CASE UNCHANGED vars
    BY <1>2, <2>0 DEF vars, LeaseInv, OwnerInv, Slack, Pending
  <2>1. CASE Tick
    <3>1. ~broken[o]
      BY <1>2, <2>1 DEF Tick
    <3> QED BY <2>1, <3>1, TickKeepsOwner DEF LeaseInv
  <2>2. ASSUME NEW q \in Owners, Step(q) \/ Crash(q) PROVE OwnerInv(o)'
    <3>1. CASE q = o
      BY <1>2, <2>2, <3>1, OwnKeepsOwner
    <3>2. CASE q # o
      BY <1>2, <2>2, <3>2, BrokenStays, OthersKeepOwner
    <3> QED BY <3>1, <3>2
  <2> QED BY <2>0, <2>1, <2>2 DEF Next
<1> QED BY <1>1, <1>2 DEF LeaseInv

-----------------------------------------------------------------------------
\* A step of any length keeps the lease: with calls that are prompt,
\* whoever is inside a step and whose lease was not broken has the key, whatever
\* calls of others fail.
THEOREM StepsKeepTheLease ==
  ASSUME Prompt
  PROVE  Spec => []HolderHasKey
<1> DEFINE Inv == TypeOK /\ LeaseInv
<1>1. Init => Inv
  BY LeaseInit
<1>2. Inv /\ [Next]_vars => Inv'
  BY Prompt, LeaseTypeNext, LeaseNext
<1>3. Inv => HolderHasKey
  BY DEF LeaseInv, OwnerInv, HolderHasKey
<1> QED BY <1>1, <1>2, <1>3, PTL DEF Spec

\* Under the same conditions no two owners are inside a step.
THEOREM LeaseIsExclusive ==
  ASSUME Prompt
  PROVE  Spec => []Exclusive
<1>1. Spec => []HolderHasKey
  BY Prompt, StepsKeepTheLease
<1>2. HolderHasKey => Exclusive
  BY DEF HolderHasKey, Exclusive
<1> QED BY <1>1, <1>2, PTL

\* The Redis lease implements the atomic one, for any number of owners and
\* any TTL: with prompt calls every step of it is an Acquire or a Release
\* of the in-memory lease, or changes nothing there.
THEOREM RedisImplementsAtomicLease ==
  ASSUME Prompt
  PROVE  Spec => AtomicLease
<1> DEFINE Inv == TypeOK /\ LeaseInv
<1>1. Init => Inv /\ Atomic!Init
  BY LeaseInit DEF Init, Atomic!Init, Holders
<1>2. Inv /\ [Next]_vars => Inv'
  BY Prompt, LeaseTypeNext, LeaseNext
<1>3. Inv /\ [Next]_vars => [Atomic!Next]_Holders
  <2> SUFFICES ASSUME Inv, [Next]_vars PROVE [Atomic!Next]_Holders
    OBVIOUS
  <2> USE DEF TypeOK, Holders
  <2>0. CASE UNCHANGED vars
    BY <2>0 DEF vars
  <2>1. CASE Tick
    BY <2>1 DEF Tick
  <2>2. ASSUME NEW o \in Owners, Acquire(o) PROVE [Atomic!Next]_Holders
    BY <2>2 DEF Acquire, Go
  <2>3. ASSUME NEW o \in Owners, Acquired(o) PROVE [Atomic!Next]_Holders
    <3>1. CASE Go(o, "idle")
      BY <2>3, <3>1 DEF Acquired, Go
    <3>2. CASE Go(o, "held") /\ broken[o]
      BY <2>3, <3>2 DEF Acquired, Go
    <3>3. CASE Go(o, "held") /\ ~broken[o]
      <4>1. key = o
        BY <2>3, <3>3 DEF Acquired, LeaseInv, OwnerInv
      <4>2. Holders = {}
        BY <2>3, <4>1 DEF Acquired, LeaseInv, OwnerInv
      <4>3. Holders' = {o}
        BY <2>3, <3>3, <4>2 DEF Acquired, Go
      <4> QED BY <4>2, <4>3 DEF Atomic!Next, Atomic!Acquire
    <3> QED BY <2>3, <3>1, <3>2, <3>3 DEF Acquired
  <2>4. ASSUME NEW o \in Owners, UNCHANGED pc, UNCHANGED broken \/ Breaks(o)
        PROVE  [Atomic!Next]_Holders
    <3>1. \/ Holders' = Holders
          \/ o \in Holders /\ Holders' = Holders \ {o}
      BY <2>4 DEF Breaks
    <3> QED BY <3>1 DEF Atomic!Next, Atomic!Release
  <2>5. ASSUME NEW o \in Owners, RenewGet(o) \/ RenewExpire(o) \/ RenewStops(o)
        PROVE  [Atomic!Next]_Holders
    BY <2>4, <2>5 DEF RenewGet, RenewExpire, RenewStops, caller
  <2>6. ASSUME NEW o \in Owners, NEW l \in {"idle", "stopping", "delete"},
               Go(o, l), UNCHANGED broken
        PROVE  [Atomic!Next]_Holders
    <3>1. \/ Holders' = Holders
          \/ o \in Holders /\ Holders' = Holders \ {o}
      BY <2>6 DEF Go
    <3> QED BY <3>1 DEF Atomic!Next, Atomic!Release
  <2>7. ASSUME NEW o \in Owners, Release(o) \/ ReleaseGet(o) \/ Crash(o)
        PROVE  [Atomic!Next]_Holders
    BY <2>6, <2>7 DEF Release, ReleaseGet, Crash
  <2>8. ASSUME NEW o \in Owners, ReleaseDel(o) PROVE [Atomic!Next]_Holders
    <3>1. CASE UNCHANGED broken
      BY <2>6, <2>8, <3>1 DEF ReleaseDel
    <3>2. CASE broken' = [q \in Owners |-> broken[q] \/ (broken[o] /\ key = q)]
      <4>1. CASE broken[o] /\ key \in Holders
        <5>1. Holders' = Holders \ {key}
          BY <2>8, <3>2, <4>1 DEF ReleaseDel, Go
        <5> QED BY <4>1, <5>1 DEF Atomic!Next, Atomic!Release
      <4>2. CASE ~(broken[o] /\ key \in Holders)
        <5>1. Holders' = Holders
          BY <2>8, <3>2, <4>2 DEF ReleaseDel, Go
        <5> QED BY <5>1
      <4> QED BY <4>1, <4>2
    <3> QED BY <2>8, <3>1, <3>2 DEF ReleaseDel
  <2> QED BY <2>0, <2>1, <2>2, <2>3, <2>5, <2>7, <2>8 DEF Next, Step
<1> QED BY <1>1, <1>2, <1>3, PTL DEF Spec, AtomicLease, Atomic!Spec

\* "Delete only if we still own the lease": although DEL does not look, the
\* key it removes is the owner's own, for any TTL that leaves room for the
\* delays of the calls.
THEOREM OnlyOwnKeyDeleted ==
  ASSUME Prompt
  PROVE  Spec => DeletesOwnKey
<1> DEFINE Inv == TypeOK /\ LeaseInv
<1> DEFINE Own == \A o \in Owners :
      pc[o] = "delete" /\ pc'[o] = "idle" /\ ~broken[o] /\ key' # key => key = o
<1>1. Init => Inv
  BY LeaseInit
<1>2. Inv /\ [Next]_vars => Inv'
  BY Prompt, LeaseTypeNext, LeaseNext
<1>3. Inv => [Own]_vars
  BY DEF LeaseInv, OwnerInv, RenewerInv
<1> QED BY <1>1, <1>2, <1>3, PTL DEF Spec, DeletesOwnKey
=============================================================================
