--------------------------- MODULE MemStore_proofs ---------------------------
(***************************************************************************)
(* What the in-memory store guarantees to any number of callers although   *)
(* it neither isolates nor rolls back: saves build on the row they         *)
(* replace, a step's event follows the save of the step, rows and dedup    *)
(* keys stay unique and claims disjoint.                                   *)
(***************************************************************************)
EXTENDS MemStore, SequenceTheorems, TLAPS

\* A saga row without the bound on the number of its steps.
Row == [state: State, passed: Nat, version: Nat \ {0}]

Rows ==
  /\ saga \in Row
  /\ snap \in [Procs -> Row]
  /\ pc \in [Procs -> Label]

\* The version identifies the row: a snapshot of the stored version is the
\* stored row.  Version 1 is the row CreateTx inserted.
Versions ==
  /\ saga.version = 1 => saga = InitialSaga
  /\ \A p \in Procs : /\ snap[p].version <= saga.version
                      /\ snap[p].version = saga.version => snap[p] = saga

RowInv == Rows /\ Versions

\* What a step may do to the saga row.
RowStep ==
  /\ saga' # saga => /\ saga'.version = saga.version + 1
                     /\ saga.passed <= saga'.passed

-----------------------------------------------------------------------------
\* The row CreateTx inserts is what every caller starts from.
LEMMA RowInit == Init => RowInv
BY DEF Init, CreateTx, InitialSaga, RowInv, Rows, Versions, Row, State, Label, Procs

\* A caller that loads the saga holds the stored row.
LEMMA LoadKeeps ==
  ASSUME RowInv, NEW p \in Procs, NEW l \in Label,
         snap' = [snap EXCEPT ![p] = saga], Go(p, l), UNCHANGED saga
  PROVE  RowInv' /\ RowStep
BY DEF RowInv, Rows, Versions, RowStep, Row, Go

\* A caller that returns drops its snapshot.
LEMMA FinishKeeps ==
  ASSUME RowInv, NEW p \in Procs, Finish(p), UNCHANGED saga
  PROVE  RowInv' /\ RowStep
<1>1. InitialSaga \in Row /\ InitialSaga.version = 1
  BY DEF InitialSaga, Row, State
<1>2. saga.version \in Nat \ {0}
  BY DEF RowInv, Rows, Row
<1> QED BY <1>1, <1>2 DEF RowInv, Rows, Versions, RowStep, Finish, Go, Label

\* A step that leaves saga and snapshots alone.
LEMMA StayKeeps ==
  ASSUME RowInv, UNCHANGED <<saga, snap>>, pc' \in [Procs -> Label]
  PROVE  RowInv' /\ RowStep
BY DEF RowInv, Rows, Versions, RowStep

\* A save from a snapshot of the stored version.
LEMMA SaveKeeps ==
  ASSUME RowInv, NEW p \in Procs, SaveMatches(p), NEW st \in State,
         NEW n \in Nat, snap[p].passed <= n, SaveSagaState(st, n),
         UNCHANGED snap, pc' \in [Procs -> Label]
  PROVE  RowInv' /\ RowStep
<1>1. /\ saga \in Row /\ snap[p] = saga
      /\ saga' = [state |-> st, passed |-> n, version |-> saga.version + 1]
  BY DEF RowInv, Rows, Versions, SaveMatches, SaveSagaState
<1>2. saga' \in Row /\ saga'.version = saga.version + 1 /\ saga'.passed = n
  BY <1>1 DEF Row
<1>3. \A q \in Procs : snap[q].version <= saga.version /\ snap[q].version \in Nat
  BY DEF RowInv, Rows, Versions, Row
<1>4. saga.version \in Nat \ {0} /\ saga.passed = snap[p].passed
  BY <1>1 DEF Row
<1>5. Rows' /\ RowStep
  BY <1>1, <1>2, <1>4 DEF RowInv, Rows, RowStep
<1>6. \A q \in Procs : snap'[q].version < saga'.version
  BY <1>2, <1>3, <1>4
<1>7. Versions'
  BY <1>2, <1>3, <1>4, <1>6 DEF Versions
<1> QED BY <1>5, <1>7 DEF RowInv

\* Another attempt or the cascade.
LEMMA AttemptLabel ==
  ASSUME Rows, NEW w \in Procs, NextAttempt(w) \/ GiveUp(w)
  PROVE  pc' \in [Procs -> Label]
BY DEF Rows, NextAttempt, GiveUp, Go, Label

-----------------------------------------------------------------------------
\* Every method call of every caller keeps the versions meaningful.
LEMMA RowNext == RowInv /\ [Next]_vars => RowInv' /\ RowStep
<1> SUFFICES ASSUME RowInv, [Next]_vars PROVE RowInv' /\ RowStep
  OBVIOUS
<1> USE DEF locals, store
<1>r. Rows /\ \A p \in Procs : snap[p] \in Row
  BY DEF RowInv, Rows
<1>0. CASE UNCHANGED vars
  BY <1>0, StayKeeps, <1>r DEF vars, Rows
<1>1. ASSUME NEW w \in Workers, Worker(w) PROVE RowInv' /\ RowStep
  <2>p. w \in Procs
    BY DEF Procs
  <2>1. CASE LoadTx(w) \/ LoadStep(w)
    BY <2>1, <2>p, <1>r, StayKeeps DEF LoadTx, LoadStep, Go, Rows, Label
  <2>2. CASE LoadSagaState(w)
    BY <2>2, <2>p, LoadKeeps, FinishKeeps DEF LoadSagaState, Label
  <2>3. CASE InsertStep(w) \/ UpdateRunning(w) \/ UpdateFailed(w) \/ UpdateSucceeded(w)
    <3>1. UNCHANGED <<saga, snap>>
      BY <2>3 DEF InsertStep, UpdateRunning, UpdateFailed, UpdateSucceeded
    <3>2. pc' \in [Procs -> Label]
      BY <2>3, <2>p, <1>r, AttemptLabel
      DEF InsertStep, UpdateRunning, UpdateFailed, UpdateSucceeded, Go, Rows, Label
    <3> QED BY <3>1, <3>2, StayKeeps
  <2>4. CASE SaveResult(w)
    <3>1. CASE SaveMatches(w)
      <4>1. Reached(w) \in State /\ StepOf(w) \in Nat /\ snap[w].passed <= StepOf(w)
        BY <2>p, <1>r DEF Reached, State, StepOf, Row
      <4>2. SaveSagaState(Reached(w), StepOf(w)) /\ UNCHANGED snap
        BY <2>4, <3>1 DEF SaveResult
      <4>3. pc' \in [Procs -> Label]
        BY <2>4, <3>1, <2>p, <1>r DEF SaveResult, Go, Rows, Label
      <4> QED BY <2>p, <3>1, <4>1, <4>2, <4>3, SaveKeeps
    <3>2. CASE ~SaveMatches(w)
      BY <2>4, <3>2, <2>p, <1>r, AttemptLabel, StayKeeps DEF SaveResult
    <3> QED BY <3>1, <3>2
  <2>5. CASE SaveStatus(w) \/ AppendEvent(w)
    <3>1. UNCHANGED <<saga, snap>>
      BY <2>5 DEF SaveStatus, AppendEvent
    <3>2. pc' \in [Procs -> Label]
      BY <2>5, <2>p, <1>r, AttemptLabel DEF SaveStatus, AppendEvent, Go, Rows, Label
    <3> QED BY <3>1, <3>2, StayKeeps
  <2> QED BY <1>1, <2>1, <2>2, <2>3, <2>4, <2>5 DEF Worker
<1>2. ASSUME NEW o \in Operators, Compensate(o) PROVE RowInv' /\ RowStep
  BY <1>2, <1>r, StayKeeps DEF Compensate, Go, Rows, Label, Procs
<1>3. ASSUME NEW p \in Procs, compensateCascade(p) PROVE RowInv' /\ RowStep
  <2>1. CASE CascadeLoadSaga(p)
    BY <2>1, LoadKeeps DEF CascadeLoadSaga, Label
  <2>2. CASE CascadeLoadTx(p) \/ CascadeMark(p) \/ CascadeMarked(p) \/ CascadeStatus(p)
    BY <2>2, <1>r, StayKeeps DEF CascadeLoadTx, CascadeMark, CascadeMarked, CascadeStatus,
       Go, Rows, Label
  <2>3. CASE CascadeSave(p)
    <3>1. Target(p) \in State /\ snap[p].passed \in Nat
      BY <1>r DEF Target, State, Row
    <3>2. pc' \in [Procs -> Label] /\ UNCHANGED snap
      BY <2>3, <1>r DEF CascadeSave, Go, Rows, Label
    <3>3. CASE SaveMatches(p)
      BY <2>3, <3>1, <3>2, <3>3, SaveKeeps DEF CascadeSave
    <3>4. CASE ~SaveMatches(p)
      BY <2>3, <3>2, <3>4, StayKeeps DEF CascadeSave
    <3> QED BY <3>3, <3>4
  <2>4. CASE CascadeAppend(p)
    BY <2>4, FinishKeeps DEF CascadeAppend
  <2> QED BY <1>3, <2>1, <2>2, <2>3, <2>4 DEF compensateCascade
<1>4. ASSUME NEW r \in Relays, ClaimOutboxPending(r) \/ MarkOutboxPublished(r)
      PROVE  RowInv' /\ RowStep
  BY <1>4, <1>r, StayKeeps DEF ClaimOutboxPending, MarkOutboxPublished, Rows
<1> QED BY <1>0, <1>1, <1>2, <1>3, <1>4 DEF Next

\* The invariant holds in every reachable state.
THEOREM RowsInvariant == Spec => []RowInv
<1>1. RowInv /\ [Next]_vars => RowInv'
  BY RowNext
<1> QED BY <1>1, RowInit, PTL DEF Spec

\* Every save of the saga row, by a worker or a cascade and in any
\* interleaving of their method calls, builds on the row it replaces.
THEOREM SavesAreKept == Spec => SavesBuildOnRow
<1>1. RowInv /\ [Next]_vars =>
        [saga' # saga => /\ saga'.version = saga.version + 1
                         /\ saga.passed <= saga'.passed]_vars
  BY RowNext DEF RowStep
<1> QED BY <1>1, RowsInvariant, PTL DEF Spec, SavesBuildOnRow

-----------------------------------------------------------------------------
(* Events.                                                                 *)

\* The outbox is a list of events; attempts are numbers.
Log ==
  /\ outbox \in Seq([key: Nat \X Nat, status: {"PENDING", "INFLIGHT", "PUBLISHED"}])
  /\ att \in [Procs -> Nat]

\* A worker that has saved its result has the saga past its step, until it
\* loads the saga again.
SavedFirst ==
  \A w \in Procs : pc[w] \in {"status", "append"} => StepOf(w) <= saga.passed

EventInv == RowInv /\ Log /\ SavedFirst /\ EventsFollowSaves

\* A new saga has the event of its creation only.
LEMMA EventInit == Init => EventInv
<1> SUFFICES ASSUME Init PROVE EventInv
  OBVIOUS
<1>1. RowInv
  BY RowInit
<1>2. outbox = <<[key |-> <<0, 0>>, status |-> "PENDING"]>> /\ saga.passed = 0
  BY DEF Init, CreateTx, CreatedKey, InitialSaga
<1>3. Log /\ EventsFollowSaves
  BY <1>2 DEF Init, Log, EventsFollowSaves
<1>4. SavedFirst
  BY DEF Init, SavedFirst
<1> QED BY <1>1, <1>3, <1>4 DEF EventInv

\* The saga never goes back.
LEMMA PassedGrows ==
  ASSUME RowInv, RowStep, RowInv'
  PROVE  saga.passed \in Nat /\ saga'.passed \in Nat /\ saga.passed <= saga'.passed
BY DEF RowInv, Rows, Row, RowStep

\* Appending an event of a step that the saga has passed.
LEMMA AppendKeeps ==
  ASSUME Log, EventsFollowSaves, saga.passed \in Nat, UNCHANGED saga,
         NEW n \in Nat, NEW a \in Nat, n <= saga.passed, AppendOutbox(<<n, a>>),
         att' \in [Procs -> Nat]
  PROVE  Log' /\ EventsFollowSaves'
<1> DEFINE e == [key |-> <<n, a>>, status |-> "PENDING"]
<1>1. CASE UNCHANGED outbox
  BY <1>1 DEF Log, EventsFollowSaves
<1>2. CASE outbox' = Append(outbox, e)
  <2>1. e \in [key: Nat \X Nat, status: {"PENDING", "INFLIGHT", "PUBLISHED"}]
    OBVIOUS
  <2>2. outbox' \in Seq([key: Nat \X Nat, status: {"PENDING", "INFLIGHT", "PUBLISHED"}])
    BY <1>2, <2>1 DEF Log
  <2>3. /\ DOMAIN outbox' = DOMAIN outbox \cup {Len(outbox) + 1}
        /\ outbox'[Len(outbox) + 1] = e
        /\ \A i \in DOMAIN outbox : outbox'[i] = outbox[i]
    BY <1>2, <2>1 DEF Log
  <2>4. e.key[1] = n
    OBVIOUS
  <2>5. EventsFollowSaves'
    BY <2>3, <2>4 DEF EventsFollowSaves
  <2> QED BY <2>2, <2>5 DEF Log
<1> QED BY <1>1, <1>2 DEF AppendOutbox

\* A claim or a mark keeps the keys.
LEMMA SetEventsKeeps ==
  ASSUME Log, EventsFollowSaves, UNCHANGED <<saga, att>>, NEW S,
         NEW st \in {"PENDING", "INFLIGHT", "PUBLISHED"}, SetEvents(S, st)
  PROVE  Log' /\ EventsFollowSaves'
<1> DEFINE E == [key: Nat \X Nat, status: {"PENDING", "INFLIGHT", "PUBLISHED"}]
<1>0. outbox \in Seq(E)
  BY DEF Log
<1>1. /\ Len(outbox) \in Nat /\ DOMAIN outbox = 1 .. Len(outbox)
      /\ \A i \in DOMAIN outbox : outbox[i] \in E
  <2> HIDE DEF E
  <2> QED BY <1>0, ElementOfSeq, LenProperties
<1>2. \A i \in DOMAIN outbox : /\ outbox'[i] \in E
                               /\ outbox'[i].key = outbox[i].key
  <2> SUFFICES ASSUME NEW i \in DOMAIN outbox
               PROVE  outbox'[i] \in E /\ outbox'[i].key = outbox[i].key
    OBVIOUS
  <2> DEFINE e == outbox[i]
             f == [e EXCEPT !.status = st]
  <2>1. e \in E
    BY <1>1
  <2>2. f \in E /\ f.key = e.key
    <3> HIDE DEF e
    <3> QED BY <2>1
  <2>3. outbox'[i] = f \/ outbox'[i] = e
    <3> HIDE DEF f
    <3>1. outbox'[i] = IF i \in S THEN f ELSE e
      BY DEF SetEvents, f
    <3> QED BY <3>1
  <2> HIDE DEF f
  <2> QED BY <2>1, <2>2, <2>3
<1>3. DOMAIN outbox' = DOMAIN outbox
  BY DEF SetEvents
<1>4. outbox' \in Seq(E)
  <2>1. outbox' = [i \in 1 .. Len(outbox) |-> outbox'[i]]
    BY <1>1, <1>3 DEF SetEvents
  <2>2. \A i \in 1 .. Len(outbox) : outbox'[i] \in E
    BY <1>1, <1>2
  <2>3. outbox' \in [1 .. Len(outbox) -> E]
    <3> HIDE DEF E
    <3> QED BY <2>1, <2>2
  <2> HIDE DEF E
  <2> QED BY <1>1, <2>3, SeqDef
<1>5. EventsFollowSaves'
  BY <1>2, <1>3 DEF EventsFollowSaves
<1> QED BY <1>4, <1>5 DEF Log

\* No method call of any caller puts an event ahead of its save.
LEMMA EventNext == EventInv /\ [Next]_vars => EventInv'
<1> SUFFICES ASSUME EventInv, [Next]_vars PROVE EventInv'
  OBVIOUS
<1> USE DEF locals, store
<1>r. RowInv /\ RowInv' /\ RowStep /\ Log /\ SavedFirst /\ EventsFollowSaves
  BY RowNext DEF EventInv
<1>g. saga.passed \in Nat /\ saga'.passed \in Nat /\ saga.passed <= saga'.passed
  BY <1>r, PassedGrows
<1>t. /\ pc \in [Procs -> Label] /\ att \in [Procs -> Nat]
      /\ \A p \in Procs : StepOf(p) \in Nat /\ snap[p] \in Row
  BY <1>r DEF RowInv, Rows, Row, Log, StepOf
<1>e. ASSUME UNCHANGED outbox, att' \in [Procs -> Nat] PROVE Log' /\ EventsFollowSaves'
  <2>1. \A i \in DOMAIN outbox : outbox[i].key[1] \in Nat
    <3> DEFINE E == [key: Nat \X Nat, status: {"PENDING", "INFLIGHT", "PUBLISHED"}]
    <3>1. outbox \in Seq(E)
      BY <1>r DEF Log
    <3>2. \A i \in DOMAIN outbox : outbox[i] \in E
      <4> HIDE DEF E
      <4> QED BY <3>1, ElementOfSeq, LenProperties
    <3>3. \A e \in E : e.key[1] \in Nat
      OBVIOUS
    <3> HIDE DEF E
    <3> QED BY <3>2, <3>3
  <2>2. Log'
    BY <1>e, <1>r DEF Log
  <2>3. \A i \in DOMAIN outbox : outbox[i].key[1] <= saga.passed
    BY <1>r DEF EventsFollowSaves
  <2>4. \A n \in Nat : n <= saga.passed => n <= saga'.passed
    BY <1>g
  <2>5. \A i \in DOMAIN outbox : outbox[i].key[1] <= saga'.passed
    BY <2>1, <2>3, <2>4
  <2> QED BY <1>e, <2>2, <2>5 DEF EventsFollowSaves
<1>s. ASSUME NEW p \in Procs,
             \A q \in Procs \ {p} : pc'[q] = pc[q] /\ snap'[q] = snap[q],
             pc'[p] \in {"status", "append"} => StepOf(p)' <= saga'.passed
      PROVE  SavedFirst'
  BY <1>s, <1>r, <1>g, <1>t DEF SavedFirst, StepOf
<1>f. snap \in [Procs -> Row]
  BY <1>r DEF RowInv, Rows
<1>0. CASE UNCHANGED vars
  <2>1. Log' /\ EventsFollowSaves'
    BY <1>0, <1>e, <1>t DEF vars
  <2> QED BY <1>0, <1>r, <2>1 DEF vars, EventInv, SavedFirst, StepOf
<1>1. ASSUME NEW w \in Workers, Worker(w) PROVE EventInv'
  <2>p. w \in Procs
    BY DEF Procs
  <2>a. ASSUME NextAttempt(w) \/ GiveUp(w)
        PROVE  /\ att' \in [Procs -> Nat]
               /\ pc'[w] \notin {"status", "append"}
               /\ \A q \in Procs \ {w} : pc'[q] = pc[q]
    BY <2>a, <2>p, <1>t DEF NextAttempt, GiveUp, Go
  <2>1. CASE LoadTx(w) \/ LoadSagaState(w) \/ LoadStep(w) \/ UpdateRunning(w)
             \/ UpdateSucceeded(w)
    <3>1. UNCHANGED outbox /\ att' \in [Procs -> Nat]
      BY <2>1, <2>p, <1>t DEF LoadTx, LoadSagaState, LoadStep, UpdateRunning,
                              UpdateSucceeded, Finish
    <3>2. /\ \A q \in Procs \ {w} : pc'[q] = pc[q] /\ snap'[q] = snap[q]
          /\ pc'[w] \notin {"status", "append"}
      <4>1. CASE LoadTx(w) \/ LoadStep(w) \/ UpdateRunning(w) \/ UpdateSucceeded(w)
        BY <4>1, <2>p, <1>t DEF LoadTx, LoadStep, UpdateRunning, UpdateSucceeded, Go
      <4>2. CASE LoadSagaState(w)
        BY <4>2, <2>p, <1>t, <1>f DEF LoadSagaState, Finish, Go
      <4> QED BY <2>1, <4>1, <4>2
    <3> QED BY <2>p, <3>1, <3>2, <1>e, <1>s, <1>r DEF EventInv
  <2>2. CASE InsertStep(w) \/ UpdateFailed(w)
    <3>1. UNCHANGED <<outbox, snap>> /\ att' \in [Procs -> Nat]
      BY <2>2, <2>a, <1>t DEF InsertStep, UpdateFailed
    <3>2. /\ \A q \in Procs \ {w} : pc'[q] = pc[q]
          /\ pc'[w] \notin {"status", "append"}
      BY <2>2, <2>p, <2>a, <1>t DEF InsertStep, UpdateFailed, Go
    <3> QED BY <2>p, <3>1, <3>2, <1>e, <1>s, <1>r DEF EventInv
  <2>3. CASE SaveResult(w)
    <3>1. UNCHANGED <<outbox, snap>> /\ att' \in [Procs -> Nat]
      BY <2>3, <2>a, <1>t DEF SaveResult
    <3>2. \A q \in Procs \ {w} : pc'[q] = pc[q]
      BY <2>3, <2>p, <2>a, <1>t DEF SaveResult, Go
    <3>3. pc'[w] \in {"status", "append"} => saga'.passed = StepOf(w)
      BY <2>3, <2>a DEF SaveResult, SaveSagaState
    <3>4. StepOf(w)' = StepOf(w)
      BY <3>1 DEF StepOf
    <3> QED BY <2>p, <3>1, <3>2, <3>3, <3>4, <1>e, <1>g, <1>s, <1>r DEF EventInv
  <2>4. CASE SaveStatus(w)
    <3>1. UNCHANGED <<outbox, snap, saga>> /\ att' \in [Procs -> Nat]
      BY <2>4, <2>a, <1>t DEF SaveStatus
    <3>2. \A q \in Procs \ {w} : pc'[q] = pc[q]
      BY <2>4, <2>p, <2>a, <1>t DEF SaveStatus, Go
    <3>3. StepOf(w) <= saga.passed /\ StepOf(w)' = StepOf(w)
      BY <2>4, <2>p, <1>r, <3>1 DEF SaveStatus, At, SavedFirst, StepOf
    <3> QED BY <2>p, <3>1, <3>2, <3>3, <1>e, <1>s, <1>r DEF EventInv
  <2>5. CASE AppendEvent(w)
    <3>1. UNCHANGED <<saga, snap, att>> /\ AppendOutbox(<<StepOf(w), att[w]>>)
      BY <2>5 DEF AppendEvent
    <3>2. StepOf(w) <= saga.passed
      BY <2>5, <2>p, <1>r DEF AppendEvent, At, SavedFirst
    <3>3. Log' /\ EventsFollowSaves'
      BY <2>p, <3>1, <3>2, <1>r, <1>g, <1>t, AppendKeeps
    <3>4. /\ \A q \in Procs \ {w} : pc'[q] = pc[q]
          /\ pc'[w] \notin {"status", "append"}
      BY <2>5, <2>p, <1>t DEF AppendEvent, Go
    <3> QED BY <2>p, <3>1, <3>3, <3>4, <1>s, <1>r DEF EventInv
  <2> QED BY <1>1, <2>1, <2>2, <2>3, <2>4, <2>5 DEF Worker
<1>2. ASSUME NEW o \in Operators, Compensate(o) PROVE EventInv'
  <2>1. o \in Procs /\ UNCHANGED <<outbox, snap, att>>
    BY <1>2 DEF Compensate, Procs
  <2>2. /\ \A q \in Procs \ {o} : pc'[q] = pc[q]
        /\ pc'[o] \notin {"status", "append"}
    BY <1>2, <2>1, <1>t DEF Compensate, Go
  <2> QED BY <2>1, <2>2, <1>e, <1>s, <1>r, <1>t DEF EventInv
<1>3. ASSUME NEW p \in Procs, compensateCascade(p) PROVE EventInv'
  <2>1. /\ \A q \in Procs \ {p} : pc'[q] = pc[q] /\ snap'[q] = snap[q]
        /\ pc'[p] \notin {"status", "append"}
        /\ att' \in [Procs -> Nat]
    <3>1. CASE CascadeLoadSaga(p) \/ CascadeLoadTx(p)
      BY <3>1, <1>t, <1>f DEF CascadeLoadSaga, CascadeLoadTx, Go
    <3>2. CASE CascadeMark(p) \/ CascadeMarked(p) \/ CascadeSave(p) \/ CascadeStatus(p)
      BY <3>2, <1>t, <1>f DEF CascadeMark, CascadeMarked, CascadeSave, CascadeStatus, Go
    <3>3. CASE CascadeAppend(p)
      BY <3>3, <1>t, <1>f DEF CascadeAppend, Finish, Go
    <3> QED BY <1>3, <3>1, <3>2, <3>3 DEF compensateCascade
  <2>2. CASE CascadeAppend(p)
    <3>1. FailureKey(Target(p)) \in {<<0, 1>>, <<0, 2>>}
      BY DEF FailureKey
    <3>2. UNCHANGED saga /\ AppendOutbox(FailureKey(Target(p)))
      BY <2>2 DEF CascadeAppend
    <3>3. Log' /\ EventsFollowSaves'
      BY <2>1, <3>1, <3>2, <1>r, <1>g, AppendKeeps
    <3> QED BY <2>1, <3>3, <1>s, <1>r DEF EventInv
  <2>3. CASE ~CascadeAppend(p)
    <3>1. UNCHANGED outbox
      BY <1>3, <2>3 DEF compensateCascade, CascadeLoadSaga, CascadeLoadTx, CascadeMark,
                        CascadeMarked, CascadeSave, CascadeStatus
    <3> QED BY <2>1, <3>1, <1>e, <1>s, <1>r DEF EventInv
  <2> QED BY <2>2, <2>3
<1>4. ASSUME NEW r \in Relays, ClaimOutboxPending(r) \/ MarkOutboxPublished(r)
      PROVE  EventInv'
  <2>1. /\ UNCHANGED <<saga, att, snap, pc>>
        /\ \E S : SetEvents(S, "INFLIGHT") \/ SetEvents(S, "PUBLISHED")
    BY <1>4 DEF ClaimOutboxPending, MarkOutboxPublished
  <2>2. Log' /\ EventsFollowSaves'
    BY <2>1, <1>r, SetEventsKeeps
  <2>3. SavedFirst'
    BY <2>1, <1>r DEF SavedFirst, StepOf
  <2> QED BY <2>2, <2>3, <1>r DEF EventInv
<1> QED BY <1>0, <1>1, <1>2, <1>3, <1>4 DEF Next

\* Consumers of the outbox never learn of a step that the saga has not
\* passed, however many callers share the store and whichever of them fail.
THEOREM EventsAreTrue == Spec => []EventsFollowSaves
<1>1. EventInv => EventsFollowSaves
  BY DEF EventInv
<1> QED BY <1>1, EventInit, EventNext, PTL DEF Spec

-----------------------------------------------------------------------------
(* Unique rows and claims.                                                 *)

Status == {"PENDING", "RUNNING", "SUCCEEDED", "FAILED", "COMPENSATING", "COMPENSATED"}

\* The step rows are a list; claims are sets of positions.
Lists ==
  /\ steps \in Seq([step: Nat, attempt: Nat, status: Status])
  /\ claimed \in [Relays -> SUBSET Nat]

KeyInv == EventInv /\ Lists /\ UniqueKeys /\ ClaimedOnce

UniqueRows ==
  \A i, j \in DOMAIN steps :
    steps[i].step = steps[j].step /\ steps[i].attempt = steps[j].attempt => i = j

UniqueEvents == \A i, j \in DOMAIN outbox : outbox[i].key = outbox[j].key => i = j

\* What a method call may do to the step rows and to the events.
StepsStep ==
  \/ UNCHANGED steps
  \/ \E n, a : \E st \in Status : SetStep(n, a, st)
  \/ \E n, a \in Nat : /\ StepAt(n, a) = {}
                      /\ steps' = Append(steps, [step |-> n, attempt |-> a,
                                                 status |-> "RUNNING"])

OutboxStep ==
  \/ UNCHANGED <<outbox, claimed>>
  \/ \E k : AppendOutbox(k) /\ UNCHANGED claimed
  \/ \E r \in Relays : ClaimOutboxPending(r) \/ MarkOutboxPublished(r)

\* Replacing elements of a list by others of the same kind leaves a list.
LEMMA ListOfSame ==
  ASSUME NEW S, NEW s \in Seq(S), NEW t, t = [i \in DOMAIN s |-> t[i]],
         \A i \in DOMAIN s : t[i] \in S
  PROVE  t \in Seq(S)
<1>1. Len(s) \in Nat /\ DOMAIN s = 1 .. Len(s)
  BY LenProperties
<1>2. t \in [1 .. Len(s) -> S]
  BY <1>1
<1> QED BY <1>1, <1>2, SeqDef

\* Rows are searched before they are inserted, within one method call.
LEMMA RowsStayUnique ==
  ASSUME Lists, UniqueRows, StepsStep
  PROVE  /\ UniqueRows'
         /\ steps' \in Seq([step: Nat, attempt: Nat, status: Status])
<1> DEFINE R == [step: Nat, attempt: Nat, status: Status]
<1>0. steps \in Seq(R)
  BY DEF Lists
<1>e. /\ Len(steps) \in Nat /\ DOMAIN steps = 1 .. Len(steps)
      /\ \A i \in DOMAIN steps : steps[i] \in R
  <2> HIDE DEF R
  <2> QED BY <1>0, ElementOfSeq, LenProperties
<1>1. CASE UNCHANGED steps
  BY <1>0, <1>1 DEF UniqueRows
<1>2. ASSUME NEW n, NEW a, NEW st \in Status, SetStep(n, a, st)
      PROVE  UniqueRows' /\ steps' \in Seq(R)
  <2>1. DOMAIN steps' = DOMAIN steps /\ steps' = [i \in DOMAIN steps |-> steps'[i]]
    BY <1>2 DEF SetStep
  <2>2. ASSUME NEW i \in DOMAIN steps
        PROVE  /\ steps'[i] \in R
               /\ steps'[i].step = steps[i].step /\ steps'[i].attempt = steps[i].attempt
    <3> DEFINE e == steps[i]
               f == [e EXCEPT !.status = st]
    <3>1. e \in R
      BY <1>e
    <3>2. f \in R /\ f.step = e.step /\ f.attempt = e.attempt
      <4> HIDE DEF e
      <4> QED BY <3>1
    <3>3. steps'[i] = f \/ steps'[i] = e
      <4>1. steps'[i] = IF i \in StepAt(n, a) THEN f ELSE e
        BY <1>2 DEF SetStep
      <4> HIDE DEF f, e
      <4> QED BY <4>1
    <3> HIDE DEF f, R
    <3> QED BY <3>1, <3>2, <3>3
  <2>3. UniqueRows'
    BY <2>1, <2>2 DEF UniqueRows
  <2>4. steps' \in Seq(R)
    <3> HIDE DEF R
    <3> QED BY <1>0, <2>1, <2>2, ListOfSame
  <2> QED BY <2>3, <2>4
<1>3. ASSUME NEW n \in Nat, NEW a \in Nat, StepAt(n, a) = {},
             steps' = Append(steps, [step |-> n, attempt |-> a, status |-> "RUNNING"])
      PROVE  UniqueRows' /\ steps' \in Seq(R)
  <2> DEFINE e == [step |-> n, attempt |-> a, status |-> "RUNNING"]
  <2>1. e \in R /\ e.step = n /\ e.attempt = a
    BY DEF Status
  <2>2. \A i \in DOMAIN steps : ~(steps[i].step = n /\ steps[i].attempt = a)
    BY <1>3 DEF StepAt
  <2>3. /\ steps' \in Seq(R)
        /\ DOMAIN steps' = DOMAIN steps \cup {Len(steps) + 1}
        /\ steps'[Len(steps) + 1] = e
        /\ \A i \in DOMAIN steps : steps'[i] = steps[i]
    <3> HIDE DEF R, e
    <3>1. steps' = Append(steps, e)
      BY <1>3 DEF e
    <3> QED BY <1>0, <1>e, <2>1, <3>1, AppendProperties
  <2> HIDE DEF e
  <2>4. UniqueRows'
    BY <2>1, <2>2, <2>3 DEF UniqueRows
  <2> QED BY <2>3, <2>4
<1> QED BY <1>1, <1>2, <1>3 DEF StepsStep

\* Keys are searched before events are appended, and a claim is made and
\* marked within one method call.
LEMMA EventsStayUnique ==
  ASSUME Log, Lists, UniqueEvents, ClaimedOnce, OutboxStep
  PROVE  /\ UniqueEvents' /\ ClaimedOnce'
         /\ claimed' \in [Relays -> SUBSET Nat]
<1> DEFINE E == [key: Nat \X Nat, status: {"PENDING", "INFLIGHT", "PUBLISHED"}]
<1>0. outbox \in Seq(E) /\ claimed \in [Relays -> SUBSET Nat]
  BY DEF Log, Lists
<1>e. /\ Len(outbox) \in Nat /\ DOMAIN outbox = 1 .. Len(outbox)
      /\ \A i \in DOMAIN outbox : outbox[i] \in E
  <2> HIDE DEF E
  <2> QED BY <1>0, ElementOfSeq, LenProperties
<1>1. CASE UNCHANGED <<outbox, claimed>>
  BY <1>0, <1>1 DEF UniqueEvents, ClaimedOnce
<1>2. ASSUME NEW k, ~HasEvent(k), UNCHANGED claimed,
             outbox' = Append(outbox, [key |-> k, status |-> "PENDING"])
      PROVE  UniqueEvents' /\ ClaimedOnce'
  <2> DEFINE e == [key |-> k, status |-> "PENDING"]
  <2>1. /\ DOMAIN outbox' = DOMAIN outbox \cup {Len(outbox) + 1}
        /\ outbox'[Len(outbox) + 1] = e
        /\ \A i \in DOMAIN outbox : outbox'[i] = outbox[i]
    BY <1>0, <1>2, <1>e
  <2>2. e.key = k
    OBVIOUS
  <2>3. \A i \in DOMAIN outbox : outbox[i].key # k
    BY <1>2 DEF HasEvent
  <2> HIDE DEF e
  <2>4. UniqueEvents'
    BY <2>1, <2>2, <2>3 DEF UniqueEvents
  <2>5. ClaimedOnce'
    BY <1>2, <2>1 DEF ClaimedOnce
  <2> QED BY <2>4, <2>5
<1>3. ASSUME NEW S, NEW st \in {"INFLIGHT", "PUBLISHED"}, SetEvents(S, st)
      PROVE  /\ UniqueEvents' /\ DOMAIN outbox' = DOMAIN outbox
             /\ \A i \in DOMAIN outbox :
                  outbox'[i].status = IF i \in S THEN st ELSE outbox[i].status
  <2>1. DOMAIN outbox' = DOMAIN outbox
    BY <1>3 DEF SetEvents
  <2>2. ASSUME NEW i \in DOMAIN outbox
        PROVE  /\ outbox'[i].key = outbox[i].key
               /\ outbox'[i].status = IF i \in S THEN st ELSE outbox[i].status
    <3> DEFINE e == outbox[i]
               f == [e EXCEPT !.status = st]
    <3>1. e \in E
      BY <1>e
    <3>2. f.key = e.key /\ f.status = st
      <4> HIDE DEF e
      <4> QED BY <3>1
    <3>3. outbox'[i] = IF i \in S THEN f ELSE e
      BY <1>3 DEF SetEvents
    <3> HIDE DEF f
    <3> QED BY <3>2, <3>3
  <2> QED BY <2>1, <2>2 DEF UniqueEvents
<1>4. ASSUME NEW r \in Relays, ClaimOutboxPending(r)
      PROVE  /\ UniqueEvents' /\ ClaimedOnce' /\ claimed' \in [Relays -> SUBSET Nat]
  <2> DEFINE first == {i \in Pending : Cardinality({j \in Pending : j < i}) < Limit}
  <2>1. /\ SetEvents(first, "INFLIGHT")
        /\ claimed' = [claimed EXCEPT ![r] = first]
    BY <1>4 DEF ClaimOutboxPending
  <2>2. first \subseteq DOMAIN outbox /\ \A i \in first : outbox[i].status = "PENDING"
    BY DEF Pending
  <2> HIDE DEF first
  <2>3. /\ UniqueEvents' /\ DOMAIN outbox' = DOMAIN outbox
        /\ \A i \in DOMAIN outbox :
             outbox'[i].status = IF i \in first THEN "INFLIGHT" ELSE outbox[i].status
    BY <1>3, <2>1
  <2>4. /\ claimed'[r] = first
        /\ \A q \in Relays \ {r} : claimed'[q] = claimed[q]
        /\ claimed' \in [Relays -> SUBSET Nat]
    BY <1>0, <1>e, <2>1, <2>2
  <2>5. \A q \in Relays : claimed[q] \cap first = {}
    BY <2>2 DEF ClaimedOnce
  <2>6. ClaimedOnce'
    BY <2>2, <2>3, <2>4, <2>5 DEF ClaimedOnce
  <2> QED BY <2>3, <2>4, <2>6
<1>5. ASSUME NEW r \in Relays, MarkOutboxPublished(r)
      PROVE  /\ UniqueEvents' /\ ClaimedOnce' /\ claimed' \in [Relays -> SUBSET Nat]
  <2>1. PICK S \in SUBSET claimed[r] : SetEvents(S, "PUBLISHED")
    BY <1>5 DEF MarkOutboxPublished
  <2>2. claimed' = [claimed EXCEPT ![r] = {}]
    BY <1>5 DEF MarkOutboxPublished
  <2>3. /\ UniqueEvents' /\ DOMAIN outbox' = DOMAIN outbox
        /\ \A i \in DOMAIN outbox :
             outbox'[i].status = IF i \in S THEN "PUBLISHED" ELSE outbox[i].status
    BY <1>3, <2>1
  <2>4. /\ claimed'[r] = {}
        /\ \A q \in Relays \ {r} : claimed'[q] = claimed[q]
        /\ claimed' \in [Relays -> SUBSET Nat]
    BY <1>0, <2>2
  <2>5. \A q \in Relays \ {r} : claimed[q] \cap S = {}
    BY <2>1 DEF ClaimedOnce
  <2>6. ClaimedOnce'
    BY <2>3, <2>4, <2>5 DEF ClaimedOnce
  <2> QED BY <2>3, <2>4, <2>6
<1> QED BY <1>0, <1>1, <1>2, <1>4, <1>5 DEF OutboxStep, AppendOutbox

\* Every method call of every caller is such a step.
LEMMA KeySteps ==
  ASSUME EventInv, Lists, [Next]_vars
  PROVE  StepsStep /\ OutboxStep
<1> USE DEF locals, store
<1>t. /\ 1 \in Nat
      /\ \A p \in Procs : StepOf(p) \in Nat /\ att[p] \in Nat
  BY DEF EventInv, RowInv, Rows, Row, Log, StepOf
<1>1. ASSUME NEW w \in Workers, Worker(w) PROVE StepsStep /\ OutboxStep
  <2>p. w \in Procs
    BY DEF Procs
  <2>1. CASE LoadTx(w) \/ LoadSagaState(w) \/ LoadStep(w) \/ SaveResult(w) \/ SaveStatus(w)
    BY <2>1 DEF LoadTx, LoadSagaState, LoadStep, SaveResult, SaveStatus, StepsStep,
                OutboxStep
  <2>2. CASE UpdateRunning(w) \/ UpdateFailed(w) \/ UpdateSucceeded(w)
    <3>1. /\ UNCHANGED <<outbox, claimed>>
          /\ \E st \in Status : SetStep(StepOf(w), att[w], st)
      BY <2>2 DEF UpdateRunning, UpdateFailed, UpdateSucceeded, Status
    <3> QED BY <2>p, <3>1, <1>t DEF StepsStep, OutboxStep
  <2>3. CASE InsertStep(w)
    <3>1. UNCHANGED <<outbox, claimed>>
      BY <2>3 DEF InsertStep
    <3>2. \/ UNCHANGED steps
          \/ /\ StepAt(StepOf(w), att[w]) = {}
             /\ steps' = Append(steps, [step |-> StepOf(w), attempt |-> att[w],
                                        status |-> "RUNNING"])
      BY <2>3 DEF InsertStep
    <3> QED BY <2>p, <3>1, <3>2, <1>t DEF StepsStep, OutboxStep
  <2>4. CASE AppendEvent(w)
    BY <2>4 DEF AppendEvent, StepsStep, OutboxStep
  <2> QED BY <1>1, <2>1, <2>2, <2>3, <2>4 DEF Worker
<1>2. ASSUME NEW o \in Operators, Compensate(o) PROVE StepsStep /\ OutboxStep
  BY <1>2 DEF Compensate, StepsStep, OutboxStep
<1>3. ASSUME NEW p \in Procs, compensateCascade(p) PROVE StepsStep /\ OutboxStep
  <2>1. CASE CascadeLoadSaga(p) \/ CascadeLoadTx(p) \/ CascadeSave(p) \/ CascadeStatus(p)
    BY <2>1 DEF CascadeLoadSaga, CascadeLoadTx, CascadeSave, CascadeStatus, StepsStep,
                OutboxStep
  <2>2. CASE CascadeMark(p) \/ CascadeMarked(p)
    <3>1. /\ UNCHANGED <<outbox, claimed>>
          /\ \E st \in Status : SetStep(idx[p], 1, st)
      BY <2>2 DEF CascadeMark, CascadeMarked, Status
    <3> QED BY <3>1 DEF StepsStep, OutboxStep
  <2>3. CASE CascadeAppend(p)
    BY <2>3 DEF CascadeAppend, StepsStep, OutboxStep
  <2> QED BY <1>3, <2>1, <2>2, <2>3 DEF compensateCascade
<1>4. ASSUME NEW r \in Relays, ClaimOutboxPending(r) \/ MarkOutboxPublished(r)
      PROVE  StepsStep /\ OutboxStep
  BY <1>4 DEF ClaimOutboxPending, MarkOutboxPublished, StepsStep, OutboxStep
<1>5. CASE UNCHANGED vars
  BY <1>5 DEF vars, StepsStep, OutboxStep
<1> QED BY <1>1, <1>2, <1>3, <1>4, <1>5 DEF Next

\* What CreateTx inserts is unique, and nothing is claimed yet.
LEMMA KeyInit == Init => KeyInv
<1> SUFFICES ASSUME Init PROVE KeyInv
  OBVIOUS
<1> DEFINE R == [step: Nat, attempt: Nat, status: Status]
<1>1. steps = [s \in 1 .. LastStep |-> [step |-> s, attempt |-> 1, status |-> "PENDING"]]
  BY DEF Init, CreateTx
<1>2. /\ DOMAIN steps = 1 .. LastStep
      /\ \A i \in 1 .. LastStep : steps[i] \in R /\ steps[i].step = i
  BY <1>1, MemStoreAssumption DEF Status
<1>3. steps \in Seq(R)
  <2>1. LastStep \in Nat
    BY MemStoreAssumption
  <2>2. steps \in [1 .. LastStep -> R]
    <3> HIDE DEF R
    <3>1. steps = [s \in 1 .. LastStep |-> steps[s]]
      BY <1>1
    <3> QED BY <1>2, <3>1
  <2> HIDE DEF R
  <2> QED BY <2>1, <2>2, SeqDef
<1>4. Lists
  BY <1>3 DEF Lists, Init
<1>5. UniqueKeys
  <2>1. DOMAIN outbox = {1}
    BY DEF Init, CreateTx
  <2> QED BY <1>2, <2>1 DEF UniqueKeys
<1>6. ClaimedOnce
  BY DEF Init, ClaimedOnce
<1> QED BY <1>4, <1>5, <1>6, EventInit DEF KeyInv

\* Rows and keys stay unique, claims disjoint.
LEMMA KeyNext == KeyInv /\ [Next]_vars => KeyInv'
<1> SUFFICES ASSUME KeyInv, [Next]_vars PROVE KeyInv'
  OBVIOUS
<1>1. /\ EventInv /\ EventInv' /\ Log /\ Lists /\ ClaimedOnce
      /\ UniqueRows /\ UniqueEvents
  BY EventNext DEF KeyInv, EventInv, UniqueKeys, UniqueRows, UniqueEvents
<1>2. StepsStep /\ OutboxStep
  BY <1>1, KeySteps
<1>3. UniqueRows' /\ steps' \in Seq([step: Nat, attempt: Nat, status: Status])
  BY <1>1, <1>2, RowsStayUnique
<1>4. UniqueEvents' /\ ClaimedOnce' /\ claimed' \in [Relays -> SUBSET Nat]
  BY <1>1, <1>2, EventsStayUnique
<1>5. UniqueKeys'
  BY <1>3, <1>4 DEF UniqueKeys, UniqueRows, UniqueEvents
<1> QED BY <1>1, <1>3, <1>4, <1>5 DEF KeyInv, Lists

\* However the calls of workers, cascades and relays interleave, there is one
\* row for each attempt of a step and one event for each dedup key.
THEOREM KeysAreUnique == Spec => []UniqueKeys
<1>1. KeyInv => UniqueKeys
  BY DEF KeyInv
<1> QED BY <1>1, KeyInit, KeyNext, PTL DEF Spec

\* No two relays, however many there are, hold the same event.
THEOREM ClaimsAreDisjoint == Spec => []ClaimedOnce
<1>1. KeyInv => ClaimedOnce
  BY DEF KeyInv
<1> QED BY <1>1, KeyInit, KeyNext, PTL DEF Spec
=============================================================================
