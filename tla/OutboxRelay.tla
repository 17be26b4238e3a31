----------------------------- MODULE OutboxRelay -----------------------------
(***************************************************************************)
(* The outbox relays (internal/outbox): the relay of each orchestrator     *)
(* process claims a batch of PENDING outbox rows, flips them to INFLIGHT   *)
(* in one SQL transaction, publishes them one by one outside of it, and    *)
(* marks what it published in a second SQL transaction.                    *)
(*                                                                         *)
(* Events are numbered in the order of created_at.  The event bus is the   *)
(* sequence of the messages it accepted, in that order.                    *)
(***************************************************************************)
EXTENDS Integers, Sequences, FiniteSets

CONSTANTS
  Relays,      \* one per orchestrator process
  LastEvent,   \* number of events that are ever appended
  TxOf,        \* the transaction an event belongs to
  BatchSize,   \* OUTBOX_BATCH_SIZE
  Faults,      \* what may fail, a subset of FaultKind
  MaxFaults    \* bound on those failures in one behaviour

\* "store": a SQL transaction of the relay fails and is rolled back;
\* "ack":   it commits but Commit reports an error;
\* "bus":   Publish fails to no effect;
\* "reply": the bus accepts the message and Publish still fails;
\* "crash": the process of the relay dies and is started again.
FaultKind == {"store", "ack", "bus", "reply", "crash"}

Event == 1 .. LastEvent

ASSUME RelayAssumption ==
  /\ LastEvent \in Nat
  /\ BatchSize \in Nat \ {0}
  /\ Faults \subseteq FaultKind
  /\ MaxFaults \in Nat
  /\ DOMAIN TxOf = Event

VARIABLES
  status,   \* the status column of each event's row
  pc,       \* where the drainOnce of each relay stands
  batch,    \* events a relay has selected and not yet passed on to the bus
  sent,     \* publishedIDs: events of this batch it has published
  bus,      \* messages the event bus accepted
  faults    \* failures so far

vars == <<status, pc, batch, sent, bus, faults>>

OutboxStatus == {"ABSENT", "PENDING", "INFLIGHT", "PUBLISHED"}

TypeOK ==
  /\ status \in [Event -> OutboxStatus]
  /\ pc \in [Relays -> {"idle", "claim", "publish", "mark"}]
  /\ batch \in [Relays -> SUBSET Event]
  /\ sent \in [Relays -> SUBSET Event]
  /\ bus \in Seq(Event)
  /\ faults \in 0 .. MaxFaults

Init ==
  /\ status = [e \in Event |-> "ABSENT"]
  /\ pc = [r \in Relays |-> "idle"]
  /\ batch = [r \in Relays |-> {}]
  /\ sent = [r \in Relays |-> {}]
  /\ bus = <<>>
  /\ faults = 0

-----------------------------------------------------------------------------
At(r, l) == pc[r] = l
Go(r, l) == pc' = [pc EXCEPT ![r] = l]

Fails(k) == k \in Faults /\ faults < MaxFaults /\ faults' = faults + 1
Works == UNCHANGED faults

\* drainOnce returns.
Finish(r) ==
  /\ Go(r, "idle")
  /\ batch' = [batch EXCEPT ![r] = {}]
  /\ sent' = [sent EXCEPT ![r] = {}]

SetStatus(events, s) ==
  status' = [e \in Event |-> IF e \in events THEN s ELSE status[e]]

\* A saga transition commits its event; a transaction's events are created
\* in order, those of different transactions commit in any order.
AppendOutbox(e) ==
  /\ status[e] = "ABSENT"
  /\ \A d \in 1 .. e - 1 : TxOf[d] = TxOf[e] => status[d] # "ABSENT"
  /\ status' = [status EXCEPT ![e] = "PENDING"]
  /\ UNCHANGED <<pc, batch, sent, bus, faults>>

\* Rows whose lock another relay holds: its claim has not committed yet.
Locked == UNION {batch[q] : q \in {p \in Relays : At(p, "claim")}}

\* Defect: ORDER BY created_at DESC.
FirstOfNewest(events) ==
  {e \in events : Cardinality({d \in events : d > e}) < BatchSize}

\* The first BatchSize of the given events, by created_at.
FirstOf(events) ==
  {e \in events : Cardinality({d \in events : d < e}) < BatchSize}

\* Defect: FOR UPDATE without a look at the locks of other relays.
SelectablePending == {e \in Event : status[e] = "PENDING"}

\* The rows SELECT ... FOR UPDATE SKIP LOCKED can return.
Selectable == {e \in Event : status[e] = "PENDING"} \ Locked

\* ClaimOutboxPending locks a batch; nothing happens when there is none.
Select(r) ==
  /\ At(r, "idle")
  /\ Selectable # {}
  /\ batch' = [batch EXCEPT ![r] = FirstOf(Selectable)]
  /\ Go(r, "claim")
  /\ UNCHANGED <<status, sent, bus, faults>>

\* The claim commits; if its acknowledgement is lost drainOnce returns.
ClaimCommits(r) ==
  /\ At(r, "claim")
  /\ SetStatus(batch[r], "INFLIGHT")
  /\ \/ Works /\ Go(r, "publish") /\ UNCHANGED <<batch, sent>>
     \/ Fails("ack") /\ Finish(r)
  /\ UNCHANGED bus

ClaimFails(r) ==
  /\ At(r, "claim")
  /\ Fails("store")
  /\ Finish(r)
  /\ UNCHANGED <<status, bus>>

\* The earliest event of the batch that has not been published.
NextOf(r, e) == e \in batch[r] /\ \A d \in batch[r] : e <= d

Publish(r, e) ==
  /\ At(r, "publish")
  /\ NextOf(r, e)
  /\ bus' = Append(bus, e)
  /\ sent' = [sent EXCEPT ![r] = @ \cup {e}]
  /\ batch' = [batch EXCEPT ![r] = @ \ {e}]
  /\ Go(r, IF batch[r] = {e} THEN "mark" ELSE "publish")
  /\ UNCHANGED <<status, faults>>

\* The loop breaks at the first error: the rest of the batch is left as it
\* is, and so is everything when nothing had been published yet.
PublishFails(r, e) ==
  /\ At(r, "publish")
  /\ NextOf(r, e)
  /\ \/ Fails("bus") /\ UNCHANGED bus
     \/ Fails("reply") /\ bus' = Append(bus, e)
  /\ IF sent[r] = {} THEN Finish(r) ELSE Go(r, "mark") /\ UNCHANGED <<batch, sent>>
  /\ UNCHANGED status

\* Defect: the whole claimed batch is marked.
MarkWholeBatch(r) ==
  /\ At(r, "mark")
  /\ SetStatus(sent[r] \cup batch[r], "PUBLISHED")
  /\ Works \/ Fails("ack")
  /\ Finish(r)
  /\ UNCHANGED bus

\* Defect: the last published event is not marked.
MarkAllButLast(r) ==
  /\ At(r, "mark")
  /\ SetStatus({e \in sent[r] : \E d \in sent[r] : d > e}, "PUBLISHED")
  /\ Works \/ Fails("ack")
  /\ Finish(r)
  /\ UNCHANGED bus

Mark(r) ==
  /\ At(r, "mark")
  /\ SetStatus(sent[r], "PUBLISHED")
  /\ Works \/ Fails("ack")
  /\ Finish(r)
  /\ UNCHANGED bus

MarkFails(r) ==
  /\ At(r, "mark")
  /\ Fails("store")
  /\ Finish(r)
  /\ UNCHANGED <<status, bus>>

\* The locks of an uncommitted claim go with the process; INFLIGHT rows stay.
Crash(r) ==
  /\ ~At(r, "idle")
  /\ Fails("crash")
  /\ Finish(r)
  /\ UNCHANGED <<status, bus>>

Drain(r) ==
  \/ Select(r) \/ ClaimCommits(r) \/ Mark(r)
  \/ \E e \in Event : Publish(r, e)

Next ==
  \/ \E e \in Event : AppendOutbox(e)
  \/ \E r \in Relays :
        \/ Drain(r) \/ ClaimFails(r) \/ MarkFails(r) \/ Crash(r)
        \/ \E e \in Event : PublishFails(r, e)

Spec == Init /\ [][Next]_vars

\* A ticker drives drainOnce for as long as the process lives.
FairSpec == Spec /\ \A r \in Relays : WF_vars(Drain(r))

-----------------------------------------------------------------------------
(* Properties.                                                             *)

\* "Two relay instances with SKIP LOCKED do not double-publish": no event is
\* on the bus twice, whichever relay claims, fails or crashes when.
NoDoublePublish ==
  \A i, j \in DOMAIN bus : bus[i] = bus[j] => i = j

\* A row is marked PUBLISHED only if the bus has accepted the event: the
\* break in the loop of drainOnce keeps the rest of a batch unmarked.
PublishedIsOnBus ==
  \A e \in Event : status[e] = "PUBLISHED" => \E i \in DOMAIN bus : bus[i] = e

\* While nothing fails, an event overtakes an earlier one of its transaction
\* only if ANOTHER relay has that one in hand: a relay neither skips an older
\* row when it claims nor reorders what it has claimed.
OvertakesOthersOnly ==
  [][\A r \in Relays : \A e \in sent'[r] \ sent[r] : \A d \in 1 .. e - 1 :
       TxOf[d] = TxOf[e] =>
         \/ \E i \in DOMAIN bus : bus[i] = d
         \/ \E q \in Relays \ {r} : d \in batch[q]
         \/ faults > 0]_vars

\* Consumers see the events of one transaction in the order of its
\* transitions (created_at).
InOrder ==
  \A i, j \in DOMAIN bus :
    i < j /\ TxOf[bus[i]] = TxOf[bus[j]] => bus[i] <= bus[j]

\* Every event that is committed with a transition reaches the bus.
Delivered ==
  \A e \in Event :
    status[e] = "PENDING" ~> \E i \in DOMAIN bus : bus[i] = e

\* As long as nothing fails, every committed event is in the end published
\* and marked: no claim is forgotten and no relay waits for another.
Settled ==
  \A e \in Event :
    status[e] = "PENDING" ~> (status[e] = "PUBLISHED" \/ faults > 0)
=============================================================================
