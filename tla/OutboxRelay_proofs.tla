-------------------------- MODULE OutboxRelay_proofs --------------------------
(***************************************************************************)
(* The outbox relays never publish an event twice, for any number of       *)
(* relays and events, any batch size and any failures.                     *)
(*                                                                         *)
(* The argument: an event is in the batch of at most one relay that still  *)
(* has the right to publish it.  While a claim has not committed that      *)
(* right is the row lock, which SKIP LOCKED respects; afterwards it is the *)
(* INFLIGHT status, which nobody ever takes back.                          *)
(***************************************************************************)
EXTENDS OutboxRelay, FiniteSetTheorems, TLAPS

\* The relays that may yet publish what is in their batch.
Claiming(r) == pc[r] \in {"claim", "publish"}

\* No two relays claim the same event: SKIP LOCKED before the commit, the
\* INFLIGHT status after it.
ClaimsDisjoint ==
  \A r, q \in Relays :
    r # q /\ Claiming(r) /\ Claiming(q) => batch[r] \cap batch[q] = {}

\* The rows of an uncommitted claim are PENDING, those of a committed one
\* are INFLIGHT.
ClaimStatus ==
  \A r \in Relays : \A e \in batch[r] :
    /\ pc[r] = "claim" => status[e] = "PENDING"
    /\ pc[r] = "publish" => status[e] = "INFLIGHT"

\* An event the bus has accepted is claimed or marked, and no relay is about
\* to publish it.
BusStatus ==
  \A i \in DOMAIN bus :
    /\ status[bus[i]] \in {"INFLIGHT", "PUBLISHED"}
    /\ \A r \in Relays : pc[r] = "publish" => bus[i] \notin batch[r]

\* What a relay takes for published is on the bus.
SentOnBus ==
  \A r \in Relays : \A e \in sent[r] : \E i \in DOMAIN bus : bus[i] = e

RelayInv ==
  /\ TypeOK /\ ClaimsDisjoint /\ ClaimStatus /\ BusStatus /\ SentOnBus
  /\ NoDoublePublish /\ PublishedIsOnBus

-----------------------------------------------------------------------------
\* Appending to the bus: the old messages stay where they are.
LEMMA BusAppend ==
  ASSUME NEW b \in Seq(Event), NEW e \in Event
  PROVE  /\ Append(b, e) \in Seq(Event)
         /\ DOMAIN Append(b, e) = DOMAIN b \cup {Len(b) + 1}
         /\ Append(b, e)[Len(b) + 1] = e
         /\ \A i \in DOMAIN b : Append(b, e)[i] = b[i] /\ i # Len(b) + 1
OBVIOUS

\* The relays start with an empty bus and no claim.
LEMMA RelayInit == Init => RelayInv
BY RelayAssumption DEF Init, RelayInv, TypeOK, ClaimsDisjoint, Claiming, ClaimStatus,
   BusStatus, SentOnBus, NoDoublePublish, PublishedIsOnBus, OutboxStatus

\* Every step of every relay keeps the invariant.
LEMMA RelayNext == RelayInv /\ [Next]_vars => RelayInv'
<1> SUFFICES ASSUME RelayInv, [Next]_vars PROVE RelayInv'
  OBVIOUS
<1> USE RelayAssumption DEF RelayInv
<1>0. CASE UNCHANGED vars
  BY <1>0 DEF vars, TypeOK, ClaimsDisjoint, Claiming, ClaimStatus, BusStatus,
     SentOnBus, NoDoublePublish, PublishedIsOnBus
<1>1. ASSUME NEW e \in Event, AppendOutbox(e) PROVE RelayInv'
  BY <1>1 DEF AppendOutbox, TypeOK, ClaimsDisjoint, Claiming, ClaimStatus,
     BusStatus, SentOnBus, NoDoublePublish, PublishedIsOnBus, OutboxStatus
<1>2. ASSUME NEW r \in Relays, Select(r) PROVE RelayInv'
  <2>1. /\ FirstOf(Selectable) \subseteq Event
        /\ \A e \in FirstOf(Selectable) : status[e] = "PENDING" /\ e \notin Locked
    BY DEF FirstOf, Selectable
  <2>2. TypeOK'
    BY <1>2, <2>1 DEF Select, Go, At, TypeOK
  <2>3. ClaimsDisjoint'
    BY <1>2, <2>1 DEF Select, Go, At, TypeOK, ClaimsDisjoint, Claiming, ClaimStatus, Locked
  <2>4. ClaimStatus'
    BY <1>2, <2>1 DEF Select, Go, At, TypeOK, ClaimStatus
  <2>5. BusStatus' /\ SentOnBus' /\ NoDoublePublish' /\ PublishedIsOnBus'
    BY <1>2 DEF Select, Go, At, TypeOK, BusStatus, SentOnBus, NoDoublePublish, PublishedIsOnBus
  <2> QED BY <2>2, <2>3, <2>4, <2>5
<1>3. ASSUME NEW r \in Relays, ClaimCommits(r) PROVE RelayInv'
  <2>0. /\ pc[r] = "claim" /\ bus' = bus
        /\ \A e \in Event : status'[e] = IF e \in batch[r] THEN "INFLIGHT" ELSE status[e]
        /\ status' \in [Event -> OutboxStatus]
    BY <1>3 DEF ClaimCommits, SetStatus, At, TypeOK, OutboxStatus
  <2>a. /\ \A q \in Relays : q # r => /\ pc'[q] = pc[q] /\ batch'[q] = batch[q]
                                      /\ sent'[q] = sent[q]
        /\ pc'[r] \in {"publish", "idle"}
        /\ batch'[r] \subseteq batch[r] /\ sent'[r] \subseteq sent[r]
        /\ TypeOK'
    BY <1>3, <2>0 DEF ClaimCommits, Finish, Go, Works, Fails, TypeOK
  <2>1. ClaimsDisjoint'
    BY <2>0, <2>a DEF ClaimsDisjoint, Claiming
  <2>2. ClaimStatus'
    BY <2>0, <2>a DEF ClaimStatus, TypeOK, ClaimsDisjoint, Claiming
  <2>3. BusStatus'
    BY <2>0, <2>a DEF BusStatus, ClaimStatus, TypeOK
  <2>4. SentOnBus' /\ NoDoublePublish' /\ PublishedIsOnBus'
    BY <2>0, <2>a DEF SentOnBus, NoDoublePublish, PublishedIsOnBus
  <2> QED BY <2>a, <2>1, <2>2, <2>3, <2>4
<1>4. ASSUME NEW r \in Relays, NEW e \in Event, Publish(r, e) PROVE RelayInv'
  <2>0. /\ pc[r] = "publish" /\ e \in batch[r] /\ bus' = Append(bus, e)
        /\ status' = status
        /\ \A q \in Relays : q # r => /\ pc'[q] = pc[q] /\ batch'[q] = batch[q]
                                      /\ sent'[q] = sent[q]
        /\ pc'[r] \in {"publish", "mark"}
        /\ batch'[r] = batch[r] \ {e} /\ sent'[r] = sent[r] \cup {e}
    BY <1>4 DEF Publish, NextOf, At, Go, TypeOK
  <2>b. /\ bus \in Seq(Event) /\ bus' \in Seq(Event)
        /\ DOMAIN bus' = DOMAIN bus \cup {Len(bus) + 1}
        /\ bus'[Len(bus) + 1] = e
        /\ \A i \in DOMAIN bus : bus'[i] = bus[i] /\ i # Len(bus) + 1
    BY <2>0, BusAppend DEF TypeOK
  <2>1. TypeOK'
    BY <1>4, <2>b DEF Publish, Go, TypeOK
  <2>2. ClaimsDisjoint'
    BY <2>0 DEF ClaimsDisjoint, Claiming
  <2>3. ClaimStatus'
    BY <2>0 DEF ClaimStatus
  <2>4. \A q \in Relays : pc'[q] = "publish" => e \notin batch'[q]
    BY <2>0 DEF ClaimsDisjoint, Claiming
  <2>5. status[e] = "INFLIGHT" /\ \A i \in DOMAIN bus : bus[i] # e
    BY <2>0 DEF ClaimStatus, BusStatus
  <2>6. BusStatus'
    BY <2>0, <2>b, <2>4, <2>5 DEF BusStatus
  <2>7. SentOnBus'
    BY <2>0, <2>b DEF SentOnBus
  <2>8. NoDoublePublish'
    BY <2>b, <2>5 DEF NoDoublePublish
  <2>9. PublishedIsOnBus'
    BY <2>0, <2>b DEF PublishedIsOnBus
  <2> QED BY <2>1, <2>2, <2>3, <2>6, <2>7, <2>8, <2>9
<1>5. ASSUME NEW r \in Relays, NEW e \in Event, PublishFails(r, e) PROVE RelayInv'
  <2>0. /\ pc[r] = "publish" /\ e \in batch[r]
        /\ status' = status
        /\ \A q \in Relays : q # r => /\ pc'[q] = pc[q] /\ batch'[q] = batch[q]
                                      /\ sent'[q] = sent[q]
        /\ pc'[r] \in {"idle", "mark"}
        /\ batch'[r] \subseteq batch[r] /\ sent'[r] \subseteq sent[r]
        /\ bus' = bus \/ bus' = Append(bus, e)
    BY <1>5 DEF PublishFails, NextOf, At, Go, Finish, TypeOK
  <2>a. /\ bus \in Seq(Event) /\ Append(bus, e) \in Seq(Event)
        /\ DOMAIN Append(bus, e) = DOMAIN bus \cup {Len(bus) + 1}
        /\ Append(bus, e)[Len(bus) + 1] = e
        /\ \A i \in DOMAIN bus : Append(bus, e)[i] = bus[i] /\ i # Len(bus) + 1
    BY BusAppend DEF TypeOK
  <2>b. \/ bus' = bus
        \/ /\ DOMAIN bus' = DOMAIN bus \cup {Len(bus) + 1}
           /\ bus'[Len(bus) + 1] = e
           /\ \A i \in DOMAIN bus : bus'[i] = bus[i] /\ i # Len(bus) + 1
    BY <2>0, <2>a
  <2>c. bus' \in Seq(Event)
    BY <2>0, <2>a
  <2>1. TypeOK'
    BY <1>5, <2>c DEF PublishFails, Finish, Go, Fails, TypeOK
  <2>2. ClaimsDisjoint' /\ ClaimStatus'
    BY <2>0 DEF ClaimsDisjoint, Claiming, ClaimStatus
  <2>4. \A q \in Relays : pc'[q] = "publish" => e \notin batch'[q]
    BY <2>0 DEF ClaimsDisjoint, Claiming
  <2>5. status[e] = "INFLIGHT" /\ \A i \in DOMAIN bus : bus[i] # e
    BY <2>0 DEF ClaimStatus, BusStatus
  <2>6. BusStatus'
    BY <2>0, <2>b, <2>4, <2>5 DEF BusStatus
  <2>7. SentOnBus'
    BY <2>0, <2>b DEF SentOnBus
  <2>8. NoDoublePublish'
    BY <2>b, <2>5 DEF NoDoublePublish
  <2>9. PublishedIsOnBus'
    BY <2>0, <2>b DEF PublishedIsOnBus
  <2> QED BY <2>1, <2>2, <2>6, <2>7, <2>8, <2>9
<1>6. ASSUME NEW r \in Relays, Mark(r) PROVE RelayInv'
  <2>0. /\ pc[r] = "mark" /\ bus' = bus
        /\ \A e \in Event : status'[e] = IF e \in sent[r] THEN "PUBLISHED" ELSE status[e]
        /\ status' \in [Event -> OutboxStatus]
        /\ \A q \in Relays : q # r => /\ pc'[q] = pc[q] /\ batch'[q] = batch[q]
                                      /\ sent'[q] = sent[q]
        /\ pc'[r] = "idle" /\ batch'[r] = {} /\ sent'[r] = {}
    BY <1>6 DEF Mark, SetStatus, At, Finish, Go, TypeOK, OutboxStatus
  <2>1. TypeOK'
    BY <1>6, <2>0 DEF Mark, Finish, Go, Works, Fails, TypeOK
  <2>2. \A q \in Relays : Claiming(q) => sent[r] \cap batch[q] = {}
    BY DEF Claiming, SentOnBus, BusStatus, ClaimStatus
  <2>3. ClaimsDisjoint'
    BY <2>0 DEF ClaimsDisjoint, Claiming
  <2>4. ClaimStatus'
    BY <2>0, <2>2 DEF ClaimStatus, Claiming, TypeOK
  <2>5. BusStatus'
    BY <2>0 DEF BusStatus, TypeOK
  <2>6. SentOnBus' /\ NoDoublePublish' /\ PublishedIsOnBus'
    BY <2>0 DEF SentOnBus, NoDoublePublish, PublishedIsOnBus
  <2> QED BY <2>1, <2>3, <2>4, <2>5, <2>6
<1>7. ASSUME NEW r \in Relays, ClaimFails(r) \/ MarkFails(r) \/ Crash(r)
      PROVE RelayInv'
  <2>1. Finish(r) /\ status' = status /\ bus' = bus
    BY <1>7 DEF ClaimFails, MarkFails, Crash
  <2>2. TypeOK'
    BY <1>7, <2>1 DEF ClaimFails, MarkFails, Crash, Fails, Finish, Go, TypeOK
  <2>3. ClaimsDisjoint' /\ ClaimStatus'
    BY <2>1 DEF Finish, Go, TypeOK, ClaimsDisjoint, Claiming, ClaimStatus
  <2>4. BusStatus' /\ SentOnBus' /\ NoDoublePublish' /\ PublishedIsOnBus'
    BY <2>1 DEF Finish, Go, TypeOK, BusStatus, SentOnBus, NoDoublePublish, PublishedIsOnBus
  <2> QED BY <2>2, <2>3, <2>4
<1> QED BY <1>0, <1>1, <1>2, <1>3, <1>4, <1>5, <1>6, <1>7 DEF Next, Drain

-----------------------------------------------------------------------------
\* "Two relay instances with SKIP LOCKED do not double-publish": for every
\* number of relays, every batch size and every failure the model has, no
\* event is on the bus twice.
THEOREM NeverPublishedTwice == Spec => []NoDoublePublish
<1>1. Init => RelayInv
  BY RelayInit
<1>2. RelayInv /\ [Next]_vars => RelayInv'
  BY RelayNext
<1>3. RelayInv => NoDoublePublish
  BY DEF RelayInv
<1> QED BY <1>1, <1>2, <1>3, PTL DEF Spec

\* What drainOnce marks PUBLISHED has been accepted by the bus.
THEOREM MarksAreTrue == Spec => []PublishedIsOnBus
<1>1. Init => RelayInv
  BY RelayInit
<1>2. RelayInv /\ [Next]_vars => RelayInv'
  BY RelayNext
<1>3. RelayInv => PublishedIsOnBus
  BY DEF RelayInv
<1> QED BY <1>1, <1>2, <1>3, PTL DEF Spec

-----------------------------------------------------------------------------
(* Order.                                                                  *)

OnBus(e) == \E i \in DOMAIN bus : bus[i] = e

\* Some relay has the event and will publish it unless something fails.
InHand(e) == \E q \in Relays : Claiming(q) /\ e \in batch[q]

\* A saga appends the events of its transaction in order.
NoGaps ==
  \A e \in Event : status[e] # "ABSENT" =>
    \A d \in 1 .. e - 1 : TxOf[d] = TxOf[e] => status[d] # "ABSENT"

\* While nothing fails no claimed row is forgotten.
ClaimsKept ==
  faults = 0 =>
    \A d \in Event : status[d] \in {"INFLIGHT", "PUBLISHED"} => OnBus(d) \/ InHand(d)

\* While nothing fails, whoever has an event has all earlier ones of its
\* transaction too, save those that are on the bus or in another's hand.
OlderFirst ==
  faults = 0 =>
    \A r \in Relays : \A e \in batch[r] : \A d \in 1 .. e - 1 :
      TxOf[d] = TxOf[e] => OnBus(d) \/ InHand(d)

OrderInv == RelayInv /\ NoGaps /\ ClaimsKept /\ OlderFirst

\* ORDER BY created_at LIMIT n takes no row and leaves an older one.
LEMMA FirstOfIsPrefix ==
  ASSUME NEW S \in SUBSET Event, NEW e \in FirstOf(S), NEW d \in S, d < e
  PROVE  d \in FirstOf(S)
<1> DEFINE Below(x) == {y \in S : y < x}
<1>1. IsFiniteSet(Event)
  BY FS_Interval, RelayAssumption DEF Event
<1>2. e \in S /\ Cardinality(Below(e)) < BatchSize
  BY DEF FirstOf
<1>a. S \subseteq Int
  BY RelayAssumption DEF Event
<1>b. \A y \in S : y < d => y < e
  BY <1>a, <1>2
<1>3. Below(d) \subseteq Below(e) /\ Below(e) \subseteq Event
  BY <1>b
<1>4. IsFiniteSet(Below(e)) /\ IsFiniteSet(Below(d))
  BY <1>1, <1>3, FS_Subset
<1>5. Cardinality(Below(d)) <= Cardinality(Below(e))
  BY <1>3, <1>4, FS_Subset
<1>6. Cardinality(Below(d)) \in Nat /\ Cardinality(Below(e)) \in Nat
  BY <1>4, FS_CardinalityType
<1> QED BY <1>2, <1>5, <1>6, RelayAssumption DEF FirstOf

\* At the start there are no rows.
LEMMA OrderInit == Init => OrderInv
<1> SUFFICES ASSUME Init PROVE OrderInv
  OBVIOUS
<1>1. RelayInv
  BY RelayInit
<1> QED BY <1>1, RelayAssumption DEF Init, OrderInv, NoGaps, ClaimsKept, OlderFirst, Event

\* Every step of every relay keeps the order.
LEMMA OrderNext == OrderInv /\ [Next]_vars => OrderInv'
<1> SUFFICES ASSUME OrderInv, [Next]_vars PROVE OrderInv'
  OBVIOUS
<1>i. RelayInv /\ RelayInv' /\ TypeOK /\ TypeOK'
  BY RelayNext DEF OrderInv, RelayInv
<1>t. faults \in Nat /\ faults' \in Nat
  BY <1>i, RelayAssumption DEF TypeOK
<1>f. faults + 1 # 0
  BY <1>t
<1>0. CASE UNCHANGED vars
  BY <1>0, <1>i DEF vars, OrderInv, NoGaps, ClaimsKept, OlderFirst, OnBus, InHand, Claiming
<1>1. ASSUME NEW e \in Event, AppendOutbox(e) PROVE OrderInv'
  <2>1. /\ UNCHANGED <<pc, batch, sent, bus, faults>>
        /\ \A d \in Event : status'[d] = IF d = e THEN "PENDING" ELSE status[d]
        /\ \A d \in 1 .. e - 1 : TxOf[d] = TxOf[e] => status[d] # "ABSENT"
    BY <1>1, <1>i DEF AppendOutbox, TypeOK
  <2>2. \A a \in Event : 1 .. a - 1 \subseteq Event
    BY RelayAssumption DEF Event
  <2>3. NoGaps'
    BY <2>1, <2>2 DEF OrderInv, NoGaps
  <2>4. \A d : (OnBus(d) => OnBus(d)') /\ (InHand(d) => InHand(d)')
    BY <2>1 DEF OnBus, InHand, Claiming
  <2>5. ClaimsKept' /\ OlderFirst'
    BY <2>1, <2>4 DEF OrderInv, ClaimsKept, OlderFirst
  <2> QED BY <1>i, <2>3, <2>5 DEF OrderInv
<1>2. ASSUME NEW r \in Relays, Select(r) PROVE OrderInv'
  <2>1. /\ UNCHANGED <<status, sent, bus, faults>>
        /\ pc[r] = "idle" /\ pc'[r] = "claim" /\ batch'[r] = FirstOf(Selectable)
        /\ \A q \in Relays : q # r => pc'[q] = pc[q] /\ batch'[q] = batch[q]
    BY <1>2, <1>i DEF Select, Go, At, TypeOK
  <2>2. NoGaps'
    BY <2>1 DEF OrderInv, NoGaps
  <2>3. \A d : (OnBus(d) => OnBus(d)') /\ (InHand(d) => InHand(d)')
    BY <2>1 DEF OnBus, InHand, Claiming
  <2>4. ClaimsKept'
    BY <2>1, <2>3 DEF OrderInv, ClaimsKept
  <2>5. ASSUME faults = 0, NEW e \in FirstOf(Selectable), NEW d \in 1 .. e - 1, TxOf[d] = TxOf[e]
        PROVE  OnBus(d)' \/ InHand(d)'
    <3>1. Selectable \in SUBSET Event /\ e \in Selectable /\ e \in Event /\ d \in Event /\ d < e
      BY <2>5, RelayAssumption DEF FirstOf, Selectable, Event
    <3>2. status[e] = "PENDING"
      BY <3>1 DEF Selectable
    <3>3. status[d] \in OutboxStatus /\ status[d] # "ABSENT"
      BY <1>i, <2>5, <3>1, <3>2 DEF OrderInv, NoGaps, TypeOK
    <3>4. CASE status[d] \in {"INFLIGHT", "PUBLISHED"}
      BY <2>3, <2>5, <3>1, <3>4 DEF OrderInv, ClaimsKept
    <3>5. CASE d \in Locked
      BY <2>3, <3>5 DEF Locked, At, InHand, Claiming
    <3>6. CASE d \in Selectable
      <4>1. d \in FirstOf(Selectable)
        BY <3>1, <3>6, FirstOfIsPrefix
      <4> QED BY <2>1, <4>1 DEF InHand, Claiming
    <3> QED BY <3>1, <3>3, <3>4, <3>5, <3>6 DEF OutboxStatus, Selectable
  <2>6. OlderFirst'
    BY <2>1, <2>3, <2>5 DEF OrderInv, OlderFirst
  <2> QED BY <1>i, <2>2, <2>4, <2>6 DEF OrderInv
<1>3. ASSUME NEW r \in Relays, ClaimCommits(r) PROVE OrderInv'
  <2>1. /\ pc[r] = "claim" /\ bus' = bus
        /\ \A d \in Event : status'[d] = IF d \in batch[r] THEN "INFLIGHT" ELSE status[d]
        /\ faults' = 0 => faults = 0 /\ pc'[r] = "publish" /\ batch' = batch
        /\ \A q \in Relays : q # r => pc'[q] = pc[q]
    BY <1>3, <1>i, <1>f DEF ClaimCommits, SetStatus, Works, Fails, Finish, Go, At, TypeOK
  <2>2. \A d \in Event : status[d] = "ABSENT" <=> status'[d] = "ABSENT"
    BY <1>i, <2>1 DEF RelayInv, ClaimStatus
  <2>3. \A a \in Event : 1 .. a - 1 \subseteq Event
    BY RelayAssumption DEF Event
  <2>4. NoGaps'
    BY <2>2, <2>3 DEF OrderInv, NoGaps
  <2>5. faults' = 0 => \A d : (OnBus(d) => OnBus(d)') /\ (InHand(d) => InHand(d)')
    BY <2>1 DEF OnBus, InHand, Claiming
  <2>6. ClaimsKept'
    <3> SUFFICES ASSUME faults' = 0, NEW d \in Event, status'[d] \in {"INFLIGHT", "PUBLISHED"}
                 PROVE  OnBus(d)' \/ InHand(d)'
      BY DEF ClaimsKept
    <3>1. CASE d \in batch[r]
      BY <2>1, <3>1 DEF InHand, Claiming
    <3>2. CASE d \notin batch[r]
      BY <2>1, <2>5, <3>2 DEF OrderInv, ClaimsKept
    <3> QED BY <3>1, <3>2
  <2>7. OlderFirst'
    BY <2>1, <2>5 DEF OrderInv, OlderFirst
  <2> QED BY <1>i, <2>4, <2>6, <2>7 DEF OrderInv
<1>4. ASSUME NEW r \in Relays, NEW e \in Event, Publish(r, e) PROVE OrderInv'
  <2>1. /\ UNCHANGED <<status, faults>> /\ bus' = Append(bus, e) /\ pc[r] = "publish"
        /\ \A q \in Relays : q # r => pc'[q] = pc[q] /\ batch'[q] = batch[q]
        /\ batch'[r] = batch[r] \ {e}
        /\ batch'[r] # {} => pc'[r] = "publish"
    BY <1>4, <1>i DEF Publish, NextOf, Go, At, TypeOK
  <2>2. /\ DOMAIN bus' = DOMAIN bus \cup {Len(bus) + 1}
        /\ bus'[Len(bus) + 1] = e
        /\ \A i \in DOMAIN bus : bus'[i] = bus[i]
    BY <1>i, <2>1, BusAppend DEF TypeOK
  <2>3. OnBus(e)' /\ \A d : OnBus(d) => OnBus(d)'
    BY <2>2 DEF OnBus
  <2>4. \A d : OnBus(d) \/ InHand(d) => OnBus(d)' \/ InHand(d)'
    <3> SUFFICES ASSUME NEW d, InHand(d), d # e PROVE InHand(d)'
      BY <2>3
    <3>1. PICK q \in Relays : Claiming(q) /\ d \in batch[q]
      BY DEF InHand
    <3>2. d \in batch'[q] /\ Claiming(q)'
      BY <2>1, <3>1 DEF Claiming
    <3> QED BY <3>2 DEF InHand
  <2>5. NoGaps' /\ ClaimsKept'
    BY <2>1, <2>4 DEF OrderInv, NoGaps, ClaimsKept
  <2>6. \A q \in Relays : batch'[q] \subseteq batch[q]
    BY <2>1
  <2>7. OlderFirst'
    BY <2>1, <2>4, <2>6 DEF OrderInv, OlderFirst
  <2> QED BY <1>i, <2>5, <2>7 DEF OrderInv
<1>5. ASSUME NEW r \in Relays, Mark(r) PROVE OrderInv'
  <2>1. /\ bus' = bus /\ pc[r] = "mark"
        /\ \A d \in Event : status'[d] = IF d \in sent[r] THEN "PUBLISHED" ELSE status[d]
        /\ faults' = 0 => faults = 0
        /\ \A q \in Relays : q # r => pc'[q] = pc[q] /\ batch'[q] = batch[q]
        /\ batch'[r] = {}
    BY <1>5, <1>i, <1>f DEF Mark, SetStatus, Works, Fails, Finish, Go, At, TypeOK
  <2>2. \A d \in sent[r] : OnBus(d) /\ status[d] # "ABSENT"
    BY <1>i DEF RelayInv, SentOnBus, BusStatus, OnBus
  <2>3. \A d : (OnBus(d) => OnBus(d)') /\ (InHand(d) => InHand(d)')
    BY <2>1 DEF OnBus, InHand, Claiming
  <2>4. \A a \in Event : 1 .. a - 1 \subseteq Event
    BY RelayAssumption DEF Event
  <2>5. NoGaps'
    BY <2>1, <2>2, <2>4 DEF OrderInv, NoGaps
  <2>6. ClaimsKept' /\ OlderFirst'
    BY <2>1, <2>2, <2>3 DEF OrderInv, ClaimsKept, OlderFirst
  <2> QED BY <1>i, <2>5, <2>6 DEF OrderInv
<1>6. ASSUME NEW r \in Relays, NEW e \in Event, PublishFails(r, e) PROVE OrderInv'
  <2>1. status' = status /\ faults' # 0
    BY <1>6, <1>f DEF PublishFails, Fails
  <2> QED BY <1>i, <2>1 DEF OrderInv, NoGaps, ClaimsKept, OlderFirst
<1>7. ASSUME NEW r \in Relays, ClaimFails(r) \/ MarkFails(r) \/ Crash(r)
      PROVE OrderInv'
  <2>1. status' = status /\ faults' # 0
    BY <1>7, <1>f DEF ClaimFails, MarkFails, Crash, Fails
  <2> QED BY <1>i, <2>1 DEF OrderInv, NoGaps, ClaimsKept, OlderFirst
<1> QED BY <1>0, <1>1, <1>2, <1>3, <1>4, <1>5, <1>6, <1>7 DEF Next, Drain

\* The step OvertakesOthersOnly speaks of: a relay publishes an event while
\* nothing has failed only after every earlier event of its transaction, save
\* those another relay holds.
LEMMA OvertakesStep ==
  ASSUME OrderInv, Next, NEW r \in Relays, NEW e \in sent'[r] \ sent[r],
         NEW d \in 1 .. e - 1, TxOf[d] = TxOf[e], faults = 0
  PROVE  OnBus(d) \/ \E q \in Relays \ {r} : d \in batch[q]
<1>i. RelayInv /\ TypeOK
  BY DEF OrderInv, RelayInv
<1>1. PICK a \in Event : Publish(r, a)
  <2>1. ASSUME NEW q \in Relays, Finish(q) \/ UNCHANGED sent PROVE FALSE
    BY <1>i, <2>1 DEF Finish, TypeOK
  <2>2. ASSUME NEW q \in Relays, NEW a \in Event, Publish(q, a) PROVE q = r
    BY <1>i, <2>2 DEF Publish, TypeOK
  <2>3. \A a \in Event : ~AppendOutbox(a)
    BY <2>1 DEF AppendOutbox
  <2> QED BY <2>1, <2>2, <2>3 DEF Next, Drain, Select, ClaimCommits, Mark, ClaimFails,
             MarkFails, Crash, PublishFails
<1>2. e = a /\ e \in batch[r] /\ \A b \in batch[r] : e <= b
  BY <1>1, <1>i DEF Publish, NextOf, TypeOK
<1>3. d \notin batch[r]
  BY <1>2, RelayAssumption DEF Event
<1>4. OnBus(d) \/ InHand(d)
  BY <1>2 DEF OrderInv, OlderFirst
<1> QED BY <1>3, <1>4 DEF InHand

\* While nothing fails an event overtakes an earlier one of its transaction
\* only if another relay has that one in hand, for every number of relays and
\* every batch size: one relay alone keeps the order.
THEOREM RelayKeepsOrder == Spec => OvertakesOthersOnly
<1>1. Init => OrderInv
  BY OrderInit
<1>2. OrderInv /\ [Next]_vars => OrderInv'
  BY OrderNext
<1> DEFINE A == \A r \in Relays : \A e \in sent'[r] \ sent[r] : \A d \in 1 .. e - 1 :
                  TxOf[d] = TxOf[e] =>
                    \/ \E i \in DOMAIN bus : bus[i] = d
                    \/ \E q \in Relays \ {r} : d \in batch[q]
                    \/ faults > 0
<1>3. OrderInv /\ [Next]_vars => [A]_vars
  <2> SUFFICES ASSUME OrderInv, Next PROVE A
    OBVIOUS
  <2>1. faults \in Nat
    BY RelayAssumption DEF OrderInv, RelayInv, TypeOK
  <2>2. CASE faults = 0
    BY <2>2, OvertakesStep DEF OnBus
  <2> QED BY <2>1, <2>2
<1> QED BY <1>1, <1>2, <1>3, PTL DEF Spec, OvertakesOthersOnly
=============================================================================
