---------------------------- MODULE ReceiverProofs ----------------------------
(***************************************************************************)
(* What the receiver's snapshot may contain, and that the receiver         *)
(* implements Evidence: for every inventory, history limit, delay bound    *)
(* and expiry time.  The first layer, MqttClientProofs!IInv (types, honest *)
(* ages, session history), is used here as a known invariant.              *)
(***************************************************************************)
EXTENDS MqttClientProofs, FiniteSetTheorems

\* What a complete frame establishes of one BMS and no merge takes away.
Established(b) ==
    /\ Masked \subseteq Sampled(b)
    /\ b.online = "yes"
    /\ \A p \in Perm : b.perm[p] # "unknown"
    /\ Core \cap b.bad = {}

\* All sampled readings of a battery are of one instant.
OneInstant(b) == \A j, k \in Sampled(b) : b.age[j] = b.age[k]

\* Per-topic mode ends with the first frame: until then no session was heard,
\* so that no frame is taken for a replay and leaves legacy values behind.
LegacyIsVirgin ==
    source = "legacy" =>
        /\ bootId = NoBoot /\ retired = {} /\ ~hasFull
        /\ connected \/ (batteries = NoBatteries /\ totals = NoTotals)

\* A snapshot has a session it came from.
SnapshotHasSession == hasFull => bootId # NoBoot

Bounded == Cardinality(retired) <= MaxRetired

\* AllOrNothing and TopologyNeverMerges are inductive only together with
\* where legacy values and sessions come from.
SInv == LegacyIsVirgin /\ SnapshotHasSession /\ Bounded /\ AllOrNothing /\ TopologyNeverMerges

-----------------------------------------------------------------------------
(***************************************************************************)
(* What the decoders do to one battery.                                    *)
(***************************************************************************)

\* An age that bounds all ages and is one of them is the oldest age.
LEMMA OldestAgeIs ==
    ASSUME NEW b \in Battery, NEW k \in Keys, \A j \in Keys : b.age[j] <= b.age[k]
    PROVE  OldestAge(b) = b.age[k]
<1>1. b.age \in [Keys -> Age] /\ \A j \in Keys : b.age[j] \in Int
  BY BatteryAssumption DEF Battery, Age, Absent
<1> QED BY <1>1, OldestAgeBounds

\* Evidence that was ever sampled has an age that is a number of time units.
LEMMA EstablishedAge ==
    ASSUME NEW b \in Battery, Established(b)
    PROVE  OldestAge(b) \in 0..Stale
<1>1. "mos" \in Keys /\ b.age["mos"] # Absent /\ b.age["mos"] \in Age
  BY DEF Established, Masked, Sampled, Keys, Battery
<1> QED BY <1>1, OldestAgeBounds, BatteryAssumption DEF Age, Absent

\* A complete row establishes its battery, at the one instant the row names,
\* before its expiry.
LEMMA DecodedRowEstablishes ==
    ASSUME NEW r \in Row, CompleteRow(r) \/ CompleteTopologyRow(r)
    PROVE  /\ Established(DecodedRow(r)) /\ OneInstant(DecodedRow(r))
           /\ OldestAge(DecodedRow(r)) \in 0..(Stale - 1)
<1>1. r.age \in 0..Stale /\ r.age < Stale /\ IsValid(DecodedRow(r)) /\ Stale \in Nat
  BY BatteryAssumption DEF Row, CompleteRow, CompleteTopologyRow
<1>2. Masked \subseteq r.seen /\ Masked \subseteq Keys
  BY BatteryAssumption DEF CompleteRow, CompleteTopologyRow, Masked, Keys, Readings
<1>3. \A k \in Keys : DecodedRow(r).age[k] = IF k \in r.seen THEN r.age ELSE Absent
  BY DEF DecodedRow
<1>4. Established(DecodedRow(r))
  BY <1>1, <1>2, <1>3 DEF Established, Sampled, IsValid, Absent
<1>5. OneInstant(DecodedRow(r))
  BY <1>1, <1>3 DEF OneInstant, Sampled
<1>6. OldestAge(DecodedRow(r)) = r.age
  <2>1. "mos" \in Keys /\ "mos" \in r.seen
    BY <1>2 DEF Masked
  <2>2. \A j \in Keys : DecodedRow(r).age[j] <= DecodedRow(r).age["mos"]
    BY <1>1, <1>3, <2>1 DEF Absent
  <2> QED BY <1>3, <2>1, <2>2, OldestAgeIs, DecodedRowType
<1> QED BY <1>1, <1>4, <1>5, <1>6

\* A merge keeps what a complete frame established, grants no permission and,
\* without refresh, makes nothing younger than it was.
LEMMA MergedRowKeeps ==
    ASSUME NEW b \in Battery, NEW r \in Row, NEW refresh \in BOOLEAN,
           Established(b), PartialRow(r)
    PROVE  /\ Established(MergedRow(b, r, refresh))
           /\ \A p \in Perm : MergedRow(b, r, refresh).perm[p] = "yes" => b.perm[p] = "yes"
           /\ ~refresh => OldestAge(b) <= OldestAge(MergedRow(b, r, refresh))
<1> DEFINE m == MergedRow(b, r, refresh)
<1>1. m \in Battery
  BY MergedRowType
<1>2. r.age \in 0..Stale /\ r.bad \subseteq Readings /\ Stale \in Nat
  BY BatteryAssumption DEF Row
<1>3. /\ PartialAge(b, r.age, refresh) \in 0..Stale
      /\ ~refresh => OldestAge(b) <= PartialAge(b, r.age, refresh)
  BY <1>2, PartialAgeBounds
<1>4. b.age \in [Keys -> Age]
  BY DEF Battery
<1>5. \A k \in Keys : m.age[k] = MergedAge(b, r, refresh, k)
  BY DEF MergedRow
<1>6. \A k \in Keys : b.age[k] # Absent => m.age[k] # Absent
  BY <1>2, <1>3, <1>4, <1>5 DEF MergedAge, Absent
<1>7. Masked \subseteq Sampled(m)
  BY <1>6 DEF Established, Sampled
<1>8. \A p \in Perm : m.perm[p] = MergedPerm(b, r, p)
  BY DEF MergedRow
<1>9. \A p \in Perm : m.perm[p] \in {b.perm[p], "no"}
  BY <1>8 DEF MergedPerm
<1>10. Core \cap m.bad = {}
  BY DEF MergedRow, Established, PartialRow
<1>11. m.online = b.online
  BY DEF MergedRow
<1>12. Established(m)
  BY <1>7, <1>9, <1>10, <1>11 DEF Established
<1>13. ASSUME ~refresh PROVE OldestAge(b) <= OldestAge(m)
  <2>1. PICK k \in Keys : OldestAge(b) = b.age[k]
    BY OldestAgeBounds
  <2>2. b.age[k] <= m.age[k]
    BY <1>2, <1>3, <1>4, <1>5, <1>13, <2>1, OldestAgeBounds DEF MergedAge, Age, Absent
  <2>3. m.age[k] <= OldestAge(m) /\ OldestAge(m) \in Int /\ m.age[k] \in Int /\ b.age[k] \in Int
    BY <1>1, <1>4, OldestAgeBounds, BatteryAssumption DEF Battery, Age, Absent
  <2> HIDE DEF m
  <2> QED BY <2>1, <2>2, <2>3
<1> QED BY <1>9, <1>12, <1>13

\* Time makes the oldest sample older and changes nothing else that was
\* established.
LEMMA AgedKeeps ==
    ASSUME NEW b \in Battery
    PROVE  /\ OldestAge(Aged(b)) = Older(OldestAge(b))
           /\ Aged(b).perm = b.perm /\ Aged(b).online = b.online /\ Aged(b).bad = b.bad
           /\ Sampled(Aged(b)) = Sampled(b)
           /\ OneInstant(b) => OneInstant(Aged(b))
<1> DEFINE m == Aged(b)
<1>1. m \in Battery /\ b.age \in [Keys -> Age]
  BY AgedType DEF Battery
<1>2. \A k \in Keys : m.age[k] = Older(b.age[k])
  BY DEF Aged, Battery
<1>3. Stale \in Nat \ {0}
  BY BatteryAssumption
<1>4. PICK k \in Keys : OldestAge(b) = b.age[k] /\ \A j \in Keys : b.age[j] <= b.age[k]
  BY OldestAgeBounds
<1>5. \A i, j \in Age : i <= j => Older(i) <= Older(j)
  BY <1>3 DEF Older, Age, Absent
<1>6. \A j \in Keys : m.age[j] <= m.age[k]
  BY <1>1, <1>2, <1>4, <1>5
<1>7. OldestAge(m) = Older(OldestAge(b))
  <2> HIDE DEF m
  <2> QED BY <1>1, <1>2, <1>4, <1>6, OldestAgeIs
<1>8. m.perm = b.perm /\ m.online = b.online /\ m.bad = b.bad
  BY DEF Aged, Battery
<1>9. \A j \in Keys : m.age[j] = Absent <=> b.age[j] = Absent
  BY <1>1, <1>2, <1>3 DEF Older, Age, Absent
<1>10. Sampled(m) = Sampled(b)
  <2> HIDE DEF m
  <2> QED BY <1>9 DEF Sampled
<1>11. OneInstant(b) => OneInstant(m)
  <2> HIDE DEF m
  <2> QED BY <1>2, <1>10 DEF OneInstant, Sampled
<1> QED BY <1>7, <1>8, <1>10, <1>11
-----------------------------------------------------------------------------
(***************************************************************************)
(* Every step is one of a few kinds: the readings are dropped, kept,       *)
(* replaced or merged by an accepted frame, set by one legacy topic, or    *)
(* grow older.                                                             *)
(***************************************************************************)

\* The frame f is the next of its session or the first of another.
Accepted(f) ==
    /\ Newer(f) /\ ~SessionRefused(f) /\ TakeSession(f)
    /\ source' = "atomic"

\* The readings stay; at most the claim to be live is withdrawn.
Kept ==
    /\ UNCHANGED <<batteries, totals, hasFull>>
    /\ \/ UNCHANGED <<bootReady, partial>>
       \/ ~topology /\ source' = "atomic" /\ hasFull /\ bootReady' = FALSE /\ partial' = TRUE
       \/ ~topology /\ ~hasFull /\ bootReady' = FALSE /\ partial' = partial
       \/ ~topology /\ bootReady' = bootReady /\ partial' = TRUE

\* Legacy telemetry: one topic, while connected.
LegacyStep ==
    /\ source = "legacy" /\ source' = "legacy" /\ connected /\ connected'
    /\ UNCHANGED <<hasFull, bootReady, partial>>

TickStep ==
    /\ batteries' = [s \in Slot |-> Aged(batteries[s])]
    /\ totals' = [t \in Total |-> Older(totals[t])]
    /\ UNCHANGED <<source, hasFull, bootReady, partial, connected>>

\* A step that leaves the session alone and replaces no reading.
Quiet ==
    /\ UNCHANGED session
    /\ \/ Invalidate /\ (source' = source \/ source' = "atomic")
       \/ Kept /\ source' = source
       \/ LegacyStep
       \/ TickStep

\* Readings replaced, merged or dropped by a frame that is news.
FrameStep ==
    \E f \in Frame, d \in 0..MaxDelay :
        /\ Accepted(f)
        /\ AdoptComplete(f, d) \/ MergePartial(f, d) \/ Invalidate

\* In per-topic mode nothing is recognised as a replay and no session is
\* refused: none was ever heard.
LEMMA LegacyHearsAll ==
    ASSUME IInv, SInv, source = "legacy", NEW f \in Frame
    PROVE  ~Replayed(f) /\ ~SessionRefused(f) /\ f.boot \notin heard
<1>1. f.boot # NoBoot
  BY ClientAssumption DEF Frame
<1>2. bootId = NoBoot /\ retired = {}
  BY DEF SInv, LegacyIsVirgin
<1>3. heard = {}
  BY <1>2 DEF IInv, SessionHistory
<1> QED BY <1>1, <1>2, <1>3 DEF Replayed, SessionRefused, NewSession

\* Every step of the receiver is of one of these kinds.
LEMMA StepKinds ==
    ASSUME IInv, SInv, [Next]_vars
    PROVE  /\ UNCHANGED topology
           /\ Quiet \/ FrameStep
           /\ connected' = connected \/ connected' = TRUE \/ Invalidate \/ source = "atomic"
<1>0. UNCHANGED topology
  BY DEF Next, vars
<1>1. source \in {"atomic", "legacy"}
  BY DEF IInv, TypeOK
<1> DEFINE Goal == /\ Quiet \/ FrameStep
                   /\ \/ connected' = connected \/ connected' = TRUE
                      \/ Invalidate \/ source = "atomic"
<1> SUFFICES Goal
  BY <1>0
<1>2. CASE OnConnect
  <2>1. Kept /\ UNCHANGED <<bootId, sequence, retired>> /\ source' = source /\ connected' = TRUE
    BY <1>2 DEF OnConnect, Kept, session
  <2> QED BY <2>1 DEF Quiet, session
<1>3. CASE OnDisconnect
  <2>1. UNCHANGED <<source, bootId, sequence, retired>>
    BY <1>3 DEF OnDisconnect, session
  <2>2. CASE ~topology /\ source = "atomic" /\ hasFull
    <3>1. Hold
      BY <1>3, <2>2 DEF OnDisconnect
    <3>2. Kept
      BY <2>1, <2>2, <3>1 DEF Hold, Kept
    <3> QED BY <2>1, <2>2, <3>2 DEF Quiet, session
  <2>3. CASE ~(~topology /\ source = "atomic" /\ hasFull)
    <3>1. Invalidate
      BY <1>3, <2>3 DEF OnDisconnect
    <3> QED BY <2>1, <3>1 DEF Quiet, session
  <2> QED BY <2>2, <2>3
<1>4. CASE ProducerOffline
  <2>1. UNCHANGED <<source, bootId, sequence, retired, connected>> /\ source = "atomic"
    BY <1>4 DEF ProducerOffline, session
  <2>2. Kept \/ Invalidate
    BY <1>4, <2>1 DEF ProducerOffline, Kept, Hold
  <2> QED BY <2>1, <2>2 DEF Quiet, session
<1>5. CASE DeliverUnreadable \/ DropAggregate
  <2>1. UNCHANGED <<bootId, sequence, retired, connected>> /\ Invalidate
    BY <1>5 DEF DeliverUnreadable, DropAggregate, session
  <2>2. source' = source \/ source' = "atomic"
    BY <1>5 DEF DeliverUnreadable, DropAggregate
  <2> QED BY <2>1, <2>2 DEF Quiet, session
<1>6. ASSUME NEW f \in Frame, NEW d \in 0..MaxDelay, DeliverFrame(f, d)
      PROVE  Goal
  <2>1. ~Replayed(f) /\ Newer(f) /\ source' = "atomic" /\ connected' = connected
    BY <1>6, ReplayDecided DEF DeliverFrame, ProcessTelemetry
  <2>2. CASE SessionRefused(f)
    <3>1. source' = source
      BY <1>1, <2>1, <2>2, LegacyHearsAll
    <3>2. RefuseSession /\ UNCHANGED session
      BY <1>6, <2>1, <2>2 DEF DeliverFrame, ProcessTelemetry
    <3>3. Kept \/ Invalidate
      BY <3>2 DEF RefuseSession, Kept
    <3> QED BY <2>1, <3>1, <3>2, <3>3 DEF Quiet
  <2>3. CASE ~SessionRefused(f)
    <3>1. Accepted(f)
      BY <1>6, <2>1, <2>3 DEF DeliverFrame, ProcessTelemetry, Accepted
    <3>2. AdoptComplete(f, d) \/ MergePartial(f, d) \/ Invalidate
      BY <1>6, <2>1, <2>3 DEF DeliverFrame, ProcessTelemetry, RejectFrame
    <3> QED BY <2>1, <3>1, <3>2 DEF FrameStep
  <2> QED BY <2>2, <2>3
<1>7. ASSUME NEW f \in Frame, DeliverLate(f)
      PROVE  Goal
  <2>1. Replayed(f) /\ source = "atomic"
    BY <1>1, <1>7, ReplayDecided, LegacyHearsAll DEF DeliverLate
  <2>2. /\ UNCHANGED <<batteries, bootId, sequence, retired, hasFull, bootReady, partial,
                       totals, connected>>
        /\ source' = source
    BY <1>7, <2>1 DEF DeliverLate, ProcessTelemetry, session
  <2>3. Kept
    BY <2>2 DEF Kept
  <2> QED BY <2>2, <2>3 DEF Quiet, session
<1>8. ASSUME NEW f \in Frame, DeliverRetained(f)
      PROVE  UNCHANGED vars
  BY <1>8 DEF DeliverRetained, IgnoreMessage
<1>9. CASE DeliverLegacy
  <2>1. source = "legacy" /\ connected
    BY <1>9 DEF DeliverLegacy, LegacyReading, LegacyPermission, LegacyOnline, LegacyTotal,
                LegacyReady
  <2>2. UNCHANGED <<source, bootId, sequence, retired, hasFull, bootReady, partial, connected>>
    BY <1>9 DEF DeliverLegacy, session
  <2>3. LegacyStep
    BY <2>1, <2>2 DEF LegacyStep
  <2> QED BY <2>2, <2>3 DEF Quiet, session
<1>10. CASE Tick
  <2>1. TickStep /\ UNCHANGED <<bootId, sequence, retired, connected>>
    BY <1>10 DEF Tick, TickStep, session
  <2> QED BY <2>1 DEF Quiet, session
<1>11. CASE UNCHANGED vars
  <2>1. Kept /\ UNCHANGED <<source, bootId, sequence, retired, connected>>
    BY <1>11 DEF vars, session, Kept
  <2> QED BY <2>1 DEF Quiet, session
<1> QED
  BY <1>0, <1>2, <1>3, <1>4, <1>5, <1>6, <1>7, <1>8, <1>9, <1>10, <1>11 DEF Next, Telemetry
-----------------------------------------------------------------------------
(***************************************************************************)
(* The inductive invariant.                                                *)
(***************************************************************************)

\* A complete frame establishes every BMS, unexpired, each at one instant.
LEMMA AdoptEstablishes ==
    ASSUME IInv, NEW f \in Frame, NEW d \in 0..MaxDelay, AdoptComplete(f, d), NEW s \in Slot
    PROVE  /\ batteries'[s] \in Battery
           /\ Established(batteries'[s]) /\ OneInstant(batteries'[s])
           /\ OldestAge(batteries'[s]) \in 0..(Stale - 1)
<1>1. DOMAIN f.rows = Slot /\ (CompleteRow(f.rows[s]) \/ CompleteTopologyRow(f.rows[s]))
  BY DEF AdoptComplete, CompleteFrame
<1>2. f.rows[s] \in Row
  BY <1>1, FrameRow
<1>3. batteries'[s] = DecodedRow(f.rows[s])
  BY DEF AdoptComplete
<1> QED BY <1>1, <1>2, <1>3, DecodedRowEstablishes, DecodedRowType

\* A snapshot is established, and an established battery has an age.
LEMMA SnapshotEstablished ==
    ASSUME IInv, SInv, hasFull
    PROVE  /\ source = "atomic"
           /\ \A s \in Slot : /\ batteries[s] \in Battery /\ Established(batteries[s])
                               /\ OldestAge(batteries[s]) \in 0..Stale
<1>1. source = "atomic"
  BY DEF SInv, LegacyIsVirgin, IInv, TypeOK
<1>2. \A s \in Slot : batteries[s] \in Battery /\ Established(batteries[s])
  BY <1>1 DEF SInv, AllOrNothing, Established, IInv, TypeOK
<1> QED BY <1>1, <1>2, EstablishedAge

\* A merge keeps every BMS established, grants nothing, and without refresh
\* renews nothing.
LEMMA MergeKeeps ==
    ASSUME IInv, SInv, NEW f \in Frame, NEW d \in 0..MaxDelay, MergePartial(f, d),
           NEW s \in Slot
    PROVE  /\ batteries'[s] \in Battery
           /\ Established(batteries'[s])
           /\ \A p \in Perm : batteries'[s].perm[p] = "yes" => batteries[s].perm[p] = "yes"
           /\ ~Refreshing(f) => OldestAge(batteries[s]) <= OldestAge(batteries'[s])
<1>1. DOMAIN f.rows = Slot /\ PartialRow(f.rows[s]) /\ hasFull
  BY DEF MergePartial, PartialFrame
<1>2. f.rows[s] \in Row
  BY <1>1, FrameRow
<1>3. batteries'[s] = MergedRow(batteries[s], f.rows[s], Refreshing(f))
  BY DEF MergePartial
<1>4. Refreshing(f) \in BOOLEAN
  BY DEF IInv, TypeOK, Refreshing, NewSession
<1>5. batteries[s] \in Battery /\ Established(batteries[s])
  BY <1>1, SnapshotEstablished
<1> QED BY <1>1, <1>2, <1>3, <1>4, <1>5, MergedRowKeeps, MergedRowType

\* A receiver that was just constructed satisfies it.
LEMMA InitSInv == Init => SInv
<1> SUFFICES ASSUME Init PROVE SInv
  OBVIOUS
<1>1. Cardinality(retired) = 0
  BY FS_EmptySet DEF Init
<1> QED BY <1>1, ClientAssumption
           DEF Init, SInv, LegacyIsVirgin, SnapshotHasSession, Bounded, AllOrNothing,
               TopologyNeverMerges

\* Dropping every reading restores the state before the first frame.
LEMMA InvalidateKeeps ==
    ASSUME SInv, Invalidate, UNCHANGED topology, UNCHANGED session,
           source' = source \/ source' = "atomic"
    PROVE  SInv'
<1>1. UNCHANGED <<bootId, retired>>
  BY DEF session
<1> QED BY <1>1 DEF SInv, LegacyIsVirgin, SnapshotHasSession, Bounded, AllOrNothing,
                    TopologyNeverMerges, Invalidate

\* The history admits one more boot only below its limit.
LEMMA HistoryBounded ==
    ASSUME IInv, Bounded, NEW f \in Frame, ~SessionRefused(f), TakeSession(f)
    PROVE  Bounded'
<1>1. IsFiniteSet(retired)
  <2>1. IsFiniteSet(Boot)
    BY ClientAssumption
  <2> QED BY <2>1, FS_Subset DEF IInv, TypeOK
<1>2. Cardinality(retired) \in Nat
  BY <1>1, FS_CardinalityType
<1>3. Cardinality(retired \cup {bootId}) <= Cardinality(retired) + 1
  BY <1>1, <1>2, FS_AddElement
<1>4. Cardinality(retired \cup {bootId}) \in Nat
  BY <1>1, FS_AddElement, FS_CardinalityType
<1>5. CASE NewSession(f)
  <2>1. ~(Cardinality(retired) >= MaxRetired) /\ retired' = retired \cup {bootId}
    BY <1>5 DEF SessionRefused, TakeSession
  <2> QED BY <1>2, <1>3, <1>4, <2>1, ClientAssumption DEF Bounded
<1>6. CASE ~NewSession(f)
  <2>1. retired' = retired
    BY <1>6 DEF TakeSession
  <2> QED BY <2>1 DEF Bounded
<1> QED BY <1>5, <1>6

\* A frame in order leaves a whole snapshot or none.
LEMMA FrameStepKeeps ==
    ASSUME IInv, SInv, UNCHANGED topology, FrameStep
    PROVE  SInv'
<1>1. PICK f \in Frame, d \in 0..MaxDelay :
        Accepted(f) /\ (AdoptComplete(f, d) \/ MergePartial(f, d) \/ Invalidate)
  BY DEF FrameStep
<1>2. f.boot # NoBoot /\ bootId' = f.boot /\ source' = "atomic"
  BY <1>1, ClientAssumption DEF Accepted, TakeSession, Frame
<1>3. Bounded'
  BY <1>1, HistoryBounded DEF Accepted, SInv
<1>4. LegacyIsVirgin' /\ SnapshotHasSession'
  BY <1>2 DEF LegacyIsVirgin, SnapshotHasSession
<1>5. CASE AdoptComplete(f, d)
  <2>1. hasFull' = TRUE /\ bootReady' = TRUE /\ partial' = FALSE /\ totals' = NoTotals
    BY <1>5 DEF AdoptComplete
  <2>2. \A s \in Slot : Established(batteries'[s]) /\ OneInstant(batteries'[s])
    BY <1>5, AdoptEstablishes
  <2>3. AllOrNothing'
    BY <2>1, <2>2 DEF AllOrNothing, Established
  <2>4. TopologyNeverMerges'
    BY <2>1, <2>2 DEF TopologyNeverMerges, OneInstant
  <2> QED BY <1>3, <1>4, <2>3, <2>4 DEF SInv
<1>6. CASE MergePartial(f, d)
  <2>1. hasFull' /\ partial' /\ ~topology' /\ totals' = NoTotals
    BY <1>6 DEF MergePartial
  <2>2. \A s \in Slot : Established(batteries'[s])
    BY <1>6, MergeKeeps
  <2>3. AllOrNothing'
    BY <2>1, <2>2 DEF AllOrNothing, Established
  <2>4. TopologyNeverMerges'
    BY <2>1 DEF TopologyNeverMerges
  <2> QED BY <1>3, <1>4, <2>3, <2>4 DEF SInv
<1>7. CASE Invalidate
  <2>1. AllOrNothing' /\ TopologyNeverMerges'
    BY <1>7 DEF AllOrNothing, TopologyNeverMerges, Invalidate
  <2> QED BY <1>3, <1>4, <2>1 DEF SInv
<1> QED BY <1>1, <1>5, <1>6, <1>7

\* Keeping the readings keeps what is known of them.
LEMMA KeptKeeps ==
    ASSUME IInv, SInv, UNCHANGED topology, UNCHANGED session, Kept, source' = source,
           connected' = connected \/ connected' = TRUE \/ Invalidate \/ source = "atomic"
    PROVE  SInv'
<1>1. UNCHANGED <<batteries, totals, hasFull, bootId, retired, topology, source>>
  BY DEF Kept, session
<1>2. LegacyIsVirgin'
  BY <1>1 DEF SInv, LegacyIsVirgin, Invalidate
<1>3. SnapshotHasSession' /\ Bounded'
  BY <1>1 DEF SInv, SnapshotHasSession, Bounded
<1>4. hasFull' /\ source' = "atomic" => bootReady' \/ partial'
  BY <1>1 DEF SInv, AllOrNothing, Kept
<1>5. AllOrNothing'
  BY <1>1, <1>4 DEF SInv, AllOrNothing
<1>6. TopologyNeverMerges'
  BY <1>1 DEF SInv, TopologyNeverMerges, Kept
<1> QED BY <1>2, <1>3, <1>5, <1>6 DEF SInv

\* Time empties nothing and merges nothing.
LEMMA TickKeeps ==
    ASSUME IInv, SInv, UNCHANGED topology, UNCHANGED session, TickStep
    PROVE  SInv'
<1>1. UNCHANGED <<source, hasFull, bootReady, partial, connected, bootId, retired, topology>>
  BY DEF TickStep, session
<1>2. totals = NoTotals => totals' = NoTotals
  BY DEF TickStep, NoTotals, Older
<1>3. batteries = NoBatteries => batteries' = NoBatteries
  <2>1. [k \in Keys |-> Older(EmptyBattery.age[k])] = EmptyBattery.age
    BY DEF EmptyBattery, Older
  <2>2. Aged(EmptyBattery) = EmptyBattery
    BY <2>1 DEF Aged, EmptyBattery
  <2> QED BY <2>2 DEF TickStep, NoBatteries
<1>4. \A s \in Slot : batteries'[s] = Aged(batteries[s]) /\ batteries[s] \in Battery
  BY DEF TickStep, IInv, TypeOK
<1>5. \A s \in Slot : /\ Established(batteries[s]) => Established(batteries'[s])
                      /\ OneInstant(batteries[s]) => OneInstant(batteries'[s])
  BY <1>4, AgedKeeps DEF Established
<1>6. LegacyIsVirgin' /\ SnapshotHasSession' /\ Bounded'
  BY <1>1, <1>2, <1>3 DEF SInv, LegacyIsVirgin, SnapshotHasSession, Bounded
<1>7. AllOrNothing'
  BY <1>1, <1>2, <1>3, <1>5 DEF SInv, AllOrNothing, Established
<1>8. TopologyNeverMerges'
  BY <1>1, <1>5 DEF SInv, TopologyNeverMerges, OneInstant
<1> QED BY <1>6, <1>7, <1>8 DEF SInv

\* Every step keeps it.
LEMMA NextSInv ==
    ASSUME IInv, SInv, [Next]_vars
    PROVE  SInv'
<1>1. UNCHANGED topology
  BY StepKinds
<1>2. CASE FrameStep
  BY <1>1, <1>2, FrameStepKeeps
<1>3. CASE Quiet
  <2>1. CASE Invalidate /\ (source' = source \/ source' = "atomic")
    BY <1>1, <1>3, <2>1, InvalidateKeeps DEF Quiet
  <2>2. CASE Kept /\ source' = source
    BY <1>1, <1>3, <2>2, StepKinds, KeptKeeps DEF Quiet
  <2>3. CASE LegacyStep
    <3>1. UNCHANGED <<bootId, retired, topology>>
      BY <1>1, <1>3 DEF Quiet, session
    <3> QED BY <2>3, <3>1 DEF LegacyStep, SInv, LegacyIsVirgin, SnapshotHasSession, Bounded,
                              AllOrNothing, TopologyNeverMerges
  <2>4. CASE TickStep
    BY <1>1, <1>3, <2>4, TickKeeps DEF Quiet
  <2> QED BY <1>3, <2>1, <2>2, <2>3, <2>4 DEF Quiet
<1> QED BY <1>2, <1>3, StepKinds
-----------------------------------------------------------------------------
(***************************************************************************)
(* Theorems.                                                               *)
(***************************************************************************)

\* Both layers together are an invariant of the receiver.
LEMMA Invariant == Spec => [](IInv /\ SInv)
<1>1. Init => IInv /\ SInv
  BY InitIInv, InitSInv
<1>2. IInv /\ SInv /\ [Next]_vars => (IInv /\ SInv)'
  BY NextIInv, NextSInv
<1> QED BY <1>1, <1>2, PTL DEF Spec

\* The replay history never holds the boot being heard and never outgrows its limit.
THEOREM HeardNeverLockedOut == Spec => []LiveSessionAdmitted
<1>1. IInv /\ SInv => LiveSessionAdmitted
  BY HistoryTypes DEF IInv, SInv, SessionHistory, Bounded, LiveSessionAdmitted
<1> QED BY <1>1, Invariant, PTL

\* In atomic mode the receiver holds all that a complete frame established, or
\* no reading and no total at all, for every inventory.
THEOREM WholeOrNothing == Spec => []AllOrNothing
<1>1. SInv => AllOrNothing
  BY DEF SInv
<1> QED BY <1>1, Invariant, PTL

\* No per-topic value outlives the connection that brought it.
THEOREM LegacyEndsWithConnection == Spec => []LegacyNeedsConnection
<1>1. SInv => LegacyNeedsConnection
  BY DEF SInv, LegacyIsVirgin, LegacyNeedsConnection
<1> QED BY <1>1, Invariant, PTL

\* With an explicit topology every snapshot is one frame of the live session.
THEOREM TopologySnapshotIsOneFrame == Spec => []TopologyNeverMerges
<1>1. SInv => TopologyNeverMerges
  BY DEF SInv
<1> QED BY <1>1, Invariant, PTL

\* What a step may do to one battery while the receiver keeps a snapshot.
LEMMA StepOnBattery ==
    ASSUME IInv, SInv, [Next]_vars, NEW s \in Slot, hasFull', source' = "atomic"
    PROVE  \/ /\ Position' # Position /\ bootReady' /\ ~partial'
           \/ /\ hasFull
              /\ \A p \in Perm : batteries'[s].perm[p] = "yes" => batteries[s].perm[p] = "yes"
              /\ \/ bootReady' /\ bootId' = bootId
                 \/ OldestAge(batteries[s]) <= OldestAge(batteries'[s])
<1>1. \A b \in Battery : OldestAge(b) \in Int /\ OldestAge(b) <= OldestAge(b)
  BY OldestAgeBounds, BatteryAssumption DEF Age, Absent
<1>2. batteries[s] \in Battery
  BY DEF IInv, TypeOK
<1>3. CASE FrameStep
  <2>1. PICK f \in Frame, d \in 0..MaxDelay :
          Accepted(f) /\ (AdoptComplete(f, d) \/ MergePartial(f, d) \/ Invalidate)
    BY <1>3 DEF FrameStep
  <2>2. CASE AdoptComplete(f, d)
    <3>1. Position' = <<f.boot, f.seq>> /\ f.boot \in Boot /\ f.seq \in Nat
      BY <2>1, ClientAssumption DEF Accepted, TakeSession, Position, Frame
    <3>2. Position' # Position
      BY <2>1, <3>1, HistoryTypes, ClientAssumption
         DEF Accepted, Newer, Position, IInv, SessionHistory
    <3> QED BY <2>2, <3>2 DEF AdoptComplete
  <2>3. CASE MergePartial(f, d)
    <3>1. hasFull /\ bootId # NoBoot /\ bootId' = f.boot /\ bootReady' = Refreshing(f)
      BY <2>1, <2>3 DEF MergePartial, SInv, SnapshotHasSession, Accepted, TakeSession
    <3>2. Refreshing(f) => bootReady' /\ bootId' = bootId
      BY <3>1 DEF Refreshing, NewSession
    <3> QED BY <2>3, <3>1, <3>2, MergeKeeps
  <2>4. ~Invalidate
    BY DEF Invalidate
  <2> QED BY <2>1, <2>2, <2>3, <2>4
<1>4. CASE Quiet
  <2>1. ~Invalidate /\ ~LegacyStep
    BY DEF Invalidate, LegacyStep
  <2>2. CASE Kept
    BY <1>1, <1>2, <2>2 DEF Kept
  <2>3. CASE TickStep
    <3>1. batteries'[s] = Aged(batteries[s]) /\ hasFull
      BY <2>3 DEF TickStep
    <3>2. batteries'[s].perm = batteries[s].perm
      BY <1>2, <3>1, AgedKeeps
    <3>3. OldestAge(batteries[s]) <= OldestAge(batteries'[s])
      BY <1>2, <3>1, AgedKeeps, OldestAgeBounds, OlderType
    <3> QED BY <3>1, <3>2, <3>3
  <2> QED BY <1>4, <2>1, <2>2, <2>3 DEF Quiet
<1> QED BY <1>3, <1>4, StepKinds

\* Evidence of a session that is gone is never renewed by anything less than
\* a complete frame.
THEOREM HeldRunsOut == Spec => HeldNeverRenewed
<1> DEFINE A == hasFull' /\ partial' /\ (~bootReady' \/ bootId' # bootId) =>
                    \A s \in Slot : OldestAge(batteries[s]) <= OldestAge(batteries[s])'
<1>1. IInv /\ SInv /\ IInv' /\ SInv' /\ [Next]_vars => [A]_vars
  <2> SUFFICES ASSUME IInv, SInv, IInv', SInv', [Next]_vars,
                      hasFull', partial', ~bootReady' \/ bootId' # bootId, NEW s \in Slot
               PROVE  OldestAge(batteries[s]) <= OldestAge(batteries'[s])
    OBVIOUS
  <2>1. source' = "atomic"
    BY DEF IInv, TypeOK, SInv, LegacyIsVirgin
  <2> QED BY <2>1, StepOnBattery
<1> QED BY <1>1, Invariant, PTL DEF Spec, HeldNeverRenewed

\* In atomic mode a permission is granted by a complete frame only.
THEOREM GrantsAreComplete == Spec => OnlyCompleteGrants
<1> DEFINE A == source' = "atomic" =>
                    \A s \in Slot, p \in Perm :
                        batteries'[s].perm[p] = "yes" /\ batteries[s].perm[p] # "yes" =>
                            Position' # Position /\ bootReady' /\ ~partial'
<1>1. IInv /\ SInv /\ IInv' /\ SInv' /\ [Next]_vars => [A]_vars
  <2> SUFFICES ASSUME IInv, SInv, IInv', SInv', [Next]_vars, source' = "atomic",
                      NEW s \in Slot, NEW p \in Perm,
                      batteries'[s].perm[p] = "yes", batteries[s].perm[p] # "yes"
               PROVE  Position' # Position /\ bootReady' /\ ~partial'
    OBVIOUS
  <2>1. hasFull'
    <3>1. batteries' # NoBatteries
      BY DEF NoBatteries, EmptyBattery
    <3> QED BY <3>1 DEF SInv, AllOrNothing
  <2> QED BY <2>1, StepOnBattery
<1> QED BY <1>1, Invariant, PTL DEF Spec, OnlyCompleteGrants
-----------------------------------------------------------------------------
(***************************************************************************)
(* The refinement: the receiver implements Evidence.                       *)
(***************************************************************************)

\* What the abstract variables are, with and without a snapshot.
LEMMA AbstractState ==
    /\ ~hasFull => Mode = "none" /\ Life = [s \in Slot |-> 0] /\ Grant = [s \in Slot |-> {}]
    /\ hasFull => /\ Mode = IF bootReady THEN "live" ELSE "held"
                  /\ Life = [s \in Slot |-> Stale - OldestAge(batteries[s])]
                  /\ Grant = [s \in Slot |-> {p \in Perm : batteries[s].perm[p] = "yes"}]
BY DEF Mode, Life, Grant

\* The same, after a step.
LEMMA AbstractStateNext ==
    /\ ~hasFull' => Mode' = "none" /\ Life' = [s \in Slot |-> 0] /\ Grant' = [s \in Slot |-> {}]
    /\ hasFull' => /\ Mode' = IF bootReady' THEN "live" ELSE "held"
                   /\ Life' = [s \in Slot |-> Stale - OldestAge(batteries'[s])]
                   /\ Grant' = [s \in Slot |-> {p \in Perm : batteries'[s].perm[p] = "yes"}]
BY DEF Mode, Life, Grant

\* A receiver that was just constructed knows nothing.
LEMMA AbstractInit == Init => Abstract!Init
<1> SUFFICES ASSUME Init PROVE Abstract!Init
  OBVIOUS
<1>1. ~hasFull /\ partial = FALSE
  BY DEF Init
<1> QED BY <1>1, AbstractState DEF Abstract!Init, Abstract!Nothing, Abstract!NoGrant

\* _invalidate_samples is the abstract Drop.
LEMMA InvalidateIsDrop == Invalidate => Abstract!Drop
<1> SUFFICES ASSUME Invalidate PROVE Abstract!Drop
  OBVIOUS
<1>1. ~hasFull' /\ partial' = FALSE
  BY DEF Invalidate
<1> QED BY <1>1, AbstractStateNext DEF Abstract!Drop, Abstract!Nothing, Abstract!NoGrant

\* Accepting a complete frame is the abstract Complete.
LEMMA AdoptIsComplete ==
    ASSUME IInv, NEW f \in Frame, NEW d \in 0..MaxDelay, AdoptComplete(f, d)
    PROVE  Abstract!Complete
<1>1. hasFull' /\ bootReady' /\ partial' = FALSE
  BY DEF AdoptComplete
<1>2. \A s \in Slot : OldestAge(batteries'[s]) \in 0..(Stale - 1)
  BY AdoptEstablishes
<1>3. \A s \in Slot : Stale - OldestAge(batteries'[s]) \in 1..Stale
  BY <1>2, BatteryAssumption
<1>4. Life' \in [Slot -> 1..Stale] /\ Grant' \in [Slot -> SUBSET Perm] /\ Mode' = "live"
  BY <1>1, <1>3, AbstractStateNext
<1> QED BY <1>1, <1>4 DEF Abstract!Complete

\* Merging a partial frame is Renew within the session, Restrict without it.
LEMMA MergeIsRenewOrRestrict ==
    ASSUME IInv, SInv, NEW f \in Frame, NEW d \in 0..MaxDelay, MergePartial(f, d)
    PROVE  Abstract!Renew \/ Abstract!Restrict
<1>1. hasFull /\ hasFull' /\ partial' = TRUE /\ bootReady' = Refreshing(f)
  BY DEF MergePartial
<1>2. \A s \in Slot : /\ OldestAge(batteries[s]) \in 0..Stale
                      /\ OldestAge(batteries'[s]) \in 0..Stale
  BY <1>1, SnapshotEstablished, MergeKeeps, EstablishedAge
<1>3. \A s \in Slot : Stale - OldestAge(batteries'[s]) \in 0..Stale
  BY <1>2, BatteryAssumption
<1>4. Life' \in [Slot -> 0..Stale] /\ Grant' \in [Slot -> SUBSET Perm]
  BY <1>1, <1>3, AbstractStateNext
<1>5. \A s \in Slot : Grant'[s] \subseteq Grant[s]
  BY <1>1, MergeKeeps, AbstractState, AbstractStateNext
<1>6. CASE Refreshing(f)
  <2>1. Mode = "live" /\ Mode' = "live"
    BY <1>1, <1>6, AbstractState, AbstractStateNext DEF Refreshing
  <2> QED BY <1>1, <1>4, <1>5, <2>1 DEF Abstract!Renew
<1>7. CASE ~Refreshing(f)
  <2>1. Mode # "none" /\ Mode' = "held"
    BY <1>1, <1>7, AbstractState, AbstractStateNext
  <2>2. \A s \in Slot : OldestAge(batteries[s]) <= OldestAge(batteries'[s])
    BY <1>7, MergeKeeps
  <2>3. \A s \in Slot : Stale - OldestAge(batteries'[s]) <= Stale - OldestAge(batteries[s])
    BY <1>2, <2>2, BatteryAssumption
  <2>4. \A s \in Slot : Life'[s] <= Life[s]
    BY <1>1, <2>3, AbstractState, AbstractStateNext
  <2> QED BY <1>1, <1>4, <1>5, <2>1, <2>4 DEF Abstract!Restrict
<1> QED BY <1>6, <1>7

\* Keeping the readings stutters, holds them (Restrict) or marks them (Refuse).
LEMMA KeptIsHoldOrRefuse ==
    ASSUME IInv, SInv, Kept
    PROVE  Abstract!Restrict \/ Abstract!Refuse \/ UNCHANGED <<Mode, Life, Grant, partial>>
<1>1. UNCHANGED <<batteries, hasFull>>
  BY DEF Kept
<1>2. UNCHANGED <<Life, Grant>>
  BY <1>1 DEF Life, Grant
<1>3. CASE UNCHANGED <<bootReady, partial>>
  BY <1>1, <1>2, <1>3 DEF Mode
<1>4. CASE hasFull /\ bootReady' = FALSE /\ partial' = TRUE
  <2>1. \A s \in Slot : OldestAge(batteries[s]) \in 0..Stale
    BY <1>4, SnapshotEstablished
  <2>2. \A s \in Slot : Stale - OldestAge(batteries[s]) \in 0..Stale
    BY <2>1, BatteryAssumption
  <2>3. Life \in [Slot -> 0..Stale] /\ Grant \in [Slot -> SUBSET Perm]
    BY <1>4, <2>2, AbstractState
  <2>4. \A s \in Slot : Life'[s] <= Life[s] /\ Grant'[s] \subseteq Grant[s]
    BY <1>2, <2>3, BatteryAssumption
  <2>5. Mode # "none" /\ Mode' = "held"
    BY <1>1, <1>4, AbstractState, AbstractStateNext
  <2> QED BY <1>2, <1>4, <2>3, <2>4, <2>5 DEF Abstract!Restrict
<1>5. CASE ~hasFull /\ partial' = partial
  BY <1>1, <1>2, <1>5, AbstractState, AbstractStateNext
<1>6. CASE bootReady' = bootReady /\ partial' = TRUE
  <2>1. Mode' = Mode
    BY <1>1, <1>6 DEF Mode
  <2> QED BY <1>2, <1>6, <2>1 DEF Abstract!Refuse
<1> QED BY <1>3, <1>4, <1>5, <1>6 DEF Kept

\* Time is the abstract Tick: saturated ages are expired evidence.
LEMMA TickIsTick ==
    ASSUME IInv, SInv, TickStep
    PROVE  Abstract!Tick
<1>1. UNCHANGED <<hasFull, bootReady, partial>>
  BY DEF TickStep
<1>2. Mode' = Mode
  BY <1>1 DEF Mode
<1>3. CASE ~hasFull
  <2>1. Life = [s \in Slot |-> 0] /\ Life' = [s \in Slot |-> 0] /\ Grant' = Grant
    BY <1>1, <1>3, AbstractState, AbstractStateNext
  <2> QED BY <1>1, <1>2, <2>1 DEF Abstract!Tick
<1>4. CASE hasFull
  <2>1. \A s \in Slot : /\ batteries'[s] = Aged(batteries[s]) /\ batteries[s] \in Battery
                        /\ OldestAge(batteries[s]) \in 0..Stale
    BY <1>4, SnapshotEstablished DEF TickStep
  <2>2. \A s \in Slot : /\ OldestAge(batteries'[s]) = Older(OldestAge(batteries[s]))
                        /\ batteries'[s].perm = batteries[s].perm
    BY <2>1, AgedKeeps
  <2>3. Grant' = Grant
    <3>1. \A s \in Slot : {p \in Perm : batteries'[s].perm[p] = "yes"}
                           = {p \in Perm : batteries[s].perm[p] = "yes"}
      BY <2>2
    <3>2. [s \in Slot |-> {p \in Perm : batteries'[s].perm[p] = "yes"}]
            = [s \in Slot |-> {p \in Perm : batteries[s].perm[p] = "yes"}]
      BY <3>1
    <3> QED BY <1>1, <1>4, <3>2, AbstractState, AbstractStateNext
  <2>4. \A a \in 0..Stale : Stale - Older(a) = IF Stale - a = 0 THEN 0 ELSE (Stale - a) - 1
    BY BatteryAssumption DEF Older, Absent
  <2>5. Life' = [s \in Slot |-> IF Life[s] = 0 THEN 0 ELSE Life[s] - 1]
    BY <1>1, <1>4, <2>1, <2>2, <2>4, AbstractState, AbstractStateNext
  <2> QED BY <1>1, <1>2, <2>3, <2>5 DEF Abstract!Tick
<1> QED BY <1>3, <1>4

\* Every step of the receiver is a step of Evidence or invisible to it.
LEMMA AbstractNext ==
    ASSUME IInv, SInv, [Next]_vars
    PROVE  [Abstract!Next]_(Abstract!evidence)
<1> SUFFICES Abstract!Next \/ UNCHANGED <<Mode, Life, Grant, partial>>
  BY DEF Abstract!evidence
<1>1. CASE FrameStep
  BY <1>1, AdoptIsComplete, MergeIsRenewOrRestrict, InvalidateIsDrop
     DEF FrameStep, Abstract!Next
<1>2. CASE Quiet
  <2>1. CASE Invalidate
    BY <2>1, InvalidateIsDrop DEF Abstract!Next
  <2>2. CASE Kept
    BY <2>2, KeptIsHoldOrRefuse DEF Abstract!Next
  <2>3. CASE LegacyStep
    <3>1. ~hasFull /\ ~hasFull' /\ partial' = partial
      BY <2>3 DEF LegacyStep, SInv, LegacyIsVirgin
    <3> QED BY <3>1, AbstractState, AbstractStateNext
  <2>4. CASE TickStep
    BY <2>4, TickIsTick DEF Abstract!Next
  <2> QED BY <1>2, <2>1, <2>2, <2>3, <2>4 DEF Quiet
<1> QED BY <1>1, <1>2, StepKinds

\* The receiver implements Evidence, for every inventory and every bound:
\* complete frames create evidence, the live session may renew it, and
\* everything else can only withdraw it or let it run out.
THEOREM ReceiverImplementsEvidence == Spec => ImplementsEvidence
BY AbstractInit, AbstractNext, Invariant, PTL DEF Spec, ImplementsEvidence, Abstract!Spec
=============================================================================
