--------------------------- MODULE MqttClientProofs ---------------------------
(***************************************************************************)
(* The receiver's safety for every number of BMS, fields, boots and        *)
(* sequence numbers and every expiry time and delay bound.                 *)
(***************************************************************************)
EXTENDS MqttClient, WellFoundedInduction, TLAPS

-----------------------------------------------------------------------------
(***************************************************************************)
(* The operators of BatteryData: what the decoders return is a battery,    *)
(* and what they do to the ages of its evidence.                           *)
(***************************************************************************)
\* The age of the oldest sample exists: no set of ages is without a largest one.
LEMMA LargestAge ==
    ASSUME NEW T \in SUBSET Age, T # {}
    PROVE  \E a \in T : \A c \in T : c <= a
<1> DEFINE U == {n \in Nat : \E a \in T : n = Stale - a}
<1>1. Stale \in Nat /\ \A a \in T : a \in Int /\ a <= Stale
  BY BatteryAssumption DEF Age, Absent
<1>2. U \subseteq Nat /\ U # {}
  <2>1. PICK a \in T : TRUE
    OBVIOUS
  <2>2. Stale - a \in U
    BY <1>1
  <2> QED BY <2>2
<1>3. PICK u \in U : \A v \in U : ~(<<v, u>> \in OpToRel(<, Nat))
  <2>1. \E u \in U : \A v \in U : ~(<<v, u>> \in OpToRel(<, Nat))
    <3> HIDE DEF U
    <3> QED BY <1>2, NatLessThanWellFounded, WFMin, Zenon
  <2> QED BY <2>1
<1>4. \A v \in U : u <= v
  <2> SUFFICES ASSUME NEW v \in U PROVE u <= v
    OBVIOUS
  <2>1. u \in Nat /\ v \in Nat
    OBVIOUS
  <2>2. <<v, u>> \in Nat \X Nat /\ ~(<<v, u>> \in OpToRel(<, Nat))
    BY <1>3, <2>1
  <2>3. ~(v < u)
    BY <2>2, Zenon DEF OpToRel
  <2> QED BY <2>1, <2>3
<1>5. PICK a \in T : u = Stale - a
  OBVIOUS
<1>6. \A c \in T : c <= a
  <2> SUFFICES ASSUME NEW c \in T PROVE c <= a
    OBVIOUS
  <2>1. Stale - c \in U
    BY <1>1
  <2>2. u <= Stale - c
    BY <1>4, <2>1
  <2> QED BY <1>1, <1>5, <2>2
<1> QED BY <1>6

\* oldest_sample_time bounds every sample time of the battery.
LEMMA OldestAgeBounds ==
    ASSUME NEW b \in Battery
    PROVE  /\ OldestAge(b) \in Age
           /\ \A k \in Keys : b.age[k] <= OldestAge(b)
           /\ \E k \in Keys : OldestAge(b) = b.age[k]
<1> DEFINE T == {b.age[k] : k \in Keys}
<1>1. b.age \in [Keys -> Age]
  BY DEF Battery
<1>2. T \in SUBSET Age /\ T # {}
  BY <1>1 DEF Keys
<1>3. \E a \in T : \A c \in T : c <= a
  <2> HIDE DEF T
  <2> QED BY <1>2, LargestAge
<1>4. \E a \in T : \A k \in Keys : b.age[k] <= a
  BY <1>3
<1>5. OldestAge(b) \in T /\ \A k \in Keys : b.age[k] <= OldestAge(b)
  BY <1>4 DEF OldestAge
<1> QED BY <1>2, <1>5

\* A BatteryData object as constructed is well-typed.
LEMMA EmptyBatteryType == EmptyBattery \in Battery
BY BatteryAssumption DEF EmptyBattery, Battery, Age, Absent, Tri

\* What _decode_complete_row builds from a row is well-typed.
LEMMA DecodedRowType ==
    ASSUME NEW r \in Row
    PROVE  DecodedRow(r) \in Battery
BY BatteryAssumption DEF DecodedRow, Battery, Row, Age, Absent, Tri, TriOf

\* The age a partial frame gives a reading is never younger than its claim,
\* and without refresh never younger than the battery's oldest evidence.
LEMMA PartialAgeBounds ==
    ASSUME NEW b \in Battery, NEW a \in 0..Stale, NEW refresh \in BOOLEAN
    PROVE  /\ PartialAge(b, a, refresh) \in 0..Stale
           /\ a <= PartialAge(b, a, refresh)
           /\ ~refresh => OldestAge(b) <= PartialAge(b, a, refresh)
BY OldestAgeBounds, BatteryAssumption DEF PartialAge, Age, Absent

\* What merge_partial makes of a well-typed battery is well-typed.
LEMMA MergedRowType ==
    ASSUME NEW b \in Battery, NEW r \in Row, NEW refresh \in BOOLEAN
    PROVE  MergedRow(b, r, refresh) \in Battery
<1>1. r.age \in 0..Stale
  BY DEF Row
<1>2. PartialAge(b, r.age, refresh) \in 0..Stale
  BY <1>1, PartialAgeBounds
<1>3. \A k \in Keys : MergedAge(b, r, refresh, k) \in Age
  BY <1>1, <1>2 DEF MergedAge, Battery, Age, Absent
<1>4. \A p \in Perm : MergedPerm(b, r, p) \in Tri
  BY DEF MergedPerm, Battery, Tri
<1> QED BY <1>3, <1>4 DEF MergedRow, Battery, Row

\* The passing of time keeps an age within its saturation bound.
LEMMA OlderType ==
    ASSUME NEW a \in Age
    PROVE  Older(a) \in Age /\ a <= Older(a) /\ (a # Absent /\ a # Stale => Older(a) = a + 1)
           /\ (a \in {Absent, Stale} => Older(a) = a)
BY BatteryAssumption DEF Older, Age, Absent

\* A battery stays well-typed while its samples age.
LEMMA AgedType ==
    ASSUME NEW b \in Battery
    PROVE  Aged(b) \in Battery
BY OlderType DEF Aged, Battery

\* A legacy sensor message keeps a battery well-typed.
LEMMA UpdateReadingType ==
    ASSUME NEW b \in Battery, NEW k \in Readings, NEW v \in {"good", "bad", "nan"}
    PROVE  UpdateReading(b, k, v) \in Battery
<1>1. 0 \in Age /\ Stale \in Age /\ k \in Keys
  BY BatteryAssumption DEF Age, Absent, Keys
<1>2. CASE v = "nan"
  BY <1>1, <1>2 DEF UpdateReading, Battery
<1>3. CASE v = "good"
  BY <1>1, <1>3 DEF UpdateReading, Battery
<1>4. CASE v = "bad"
  BY <1>1, <1>4 DEF UpdateReading, Battery
<1> QED BY <1>2, <1>3, <1>4

\* A legacy permission or online message keeps a battery well-typed.
LEMMA UpdateStatusType ==
    ASSUME NEW b \in Battery, NEW v \in Tri
    PROVE  /\ \A p \in Perm : UpdatePermission(b, p, v) \in Battery
           /\ UpdateOnline(b, v) \in Battery
BY DEF UpdatePermission, UpdateOnline, Battery

-----------------------------------------------------------------------------
(***************************************************************************)
(* The receiver.                                                           *)
(***************************************************************************)
\* The boots heard are the current one and the retired ones, and the last news
\* is the position: what makes a replay recognisable although boot ids carry no
\* order, and a boot never heard distinguishable from it.
SessionHistory ==
    /\ newest = <<bootId, sequence>>
    /\ retired \subseteq heard /\ bootId \notin retired
    /\ heard = (retired \cup {bootId}) \ {NoBoot}

\* EvidenceIsReal made inductive: a key without a sample time has no evidence
\* either, or the evidence would go on ageing behind it.
AgesHonest ==
    \A s \in Slot, k \in Keys :
        /\ physical[s][k] <= batteries[s].age[k] + MaxDelay
        /\ batteries[s].age[k] = Absent => physical[s][k] = Absent

IInv == TypeOK /\ AgesHonest /\ SessionHistory

\* A receiver that was just constructed satisfies the inductive invariant.
LEMMA InitIInv == Init => IInv
<1> SUFFICES ASSUME Init PROVE IInv
  OBVIOUS
<1>1. batteries \in [Slot -> Battery]
  BY EmptyBatteryType DEF Init, NoBatteries
<1>2. totals \in [Total -> Age] /\ physical \in [Slot -> [Keys -> Absent..Late]]
  BY BatteryAssumption, ClientAssumption
     DEF Init, NoTotals, NoEvidence, Age, Absent, Late
<1>3. AgesHonest
  BY ClientAssumption
     DEF Init, AgesHonest, NoBatteries, NoEvidence, EmptyBattery, Absent
<1>4. topology \in BOOLEAN /\ source \in {"atomic", "legacy"} /\ sequence \in -1..MaxSeq
  BY ClientAssumption DEF Init
<1>5. newest \in (Boot \cup {NoBoot}) \X (-1..MaxSeq)
  BY ClientAssumption DEF Init
<1>6. TypeOK
  BY <1>1, <1>2, <1>4, <1>5 DEF Init, TypeOK
<1> QED
  BY <1>3, <1>6 DEF Init, IInv, SessionHistory

\* _invalidate_samples leaves neither a reading nor a claim about its age.
LEMMA InvalidateSafe ==
    ASSUME Invalidate
    PROVE  /\ batteries' \in [Slot -> Battery] /\ totals' \in [Total -> Age]
           /\ physical' \in [Slot -> [Keys -> Absent..Late]]
           /\ hasFull' \in BOOLEAN /\ bootReady' \in BOOLEAN /\ partial' \in BOOLEAN
           /\ AgesHonest'
<1>1. batteries' \in [Slot -> Battery]
  BY EmptyBatteryType DEF Invalidate, NoBatteries
<1>2. totals' \in [Total -> Age] /\ physical' \in [Slot -> [Keys -> Absent..Late]]
  BY BatteryAssumption, ClientAssumption
     DEF Invalidate, NoTotals, NoEvidence, Age, Absent, Late
<1>3. AgesHonest'
  BY ClientAssumption
     DEF Invalidate, AgesHonest, NoBatteries, NoEvidence, EmptyBattery, Absent
<1> QED BY <1>1, <1>2, <1>3 DEF Invalidate

\* Every slot of a frame holds one of the rows.
LEMMA FrameRow ==
    ASSUME NEW f \in Frame, DOMAIN f.rows = Slot, NEW s \in Slot
    PROVE  f.rows[s] \in Row
BY ClientAssumption DEF Frame

\* The true age of what a row reports is an age.
LEMMA TrueAgeType ==
    ASSUME NEW a \in Nat
    PROVE  TrueAge(a) \in Absent..Late /\ TrueAge(a) <= a /\ TrueAge(a) <= Late
BY BatteryAssumption, ClientAssumption DEF TrueAge, Late, Absent

\* Replacing all batteries by a complete frame keeps ages honest: every
\* sample is as old as the producer said, plus its delay.
LEMMA AdoptCompleteSafe ==
    ASSUME IInv, NEW f \in Frame, NEW d \in 0..MaxDelay, AdoptComplete(f, d)
    PROVE  /\ batteries' \in [Slot -> Battery]
           /\ physical' \in [Slot -> [Keys -> Absent..Late]]
           /\ AgesHonest'
<1>1. DOMAIN f.rows = Slot
  BY DEF AdoptComplete, CompleteFrame
<1>2. \A s \in Slot : f.rows[s] \in Row /\ f.rows[s].age \in 0..Stale
  BY <1>1, FrameRow DEF Row
<1>3. batteries' \in [Slot -> Battery]
  BY <1>2, DecodedRowType DEF AdoptComplete
<1>4. d \in Nat /\ Stale \in Nat /\ MaxDelay \in Nat /\ d <= MaxDelay
  BY ClientAssumption, BatteryAssumption
<1>5. \A s \in Slot : /\ f.rows[s].age + d \in Nat
                      /\ TrueAge(f.rows[s].age + d) \in Absent..Late
                      /\ TrueAge(f.rows[s].age + d) <= f.rows[s].age + MaxDelay
  BY <1>2, <1>4, TrueAgeType DEF Late, Absent
<1>6. physical' \in [Slot -> [Keys -> Absent..Late]]
  BY <1>4, <1>5 DEF AdoptComplete, Absent, Late
<1>7. ASSUME NEW s \in Slot, NEW k \in Keys
      PROVE  /\ physical'[s][k] <= batteries'[s].age[k] + MaxDelay
             /\ batteries'[s].age[k] = Absent => physical'[s][k] = Absent
  <2>1. batteries'[s].age[k] = IF k \in f.rows[s].seen THEN f.rows[s].age ELSE Absent
    BY DEF AdoptComplete, DecodedRow
  <2>2. physical'[s][k] = IF k \in f.rows[s].seen
                          THEN TrueAge(f.rows[s].age + d) ELSE Absent
    BY DEF AdoptComplete
  <2> QED BY <1>2, <1>4, <1>5, <2>1, <2>2 DEF Absent
<1> QED BY <1>3, <1>6, <1>7 DEF AgesHonest

\* Merging a partial frame keeps ages honest, whether it refreshes or not.
LEMMA MergePartialSafe ==
    ASSUME IInv, NEW f \in Frame, NEW d \in 0..MaxDelay, MergePartial(f, d)
    PROVE  /\ batteries' \in [Slot -> Battery]
           /\ physical' \in [Slot -> [Keys -> Absent..Late]]
           /\ AgesHonest'
<1> DEFINE refresh == Refreshing(f)
<1>0. refresh \in BOOLEAN
  BY DEF IInv, TypeOK, Refreshing, NewSession
<1>1. DOMAIN f.rows = Slot
  BY DEF MergePartial, PartialFrame
<1>2. \A s \in Slot : /\ f.rows[s] \in Row /\ f.rows[s].age \in 0..Stale
                      /\ batteries[s] \in Battery
                      /\ batteries[s].age \in [Keys -> Age]
  BY <1>1, FrameRow DEF Row, IInv, TypeOK, Battery
<1>3. batteries' \in [Slot -> Battery]
  BY <1>0, <1>2, MergedRowType DEF MergePartial
<1>4. d \in Nat /\ Stale \in Nat /\ MaxDelay \in Nat /\ d <= MaxDelay
  BY ClientAssumption, BatteryAssumption
<1>5. \A s \in Slot : /\ f.rows[s].age + d \in Nat
                      /\ TrueAge(f.rows[s].age + d) \in Absent..Late
                      /\ TrueAge(f.rows[s].age + d) <= f.rows[s].age + MaxDelay
  BY <1>2, <1>4, TrueAgeType DEF Late, Absent
<1>6. physical' \in [Slot -> [Keys -> Absent..Late]]
  BY <1>4, <1>5 DEF MergePartial, Absent, Late, IInv, TypeOK
<1>7. ASSUME NEW s \in Slot, NEW k \in Keys
      PROVE  /\ physical'[s][k] <= batteries'[s].age[k] + MaxDelay
             /\ batteries'[s].age[k] = Absent => physical'[s][k] = Absent
  <2>1. batteries'[s].age[k] = MergedAge(batteries[s], f.rows[s], refresh, k)
    BY DEF MergePartial, MergedRow
  <2>2. physical'[s][k] = IF k \in f.rows[s].seen /\ (k # "mos" \/ refresh)
                          THEN TrueAge(f.rows[s].age + d) ELSE physical[s][k]
    BY DEF MergePartial
  <2>3. /\ physical[s][k] <= batteries[s].age[k] + MaxDelay
        /\ batteries[s].age[k] = Absent => physical[s][k] = Absent
    BY DEF IInv, AgesHonest
  <2>4. /\ PartialAge(batteries[s], f.rows[s].age, refresh) \in 0..Stale
        /\ f.rows[s].age <= PartialAge(batteries[s], f.rows[s].age, refresh)
    BY <1>0, <1>2, PartialAgeBounds
  <2> HIDE DEF refresh
  <2>5. CASE k \in f.rows[s].seen /\ (k # "mos" \/ refresh)
    <3>1. f.rows[s].age <= batteries'[s].age[k] /\ batteries'[s].age[k] \in Int
      BY <1>2, <1>4, <2>1, <2>4, <2>5 DEF MergedAge
    <3> QED BY <1>2, <1>4, <1>5, <2>2, <2>5, <3>1 DEF Late, Absent
  <2>6. CASE ~(k \in f.rows[s].seen /\ (k # "mos" \/ refresh))
    <3>1. batteries'[s].age[k] = batteries[s].age[k]
      BY <2>1, <2>6 DEF MergedAge
    <3> QED BY <2>2, <2>3, <2>6, <3>1
  <2> QED BY <2>5, <2>6
<1> QED BY <1>3, <1>6, <1>7 DEF AgesHonest

\* The part of the state that _process_telemetry may change.
Readable ==
    /\ batteries \in [Slot -> Battery] /\ totals \in [Total -> Age]
    /\ physical \in [Slot -> [Keys -> Absent..Late]]
    /\ hasFull \in BOOLEAN /\ bootReady \in BOOLEAN /\ partial \in BOOLEAN
    /\ AgesHonest

\* Discarding the legacy totals leaves well-typed ages.
LEMMA NoTotalsType == NoTotals \in [Total -> Age]
BY BatteryAssumption DEF NoTotals, Age, Absent

\* The position and the history consist of boots and sequence numbers.
LEMMA HistoryTypes ==
    ASSUME IInv
    PROVE  /\ bootId \in Boot \cup {NoBoot} /\ sequence \in Int
           /\ newest[1] = bootId /\ newest[2] = sequence
           /\ retired \subseteq Boot /\ heard \subseteq Boot
BY ClientAssumption DEF IInv, TypeOK, SessionHistory

\* Nothing that is news is mistaken for a replay, everything else is
\* recognised as one, and news of another boot is of one never heard.
LEMMA ReplayDecided ==
    ASSUME IInv, NEW f \in Frame
    PROVE  /\ Newer(f) => ~Replayed(f)
           /\ Newer(f) /\ f.boot # bootId => f.boot \notin heard
           /\ ~Newer(f) => Replayed(f)
<1>1. f.boot \in Boot /\ f.boot # NoBoot /\ f.seq \in Nat
  BY ClientAssumption DEF Frame
<1>2. heard = (retired \cup {bootId}) \ {NoBoot} /\ bootId \notin retired
  BY DEF IInv, SessionHistory
<1> QED
  BY <1>1, <1>2, HistoryTypes DEF Newer, Replayed

\* Whatever becomes of an accepted frame, its evidence is as old as it claims.
LEMMA AcceptSafe ==
    ASSUME IInv, NEW f \in Frame, NEW d \in 0..MaxDelay,
           AdoptComplete(f, d) \/ MergePartial(f, d) \/ RejectFrame(f)
    PROVE  Readable'
<1>1. CASE AdoptComplete(f, d)
  <2>1. /\ hasFull' \in BOOLEAN /\ bootReady' \in BOOLEAN /\ partial' \in BOOLEAN
        /\ totals' \in [Total -> Age]
    BY <1>1, NoTotalsType DEF AdoptComplete
  <2> QED BY <1>1, <2>1, AdoptCompleteSafe DEF Readable
<1>2. CASE MergePartial(f, d)
  <2>1. /\ hasFull' \in BOOLEAN /\ bootReady' \in BOOLEAN /\ partial' \in BOOLEAN
        /\ totals' \in [Total -> Age]
    BY <1>2, NoTotalsType DEF MergePartial, Refreshing, NewSession, IInv, TypeOK
  <2> QED BY <1>2, <2>1, MergePartialSafe DEF Readable
<1>3. CASE RejectFrame(f)
  BY <1>3, InvalidateSafe DEF RejectFrame, Readable
<1> QED BY <1>1, <1>2, <1>3

\* Refusing a session for lack of history keeps the invariant.
LEMMA RefuseSafe ==
    ASSUME IInv, RefuseSession
    PROVE  Readable'
<1>1. CASE topology
  BY <1>1, InvalidateSafe DEF RefuseSession, Readable
<1>2. CASE ~topology
  BY <1>2 DEF RefuseSession, Readable, IInv, TypeOK, AgesHonest
<1> QED BY <1>1, <1>2

\* A frame that is news is processed safely and the history follows.
LEMMA DeliverFrameSafe ==
    ASSUME IInv, UNCHANGED topology, NEW f \in Frame, NEW d \in 0..MaxDelay, DeliverFrame(f, d)
    PROVE  IInv' /\ NeverReturns
<1>1. f.boot \in Boot /\ f.boot # NoBoot /\ f.seq \in 0..MaxSeq
  BY ClientAssumption DEF Frame
<1>2. connected' \in BOOLEAN /\ source' \in {"atomic", "legacy"}
  BY DEF DeliverFrame, ProcessTelemetry, IInv, TypeOK
<1>3. ~Replayed(f) /\ (f.boot # bootId => f.boot \notin heard)
  BY ReplayDecided DEF DeliverFrame
<1>4. CASE SessionRefused(f)
  <2>1. RefuseSession /\ UNCHANGED <<bootId, sequence, retired, newest, heard>>
    BY <1>3, <1>4 DEF DeliverFrame, ProcessTelemetry, session
  <2>2. Readable'
    BY <2>1, RefuseSafe
  <2> QED BY <1>2, <2>1, <2>2
             DEF Readable, IInv, TypeOK, SessionHistory, NeverReturns, Position
<1>5. CASE ~SessionRefused(f)
  <2>1. /\ TakeSession(f)
        /\ AdoptComplete(f, d) \/ MergePartial(f, d) \/ RejectFrame(f)
        /\ newest' = <<f.boot, f.seq>> /\ heard' = heard \cup {f.boot}
    BY <1>3, <1>5 DEF DeliverFrame, ProcessTelemetry
  <2>2. Readable'
    BY <2>1, AcceptSafe
  <2>3. /\ bootId' = f.boot /\ sequence' = f.seq
        /\ retired' = IF NewSession(f) THEN retired \cup {bootId} ELSE retired
    BY <2>1 DEF TakeSession
  <2>4. /\ heard = (retired \cup {bootId}) \ {NoBoot} /\ retired \subseteq heard
        /\ bootId \notin retired /\ heard \subseteq Boot
    BY DEF IInv, TypeOK, SessionHistory
  <2>5. /\ retired' \subseteq heard' /\ bootId' \notin retired'
        /\ heard' = (retired' \cup {bootId'}) \ {NoBoot} /\ heard' \subseteq Boot
    <3>1. CASE NewSession(f)
      BY <1>1, <1>3, <2>1, <2>3, <2>4, <3>1 DEF NewSession
    <3>2. CASE ~NewSession(f)
      BY <1>1, <1>3, <2>1, <2>3, <2>4, <3>2 DEF NewSession
    <3> QED BY <3>1, <3>2
  <2>6. newest' \in (Boot \cup {NoBoot}) \X (-1..MaxSeq) /\ sequence' \in -1..MaxSeq
    BY <1>1, <2>1, <2>3, ClientAssumption
  <2>7. NeverReturns
    BY <1>1, <1>3, <2>3, HistoryTypes DEF DeliverFrame, Newer, NeverReturns, Position
  <2> QED
    BY <1>1, <1>2, <2>1, <2>2, <2>3, <2>5, <2>6, <2>7
       DEF Readable, IInv, TypeOK, SessionHistory
<1> QED BY <1>4, <1>5

\* A frame that is no news changes no evidence, however late it comes.
LEMMA DeliverLateSafe ==
    ASSUME IInv, UNCHANGED topology, NEW f \in Frame, DeliverLate(f)
    PROVE  IInv' /\ UNCHANGED <<bootId, sequence>>
<1>1. Replayed(f)
  BY ReplayDecided DEF DeliverLate
<1>2. /\ UNCHANGED <<batteries, bootId, sequence, retired, hasFull, bootReady,
                     partial, totals, physical, connected, newest, heard>>
      /\ source' = "atomic"
  BY <1>1 DEF DeliverLate, ProcessTelemetry, session
<1> QED BY <1>2 DEF IInv, TypeOK, AgesHonest, SessionHistory

\* Readings held after their session has ended are the readings there were.
LEMMA HoldSafe ==
    ASSUME IInv, Hold
    PROVE  Readable'
BY DEF IInv, TypeOK, AgesHonest, Hold, Readable

\* A lost connection leaves the history alone.
LEMMA OnDisconnectSafe ==
    ASSUME IInv, UNCHANGED topology, OnDisconnect
    PROVE  IInv' /\ UNCHANGED <<bootId, sequence>>
<1>1. /\ UNCHANGED <<source, bootId, sequence, retired, newest, heard>>
      /\ connected' = FALSE /\ (Hold \/ Invalidate)
  BY DEF OnDisconnect, session
<1>2. Readable'
  <2>1. CASE Hold BY <2>1, HoldSafe
  <2>2. CASE Invalidate BY <2>2, InvalidateSafe DEF Readable
  <2> QED BY <1>1, <2>1, <2>2
<1> QED BY <1>1, <1>2 DEF Readable, IInv, TypeOK, SessionHistory

\* An announced offline producer leaves the history alone.
LEMMA ProducerOfflineSafe ==
    ASSUME IInv, UNCHANGED topology, ProducerOffline
    PROVE  IInv' /\ UNCHANGED <<bootId, sequence>>
<1>1. UNCHANGED <<source, bootId, sequence, retired, connected, newest, heard>>
  BY DEF ProducerOffline, session
<1>2. Readable'
  <2>1. CASE Hold BY <2>1, HoldSafe
  <2>2. CASE Invalidate BY <2>2, InvalidateSafe DEF Readable
  <2>3. CASE bootReady' = FALSE /\ UNCHANGED <<batteries, totals, hasFull, partial, physical>>
    BY <2>3 DEF IInv, TypeOK, AgesHonest, Readable
  <2> QED BY <2>1, <2>2, <2>3 DEF ProducerOffline
<1> QED BY <1>1, <1>2 DEF Readable, IInv, TypeOK, SessionHistory

\* Connecting, and a payload that cannot be read, bring no evidence.
LEMMA NoEvidenceSafe ==
    ASSUME IInv, UNCHANGED topology,
           OnConnect \/ DeliverUnreadable \/ DropAggregate
    PROVE  IInv' /\ UNCHANGED <<bootId, sequence>>
<1>1. CASE OnConnect
  BY <1>1 DEF OnConnect, session, IInv, TypeOK, AgesHonest, SessionHistory
<1>2. CASE DeliverUnreadable
  <2>1. /\ Invalidate /\ source' = "atomic"
        /\ UNCHANGED <<bootId, sequence, retired, connected, newest, heard>>
    BY <1>2 DEF DeliverUnreadable, session
  <2> QED BY <2>1, InvalidateSafe DEF IInv, TypeOK, SessionHistory
<1>3. CASE DropAggregate
  <2>1. /\ Invalidate
        /\ UNCHANGED <<source, bootId, sequence, retired, connected, newest, heard>>
    BY <1>3 DEF DropAggregate, session
  <2> QED BY <2>1, InvalidateSafe DEF IInv, TypeOK, SessionHistory
<1> QED BY <1>1, <1>2, <1>3

\* One legacy topic dates the one reading it carries, and no other.
LEMMA LegacyReadingSafe ==
    ASSUME IInv, NEW s \in Slot, NEW k \in Readings,
           NEW v \in {"good", "bad", "nan"}, NEW d \in 0..MaxDelay,
           LegacyReading(s, k, v, d)
    PROVE  /\ batteries' \in [Slot -> Battery]
           /\ physical' \in [Slot -> [Keys -> Absent..Late]]
           /\ AgesHonest'
<1>1. batteries \in [Slot -> Battery] /\ physical \in [Slot -> [Keys -> Absent..Late]]
  BY DEF IInv, TypeOK
<1>2. /\ batteries' = [batteries EXCEPT ![s] = UpdateReading(batteries[s], k, v)]
      /\ physical' = IF v = "nan" THEN physical ELSE [physical EXCEPT ![s][k] = d]
  BY DEF LegacyReading
<1>3. UpdateReading(batteries[s], k, v) \in Battery
  BY <1>1, UpdateReadingType
<1>4. d \in Absent..Late /\ d <= MaxDelay /\ MaxDelay \in Nat /\ Stale \in Nat
  BY ClientAssumption, BatteryAssumption DEF Absent, Late
<1>5. k \in Keys
  BY DEF Keys
<1>6. batteries' \in [Slot -> Battery] /\ physical' \in [Slot -> [Keys -> Absent..Late]]
  BY <1>1, <1>2, <1>3, <1>4, <1>5
<1>7. ASSUME NEW t \in Slot, NEW j \in Keys
      PROVE  /\ physical'[t][j] <= batteries'[t].age[j] + MaxDelay
             /\ batteries'[t].age[j] = Absent => physical'[t][j] = Absent
  <2>1. /\ physical[t][j] <= batteries[t].age[j] + MaxDelay
        /\ batteries[t].age[j] = Absent => physical[t][j] = Absent
    BY DEF IInv, AgesHonest
  <2>2. /\ batteries[t] \in Battery /\ batteries[t].age \in [Keys -> Age]
        /\ batteries[t].age[j] \in -1..Stale /\ physical[t][j] \in -1..Late
    BY <1>1 DEF Battery, Age, Absent
  <2>3. CASE t # s
    BY <1>1, <1>2, <2>1, <2>3
  <2>4. CASE t = s
    <3>1. batteries'[t] = UpdateReading(batteries[t], k, v)
      BY <1>1, <1>2, <2>4
    <3>2. CASE v = "nan"
      <4>1. /\ physical'[t][j] = physical[t][j]
            /\ batteries'[t].age[j] \in {batteries[t].age[j], Stale}
        BY <1>2, <2>2, <3>1, <3>2 DEF UpdateReading, Battery
      <4> QED BY <1>4, <2>1, <2>2, <4>1 DEF Absent
    <3>3. CASE v # "nan"
      <4>1. batteries'[t].age = [batteries[t].age EXCEPT ![k] = 0]
        BY <2>2, <3>1, <3>3 DEF UpdateReading, Battery
      <4>2. physical'[t] = [physical[t] EXCEPT ![k] = d]
        BY <1>1, <1>2, <2>4, <3>3
      <4>3. CASE j = k
        <5>1. batteries'[t].age[j] = 0 /\ physical'[t][j] = d
          BY <1>1, <1>5, <2>2, <4>1, <4>2, <4>3
        <5> QED BY <1>4, <5>1 DEF Absent
      <4>4. CASE j # k
        BY <1>1, <2>1, <2>2, <4>1, <4>2, <4>4
      <4> QED BY <4>3, <4>4
    <3> QED BY <3>2, <3>3
  <2> QED BY <2>3, <2>4
<1> QED BY <1>6, <1>7 DEF AgesHonest

\* Permissions and online latch; they are not evidence of any reading's age.
LEMMA LegacyLatchSafe ==
    ASSUME IInv, NEW s \in Slot, NEW b \in Battery, b.age = batteries[s].age,
           batteries' = [batteries EXCEPT ![s] = b], physical' = physical
    PROVE  batteries' \in [Slot -> Battery] /\ AgesHonest'
<1>1. batteries \in [Slot -> Battery]
  BY DEF IInv, TypeOK
<1>2. \A t \in Slot : batteries'[t].age = batteries[t].age
  BY <1>1
<1> QED BY <1>1, <1>2 DEF IInv, AgesHonest

\* Every legacy message is processed safely.
LEMMA DeliverLegacySafe ==
    ASSUME IInv, UNCHANGED topology, DeliverLegacy
    PROVE  IInv' /\ UNCHANGED <<bootId, sequence>>
<1>1. UNCHANGED <<source, bootId, sequence, retired, hasFull, bootReady, partial,
                  connected, newest, heard>>
  BY DEF DeliverLegacy, session
<1>2. batteries \in [Slot -> Battery] /\ physical \in [Slot -> [Keys -> Absent..Late]]
      /\ totals \in [Total -> Age]
  BY DEF IInv, TypeOK
<1> DEFINE Safe == /\ batteries' \in [Slot -> Battery] /\ totals' \in [Total -> Age]
                   /\ physical' \in [Slot -> [Keys -> Absent..Late]]
                   /\ AgesHonest'
<1>3. Safe
  <2>1. ASSUME NEW s \in Slot, NEW k \in Readings, NEW v \in {"good", "bad", "nan"},
               NEW d \in 0..MaxDelay, LegacyReading(s, k, v, d)
        PROVE  Safe
    <3>1. totals' = totals
      BY <2>1 DEF LegacyReading
    <3> QED BY <1>2, <2>1, <3>1, LegacyReadingSafe
  <2>2. ASSUME NEW s \in Slot, NEW p \in Perm, NEW v \in Tri, LegacyPermission(s, p, v)
        PROVE  Safe
    <3>1. /\ batteries' = [batteries EXCEPT ![s] = UpdatePermission(batteries[s], p, v)]
          /\ physical' = physical /\ totals' = totals
      BY <2>2 DEF LegacyPermission
    <3>2. /\ UpdatePermission(batteries[s], p, v) \in Battery
          /\ UpdatePermission(batteries[s], p, v).age = batteries[s].age
      BY <1>2 DEF UpdatePermission, Battery
    <3> QED BY <1>2, <3>1, <3>2, LegacyLatchSafe
  <2>3. ASSUME NEW s \in Slot, NEW v \in Tri, LegacyOnline(s, v)
        PROVE  Safe
    <3>1. /\ batteries' = [batteries EXCEPT ![s] = UpdateOnline(batteries[s], v)]
          /\ physical' = physical /\ totals' = totals
      BY <2>3 DEF LegacyOnline
    <3>2. /\ UpdateOnline(batteries[s], v) \in Battery
          /\ UpdateOnline(batteries[s], v).age = batteries[s].age
      BY <1>2 DEF UpdateOnline, Battery
    <3> QED BY <1>2, <3>1, <3>2, LegacyLatchSafe
  <2>4. ASSUME NEW t \in Total, LegacyTotal(t)
        PROVE  Safe
    <3>1. 0 \in Age
      BY BatteryAssumption DEF Age, Absent
    <3>2. /\ totals' = [totals EXCEPT ![t] = 0]
          /\ batteries' = batteries /\ physical' = physical
      BY <2>4 DEF LegacyTotal
    <3>3. totals' \in [Total -> Age]
      BY <1>2, <3>1, <3>2
    <3> QED BY <1>2, <3>2, <3>3 DEF IInv, AgesHonest
  <2> QED BY <2>1, <2>2, <2>3, <2>4 DEF DeliverLegacy
<1> QED BY <1>1, <1>3 DEF IInv, TypeOK, SessionHistory

\* Time ages the readings and the truth alike.
LEMMA TickSafe ==
    ASSUME IInv, UNCHANGED topology, Tick
    PROVE  IInv' /\ UNCHANGED <<bootId, sequence>>
<1>1. UNCHANGED <<source, bootId, sequence, retired, hasFull, bootReady, partial,
                  connected, newest, heard>>
  BY DEF Tick, session
<1>2. /\ batteries \in [Slot -> Battery] /\ totals \in [Total -> Age]
      /\ physical \in [Slot -> [Keys -> Absent..Late]]
  BY DEF IInv, TypeOK
<1>3. batteries' \in [Slot -> Battery]
  BY <1>2, AgedType DEF Tick
<1>4. totals' \in [Total -> Age]
  BY <1>2, OlderType DEF Tick
<1>5. Stale \in Nat /\ MaxDelay \in Nat /\ Absent = -1 /\ Late = Stale + MaxDelay
  BY ClientAssumption, BatteryAssumption DEF Absent, Late
<1>6. \A s \in Slot, k \in Keys : physical[s][k] \in Absent..Late
  BY <1>2
<1>7. \A a \in Absent..Late :
        (IF a = Absent THEN Absent ELSE TrueAge(a + 1)) \in Absent..Late
  BY <1>5 DEF TrueAge
<1>8. physical' \in [Slot -> [Keys -> Absent..Late]]
  BY <1>6, <1>7 DEF Tick
<1>9. ASSUME NEW s \in Slot, NEW k \in Keys
      PROVE  /\ physical'[s][k] <= batteries'[s].age[k] + MaxDelay
             /\ batteries'[s].age[k] = Absent => physical'[s][k] = Absent
  <2>1. batteries'[s].age[k] = Older(batteries[s].age[k])
    BY <1>2 DEF Tick, Aged, Battery
  <2>2. physical'[s][k] = IF physical[s][k] = Absent THEN Absent ELSE TrueAge(physical[s][k] + 1)
    BY DEF Tick
  <2>3. /\ physical[s][k] <= batteries[s].age[k] + MaxDelay
        /\ batteries[s].age[k] = Absent => physical[s][k] = Absent
    BY DEF IInv, AgesHonest
  <2>4. batteries[s].age[k] \in Absent..Stale
    BY <1>2 DEF Battery, Age
  <2> QED BY <1>5, <1>6, <2>1, <2>2, <2>3, <2>4 DEF Older, TrueAge
<1> QED BY <1>1, <1>3, <1>4, <1>8, <1>9 DEF IInv, TypeOK, AgesHonest, SessionHistory

\* Every step keeps the invariant and returns to no session.
LEMMA NextIInv ==
    ASSUME IInv, [Next]_vars
    PROVE  IInv' /\ NeverReturns
<1>0. UNCHANGED topology
  BY DEF Next, vars
<1>1. CASE OnConnect \/ DeliverUnreadable \/ DropAggregate
  BY <1>0, <1>1, NoEvidenceSafe DEF Position, NeverReturns
<1>2. CASE OnDisconnect
  BY <1>0, <1>2, OnDisconnectSafe DEF Position, NeverReturns
<1>3. CASE ProducerOffline
  BY <1>0, <1>3, ProducerOfflineSafe DEF Position, NeverReturns
<1>4. ASSUME NEW f \in Frame, NEW d \in 0..MaxDelay, DeliverFrame(f, d)
      PROVE  IInv' /\ NeverReturns
  BY <1>0, <1>4, DeliverFrameSafe
<1>5. ASSUME NEW f \in Frame, DeliverLate(f)
      PROVE  IInv' /\ NeverReturns
  BY <1>0, <1>5, DeliverLateSafe DEF Position, NeverReturns
<1>6. CASE DeliverLegacy
  BY <1>0, <1>6, DeliverLegacySafe DEF Position, NeverReturns
<1>7. CASE Tick
  BY <1>0, <1>7, TickSafe DEF Position, NeverReturns
<1>8. ASSUME UNCHANGED vars
      PROVE  IInv' /\ NeverReturns
  BY <1>8 DEF vars, session, IInv, TypeOK, AgesHonest, SessionHistory,
              Position, NeverReturns
<1>9. ASSUME NEW f \in Frame, DeliverRetained(f)
      PROVE  UNCHANGED vars
  BY <1>9 DEF DeliverRetained, IgnoreMessage
<1> QED
  BY <1>1, <1>2, <1>3, <1>4, <1>5, <1>6, <1>7, <1>8, <1>9 DEF Next, Telemetry

\* The client's attributes keep their types whatever the broker delivers.
THEOREM TypeCorrect == Spec => []TypeOK
<1>1. IInv => TypeOK
  BY DEF IInv
<1> QED BY InitIInv, NextIInv, <1>1, PTL DEF Spec

\* For every fleet size, expiry time, history limit and delay bound: no replay,
\* retained copy, reconnect, reboot, merge or legacy topic makes a reading
\* younger than its physical evidence.
THEOREM EvidenceStaysReal == Spec => []EvidenceIsReal
<1>1. IInv => EvidenceIsReal
  BY DEF IInv, AgesHonest, EvidenceIsReal
<1> QED BY InitIInv, NextIInv, <1>1, PTL DEF Spec

\* For any number of boots, heard in any order, and any history bound:
\* _process_telemetry applies no frame twice and returns to no session it left.
THEOREM SessionOrder == Spec => SessionsNeverReturn
BY InitIInv, NextIInv, PTL DEF Spec, SessionsNeverReturn
=============================================================================
