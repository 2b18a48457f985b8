------------------------------ MODULE MqttClient ------------------------------
(***************************************************************************)
(* MqttBatteryClient (dbus_mqtt_battery/mqtt_client.py): what the MQTT     *)
(* thread does to the shared readings.  Every handler runs under           *)
(* _data_lock, so a handler is one action.                                 *)
(*                                                                         *)
(* The environment (producer, broker, network) delivers telemetry frames   *)
(* late, twice, out of order or not at all; it announces "offline";        *)
(* replays retained messages after a subscription; drops the connection.   *)
(* Boot ids are opaque names, and boots are heard in any order.            *)
(***************************************************************************)
EXTENDS BatteryData, FiniteSets

CONSTANTS
    Slot,         \* configured BMS slots, 1..battery_count in the code
    Rows,         \* the rows a producer may send
    Deployments,  \* the configurations: [topology, source] of the constructor
    Total,        \* names of the legacy *_total topics
    MaxRetired,   \* MAX_RETIRED_BOOT_IDS
    Boot,         \* bound: the boot ids producers use
    NoBoot,       \* None
    MaxSeq,       \* bound: highest sequence number of one boot
    MaxDelay      \* bound: transit time of a message that is no replay

ASSUME ClientAssumption ==
    /\ Slot # {} /\ Rows \subseteq Row
    /\ Deployments \subseteq [topology : BOOLEAN, source : {"atomic", "legacy"}]
    /\ IsFiniteSet(Boot) /\ NoBoot \notin Boot
    /\ MaxRetired \in Nat /\ MaxSeq \in Nat /\ MaxDelay \in Nat

VARIABLES
    topology,     \* self.topology is set: complete schema-2 frames only
    batteries,    \* self.batteries
    source,       \* self.telemetry_source
    bootId,       \* self._boot_id
    sequence,     \* self._sequence
    hasFull,      \* self._has_full_snapshot
    bootReady,    \* self._boot_ready
    partial,      \* self.telemetry_partial
    retired,      \* self._retired_boot_ids
    totals,       \* self._total_updated, as ages
    connected,    \* self.connected
    physical,     \* history: true age of the evidence behind each key
    newest,       \* history: <<boot, seq>> of the last frame that was news
    heard         \* history: the boots such frames came from

session == <<bootId, sequence, retired>>
vars == <<topology, batteries, source, session, hasFull, bootReady, partial, totals,
          connected, physical, newest, heard>>

Late == Stale + MaxDelay      \* "arbitrarily old": beyond every bound below
TrueAge(a) == IF a < Late THEN a ELSE Late

Frame == [boot : Boot, seq : 0..MaxSeq, ready : BOOLEAN,
          rows : UNION {[S -> Rows] : S \in SUBSET Slot}]

NoBatteries == [s \in Slot |-> EmptyBattery]
NoTotals == [t \in Total |-> Absent]
NoEvidence == [s \in Slot |-> [k \in Keys |-> Absent]]

-----------------------------------------------------------------------------
Init ==
    /\ \E d \in Deployments : topology = d.topology /\ source = d.source
    /\ batteries = NoBatteries
    /\ bootId = NoBoot /\ sequence = -1 /\ retired = {}
    /\ hasFull = FALSE /\ bootReady = FALSE /\ partial = FALSE
    /\ totals = NoTotals
    /\ connected = FALSE
    /\ physical = NoEvidence
    /\ newest = <<NoBoot, -1>> /\ heard = {}

\* _invalidate_samples: session history survives, everything else is dropped.
Invalidate ==
    /\ hasFull' = FALSE /\ bootReady' = FALSE /\ partial' = FALSE
    /\ batteries' = NoBatteries
    /\ totals' = NoTotals
    /\ physical' = NoEvidence

\* Keep the readings and their deadlines, but stop renewing them.
Hold ==
    /\ bootReady' = FALSE
    /\ partial' = TRUE
    /\ UNCHANGED <<batteries, totals, hasFull, physical>>

OnConnect ==
    /\ ~connected
    /\ connected' = TRUE
    /\ UNCHANGED <<batteries, source, session, hasFull, bootReady, partial,
                   totals, physical, newest, heard>>

\* Mutant: readings are held across a disconnect in every mode.
OnDisconnectAlwaysHolds ==
    /\ connected' = FALSE
    /\ Hold
    /\ UNCHANGED <<source, session, newest, heard>>

\* Also called for a connection that was refused, so at any time.
OnDisconnect ==
    /\ connected' = FALSE
    /\ IF ~topology /\ source = "atomic" /\ hasFull THEN Hold ELSE Invalidate
    /\ UNCHANGED <<source, session, newest, heard>>

\* "<prefix>/status" = "offline": transport evidence, not a BMS permission.
ProducerOffline ==
    /\ connected
    /\ source = "atomic"
    /\ \/ topology /\ Invalidate
       \/ ~topology /\ hasFull /\ Hold
       \/ /\ ~topology /\ ~hasFull
          /\ bootReady' = FALSE
          /\ UNCHANGED <<batteries, totals, hasFull, partial, physical>>
    /\ UNCHANGED <<source, session, connected, newest, heard>>

-----------------------------------------------------------------------------
(***************************************************************************)
(* _process_telemetry.                                                     *)
(***************************************************************************)

\* Mutant: the last frame is accepted again when it is delivered twice.
ReplayedOffByOne(f) == f.boot \in retired \/ (f.boot = bootId /\ f.seq < sequence)

\* Frames that change nothing: a retired boot, or not newer than the last one.
Replayed(f) == f.boot \in retired \/ (f.boot = bootId /\ f.seq <= sequence)

\* Mutant: the first boot ever heard counts as a change of session.
NewSessionFromNone(f) == bootId # f.boot

NewSession(f) == bootId # NoBoot /\ bootId # f.boot

\* Mutant: one boot too many is admitted to the history.
SessionRefusedOffByOne(f) == NewSession(f) /\ Cardinality(retired) > MaxRetired

\* Replay protection is never evicted to admit another boot.
SessionRefused(f) == NewSession(f) /\ Cardinality(retired) >= MaxRetired

\* decode_batteries (schema 1 and 2): every configured BMS, every row complete.
CompleteFrame(f) ==
    /\ DOMAIN f.rows = Slot
    /\ \A s \in Slot : IF topology THEN CompleteTopologyRow(f.rows[s])
                       ELSE CompleteRow(f.rows[s])

\* merge_partial succeeds: every configured BMS has a consistent row.
PartialFrame(f) ==
    DOMAIN f.rows = Slot /\ \A s \in Slot : PartialRow(f.rows[s])

\* Mutant: the session that is left is not remembered.
TakeSessionForgets(f) == bootId' = f.boot /\ sequence' = f.seq /\ UNCHANGED retired

\* The boot and sequence are taken before the body is decoded.
TakeSession(f) ==
    /\ bootId' = f.boot /\ sequence' = f.seq
    /\ retired' = IF NewSession(f) THEN retired \cup {bootId} ELSE retired

\* Mutant: a reboot does not end the refreshing session.
RefreshingAfterReboot(f) == bootReady

\* Only a partial of the session that sent the last complete frame refreshes.
Refreshing(f) == bootReady /\ ~NewSession(f)

AdoptComplete(f, delay) ==
    /\ f.ready /\ CompleteFrame(f)
    /\ batteries' = [s \in Slot |-> DecodedRow(f.rows[s])]
    /\ hasFull' = TRUE /\ bootReady' = TRUE /\ partial' = FALSE
    /\ totals' = NoTotals
    /\ physical' = [s \in Slot |-> [k \in Keys |->
           IF k \in f.rows[s].seen THEN TrueAge(f.rows[s].age + delay) ELSE Absent]]

MergePartial(f, delay) ==
    /\ ~f.ready /\ ~topology /\ hasFull /\ PartialFrame(f)
    /\ batteries' = [s \in Slot |->
           MergedRow(batteries[s], f.rows[s], Refreshing(f))]
    /\ hasFull' = hasFull /\ partial' = TRUE
    /\ bootReady' = Refreshing(f)
    /\ totals' = NoTotals
    /\ physical' = [s \in Slot |-> [k \in Keys |->
           IF k \in f.rows[s].seen /\ (k # "mos" \/ Refreshing(f))
           THEN TrueAge(f.rows[s].age + delay) ELSE physical[s][k]]]

RejectFrame(f) ==
    /\ IF f.ready THEN ~CompleteFrame(f)
       ELSE topology \/ ~hasFull \/ ~PartialFrame(f)
    /\ Invalidate

RefuseSession ==
    IF topology THEN Invalidate
    ELSE /\ partial' = TRUE
         /\ UNCHANGED <<batteries, totals, hasFull, bootReady, physical>>

ProcessTelemetry(f, delay) ==
    /\ source' = "atomic"
    /\ \/ /\ Replayed(f)
          /\ UNCHANGED <<batteries, session, hasFull, bootReady, partial,
                         totals, physical>>
       \/ /\ ~Replayed(f) /\ SessionRefused(f)
          /\ RefuseSession
          /\ UNCHANGED session
       \/ /\ ~Replayed(f) /\ ~SessionRefused(f)
          /\ TakeSession(f)
          /\ AdoptComplete(f, delay) \/ MergePartial(f, delay) \/ RejectFrame(f)

\* _on_message: a retained message predates the subscription.
IgnoreMessage(retain) == retain

\* News: a boot never heard, or a later frame of the boot heard last.
Newer(f) == \/ f.boot \notin heard
            \/ f.boot = newest[1] /\ f.seq > newest[2]

\* A frame that is news, at most MaxDelay in transit.  It may be the overtaken
\* first frame of an older boot: nothing in it tells.  A boot that is refused
\* leaves the current session the one whose order counts.
DeliverFrame(f, delay) ==
    /\ connected /\ Newer(f)
    /\ ProcessTelemetry(f, delay)
    /\ IF SessionRefused(f) THEN UNCHANGED <<newest, heard>>
       ELSE newest' = <<f.boot, f.seq>> /\ heard' = heard \cup {f.boot}
    /\ UNCHANGED connected

\* Any other frame: a duplicate, an overtaken one, or one of a boot that another
\* has followed, however late.
DeliverLate(f) ==
    /\ connected /\ ~Newer(f)
    /\ ProcessTelemetry(f, Late)
    /\ UNCHANGED <<connected, newest, heard>>

\* A retained frame, sent again by the broker after a subscription.
DeliverRetained(f) ==
    /\ connected
    /\ IF IgnoreMessage(TRUE) THEN UNCHANGED vars
       ELSE ProcessTelemetry(f, Late) /\ UNCHANGED <<connected, newest, heard>>

\* A payload whose header or encoding cannot be read.
DeliverUnreadable ==
    /\ connected
    /\ source' = "atomic"
    /\ Invalidate
    /\ UNCHANGED <<session, connected, newest, heard>>

-----------------------------------------------------------------------------
(***************************************************************************)
(* _process_legacy_topic: one value per message, ignored in atomic mode.   *)
(***************************************************************************)
LegacyReady == connected /\ source = "legacy"

LegacyReading(s, k, v, delay) ==
    /\ LegacyReady
    /\ batteries' = [batteries EXCEPT ![s] = UpdateReading(@, k, v)]
    /\ physical' = IF v = "nan" THEN physical
                   ELSE [physical EXCEPT ![s][k] = delay]
    /\ UNCHANGED totals

LegacyPermission(s, p, v) ==
    /\ LegacyReady
    /\ batteries' = [batteries EXCEPT ![s] = UpdatePermission(@, p, v)]
    /\ UNCHANGED <<physical, totals>>

LegacyOnline(s, v) ==
    /\ LegacyReady
    /\ batteries' = [batteries EXCEPT ![s] = UpdateOnline(@, v)]
    /\ UNCHANGED <<physical, totals>>

\* _update_total: junk payloads leave the previous total and its age.
LegacyTotal(t) ==
    /\ LegacyReady
    /\ totals' = [totals EXCEPT ![t] = 0]
    /\ UNCHANGED <<physical, batteries>>

DeliverLegacy ==
    /\ \/ \E s \in Slot, k \in Readings, v \in {"good", "bad", "nan"},
             d \in 0..MaxDelay : LegacyReading(s, k, v, d)
       \/ \E s \in Slot, p \in Perm, v \in Tri : LegacyPermission(s, p, v)
       \/ \E s \in Slot, v \in Tri : LegacyOnline(s, v)
       \/ \E t \in Total : LegacyTotal(t)
    /\ UNCHANGED <<source, session, hasFull, bootReady, partial, connected, newest, heard>>

\* get_aggregate_data found the totals of an earlier snapshot not computable:
\* it takes the lock again and drops whatever samples are there by now.
DropAggregate ==
    /\ topology /\ heard # {}
    /\ Invalidate
    /\ UNCHANGED <<source, session, connected, newest, heard>>

-----------------------------------------------------------------------------
\* One unit of time: every age grows; the true age is not capped at Stale.
Tick ==
    /\ batteries' = [s \in Slot |-> Aged(batteries[s])]
    /\ totals' = [t \in Total |-> Older(totals[t])]
    /\ physical' = [s \in Slot |-> [k \in Keys |->
           IF physical[s][k] = Absent THEN Absent ELSE TrueAge(physical[s][k] + 1)]]
    /\ UNCHANGED <<source, session, hasFull, bootReady, partial, connected, newest, heard>>

Telemetry == \E f \in Frame : \/ \E d \in 0..MaxDelay : DeliverFrame(f, d)
                              \/ DeliverLate(f)
                              \/ DeliverRetained(f)

Next ==
    /\ \/ OnConnect \/ OnDisconnect \/ ProducerOffline
       \/ Telemetry \/ DeliverUnreadable \/ DeliverLegacy
       \/ DropAggregate \/ Tick
    /\ UNCHANGED topology

Spec == Init /\ [][Next]_vars

-----------------------------------------------------------------------------
(***************************************************************************)
(* Properties.                                                             *)
(***************************************************************************)

\* Every variable stays in the set its attribute of MqttBatteryClient ranges over.
TypeOK ==
    /\ topology \in BOOLEAN
    /\ batteries \in [Slot -> Battery]
    /\ source \in {"atomic", "legacy"}
    /\ bootId \in Boot \cup {NoBoot}
    /\ sequence \in -1..MaxSeq
    /\ retired \in SUBSET Boot
    /\ hasFull \in BOOLEAN /\ bootReady \in BOOLEAN /\ partial \in BOOLEAN
    /\ totals \in [Total -> Age]
    /\ connected \in BOOLEAN
    /\ physical \in [Slot -> [Keys -> Absent..Late]]
    /\ heard \in SUBSET Boot
    /\ newest \in (Boot \cup {NoBoot}) \X (-1..MaxSeq)

\* No reading is ever believed to be younger than it physically is, but for
\* the transit time of the frame that brought it (at most MaxDelay when the
\* frame is news, unbounded otherwise): neither a replay, a retained copy, a
\* reconnect, a reboot nor a merge rejuvenates a sample time.
EvidenceIsReal ==
    \A s \in Slot, k \in Keys : physical[s][k] <= batteries[s].age[k] + MaxDelay

\* Atomic mode holds everything of a complete frame or nothing.  What one
\* established stays under every merge - all nine evidence bits sampled, online,
\* permissions known, core values in range - and is flagged as partial once its
\* session is not heard any more; without one there is no reading and no total,
\* and never a fallback to legacy values.
AllOrNothing ==
    source = "atomic" =>
        /\ totals = NoTotals
        /\ ~hasFull => batteries = NoBatteries
        /\ hasFull => /\ bootReady \/ partial
                      /\ \A s \in Slot :
                            /\ Masked \subseteq Sampled(batteries[s])
                            /\ batteries[s].online = "yes"
                            /\ \A p \in Perm : batteries[s].perm[p] # "unknown"
                            /\ Core \cap batteries[s].bad = {}

\* Legacy values, latched permissions included, never outlive the connection
\* that brought them: nothing is known while the broker is not connected.
LegacyNeedsConnection ==
    source = "legacy" /\ ~connected => batteries = NoBatteries /\ totals = NoTotals

\* The session being heard is never in the replay history (it could not be
\* heard again), and the history never exceeds its limit.
LiveSessionAdmitted ==
    bootId \notin retired /\ Cardinality(retired) <= MaxRetired

\* With an explicit topology no snapshot is ever merged, held or degraded:
\* all readings of a BMS are of one frame of the session being heard.
TopologyNeverMerges ==
    topology /\ hasFull =>
        /\ bootReady /\ ~partial
        /\ \A s \in Slot : \A j, k \in Sampled(batteries[s]) :
               batteries[s].age[j] = batteries[s].age[k]

Position == <<bootId, sequence>>
NeverReturns ==
    Position' # Position =>
        \/ bootId' = bootId /\ sequence' > sequence
        \/ bootId' \notin heard

\* Whatever order boots and frames are heard in, no frame is applied twice, a
\* session only goes on to a higher sequence number, and a session once left is
\* never returned to: another boot is taken up only if it was never heard.
SessionsNeverReturn == [][NeverReturns]_vars

\* Once the session that sent the last complete frame is gone, or a frame of
\* another boot arrives, no message short of a complete frame moves any BMS's
\* expiry later.
HeldNeverRenewed ==
    [][hasFull' /\ partial' /\ (~bootReady' \/ bootId' # bootId) => \A s \in Slot :
          OldestAge(batteries[s]) <= OldestAge(batteries[s])']_vars

\* In atomic mode a permission is granted only by accepting a complete frame;
\* partial frames, reconnects and reboots can only withdraw it.
OnlyCompleteGrants ==
    [][source' = "atomic" =>
          \A s \in Slot, p \in Perm :
              batteries'[s].perm[p] = "yes" /\ batteries[s].perm[p] # "yes" =>
                  Position' # Position /\ bootReady' /\ ~partial']_vars

\* The client implements the abstract Evidence specification.
Mode == CASE ~hasFull -> "none"
          [] hasFull /\ bootReady -> "live"
          [] hasFull /\ ~bootReady -> "held"
Life == [s \in Slot |-> IF hasFull THEN Stale - OldestAge(batteries[s]) ELSE 0]
Grant == [s \in Slot |-> IF hasFull THEN {p \in Perm : batteries[s].perm[p] = "yes"} ELSE {}]

Abstract == INSTANCE Evidence WITH mode <- Mode, life <- Life, grant <- Grant

\* Every step of the client is a step of Evidence: evidence appears only by a
\* complete frame, grows only within a live session and otherwise runs out.
ImplementsEvidence == Abstract!Spec
=============================================================================
