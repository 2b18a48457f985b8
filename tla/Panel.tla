--------------------------------- MODULE Panel ---------------------------------
(***************************************************************************)
(* What the GUI and the rest of Venus OS read: get_aggregate_data          *)
(* (mqtt_client.py) flattening the packs of a chain, and the D-Bus paths   *)
(* DbusAggregateService (dbus-mqtt-battery.py) keeps for cells,            *)
(* temperatures, modules and alarms.                                       *)
(*                                                                         *)
(* D-Bus paths keep their value until they are written again, so what is   *)
(* shown is a matter of every earlier update.  One update is one step of   *)
(* the main thread; it may be cut short by an exception or the breaker's   *)
(* timeout after any group of paths, and then publishes the unavailable    *)
(* state over whatever was written.  Voltages and temperatures are small   *)
(* integers.                                                               *)
(***************************************************************************)
EXTENDS Startup, FiniteSetsExt

CONSTANTS
    Snapshots,        \* the readings that packs may send
    MaxReading,       \* bound: the largest voltage or temperature
    Thresholds,       \* alarm thresholds by their source
    None,             \* an invalid D-Bus value
    MaxFaults         \* bound: updates that end in an exception

Level == {"lowSoc", "lowSocCritical", "lowCell", "lowCellCritical", "highCell",
          "highCellCritical", "imbalance", "imbalanceCritical", "highTemp",
          "highTempCritical", "lowTemp", "lowTempCritical"}

\* Readings are those that aggregation accepts: cells above 0 and temperatures
\* above -40, at least one of each, with indices from one.  Nothing is said of
\* the order of thresholds.
ASSUME PanelAssumption ==
    /\ None \notin Arguments /\ None \notin Int
    /\ MaxReading \in Nat /\ MaxFaults \in Nat
    /\ \A d \in Snapshots :
         /\ \A p \in DOMAIN d.cell :
              /\ DOMAIN d.cell[p] # {} /\ DOMAIN d.cell[p] \subseteq Nat \ {0}
              /\ \A i \in DOMAIN d.cell[p] : d.cell[p][i] \in 1..MaxReading
         /\ \A p \in DOMAIN d.temp :
              /\ DOMAIN d.temp[p] # {} /\ DOMAIN d.temp[p] \subseteq Nat \ {0}
              /\ \A i \in DOMAIN d.temp[p] : d.temp[p][i] \in (-39)..MaxReading
    /\ "default" \in DOMAIN Thresholds
    /\ \A s \in Sources : "alarms" \in DOMAIN s => s["alarms"] \in DOMAIN Thresholds
    /\ \A c \in Chains : c.profile # "none" => c.profile \in DOMAIN Thresholds
    /\ \A s \in DOMAIN Thresholds : \A k \in Level : Thresholds[s][k] \in Int

VARIABLES
    whole,       \* every configured pack has complete, fresh evidence
    paths,       \* the D-Bus values
    hasReady,    \* self._has_ready_data
    shown,       \* history: the snapshot on display, while connected
    faults       \* history: updates that failed so far

panel == <<paths, hasReady, shown, faults>>
vars == <<startup, whole, panel>>

-----------------------------------------------------------------------------
(***************************************************************************)
(* The inventory, as MqttBatteryClient and ChainTopology compute it.       *)
(***************************************************************************)
Explicit == topology # NoChain
Inv == config.inventory
Packs == 1..Inv.count
First == IF Inv.first < 1 THEN 1 ELSE Inv.first

CellCount == [p \in Packs |-> IF Explicit THEN topology.members[p].cells ELSE Inv.cells]
TempCount == [p \in Packs |-> IF Explicit THEN topology.members[p].temps ELSE Inv.temps]

\* _offsets: how many come before each pack.
Offsets(count) ==
    LET before[p \in Packs] == IF p = 1 THEN 0 ELSE before[p - 1] + count[p - 1]
    IN before

TotalCells ==
    IF Explicit THEN Offsets(CellCount)[Inv.count] + CellCount[Inv.count]
    ELSE Inv.count * Inv.cells

\* _append_cell_voltages; cell_offsets of a topology.
CellOffset ==
    IF Explicit THEN Offsets(CellCount)
    ELSE [p \in Packs |-> (First - 1) * Inv.cells + (p - 1) * Inv.cells]

\* temp_offsets of a topology, or the configured stride.
TempOffset ==
    IF Explicit THEN Offsets(TempCount) ELSE [p \in Packs |-> (p - 1) * Inv.temps]

-----------------------------------------------------------------------------
(***************************************************************************)
(* Aggregation of a snapshot d.  d.cell[p] and d.temp[p] map the sensor    *)
(* indices pack p reported to readings, d.volt[p] and d.soc[p] are its own *)
(* totals, d.total the producer's fresh *_total values, d.blocking the     *)
(* packs that refuse to discharge.                                         *)
(***************************************************************************)
\* missing_fields finds nothing missing in any pack.  Only per-topic telemetry
\* may have further cells and totals; a topology fixes the temperatures too.
Complete(d) ==
    /\ Packs # {} /\ DOMAIN d.cell = Packs /\ DOMAIN d.temp = Packs
    /\ \A p \in Packs : 1..CellCount[p] \subseteq DOMAIN d.cell[p]
    /\ config.mode = "atomic" =>
         /\ \A p \in Packs : DOMAIN d.cell[p] = 1..CellCount[p]
         /\ DOMAIN d.total = {}
    /\ Explicit => \A p \in Packs : DOMAIN d.temp[p] = 1..TempCount[p]

Readable == {d \in Snapshots : Complete(d)}

AllCells(d) ==
    UNION {{[id |-> CellOffset[p] + i, pack |-> p, value |-> d.cell[p][i]] :
               i \in DOMAIN d.cell[p]} : p \in Packs}

\* Mutant: sensors beyond the configured stride keep their computed ids.
NumberedTempsColliding(d) ==
    UNION {{[id |-> TempOffset[p] + i, value |-> d.temp[p][i]] :
               i \in DOMAIN d.temp[p]} : p \in Packs}

\* _collect_cells_and_temps: one sensor beyond the stride withholds every id.
NumberedTemps(d) ==
    IF \E p \in Packs : \E i \in DOMAIN d.temp[p] : i > TempCount[p] THEN {}
    ELSE UNION {{[id |-> TempOffset[p] + i, value |-> d.temp[p][i]] :
                    i \in DOMAIN d.temp[p]} : p \in Packs}

AllTemps(d) == UNION {{d.temp[p][i] : i \in DOMAIN d.temp[p]} : p \in Packs}

\* _cell_extremes and _temp_extremes; of equal values the code takes the one
\* that was received first, and here it may be any.
Lowest(entries) == CHOOSE e \in entries : \A f \in entries : e.value <= f.value
Highest(entries) == CHOOSE e \in entries : \A f \in entries : e.value >= f.value

TempExtremes(d) ==
    LET numbered == NumberedTemps(d)
        low == Lowest(numbered)
        high == Highest(numbered)
    IN IF numbered # {}
       THEN [minT |-> low.value, minTId |-> low.id, maxT |-> high.value, maxTId |-> high.id]
       ELSE [minT |-> Min(AllTemps(d)), minTId |-> None,
             maxT |-> Max(AllTemps(d)), maxTId |-> None]

\* _compute_electrical_totals: a fresh total of the producer is preferred to
\* the packs' own values, but for a topology and for impossible totals.
Volt(d) ==
    IF ~Explicit /\ "voltage" \in DOMAIN d.total /\ d.total["voltage"] > 0
    THEN d.total["voltage"] ELSE MapThenSumSet(LAMBDA p : d.volt[p], Packs)
Soc(d) ==
    IF ~Explicit /\ "soc" \in DOMAIN d.total /\ d.total["soc"] >= 0
    THEN d.total["soc"] ELSE Min({d.soc[p] : p \in Packs})

-----------------------------------------------------------------------------
(***************************************************************************)
(* Publication, one operator per group of paths in the order of writing.   *)
(***************************************************************************)
Severity(warning, critical) == IF critical THEN 2 ELSE IF warning THEN 1 ELSE 0

\* A profile has a critical imbalance of its own.
ImbalanceCritical ==
    LET t == Thresholds[config.alarms]
    IN IF Explicit THEN t.imbalanceCritical ELSE 2 * t.imbalance

\* _update_alarms and the functions it calls.
AlarmsOf(d) ==
    LET t == Thresholds[config.alarms]
        values == {e.value : e \in AllCells(d)}
        low == Min(values)
        high == Max(values)
        e == TempExtremes(d)
        v == Thresholds[IF Explicit THEN topology.profile ELSE "default"]
        volt == Volt(d)
        soc == Soc(d)
    IN [lowSoc |-> Severity(soc <= t.lowSoc, soc <= t.lowSocCritical),
        lowVolt |-> Severity(volt <= TotalCells * v.lowCell,
                             volt <= TotalCells * v.lowCellCritical),
        lowCell |-> Severity(low <= t.lowCell, low <= t.lowCellCritical),
        highVolt |-> Severity(volt >= TotalCells * v.highCell,
                              volt >= TotalCells * v.highCellCritical),
        highCell |-> Severity(high >= t.highCell, high >= t.highCellCritical),
        imbalance |-> Severity(high - low >= t.imbalance, high - low >= ImbalanceCritical),
        highTemp |-> Severity(e.maxT >= t.highTemp, e.maxT >= t.highTempCritical),
        lowTemp |-> Severity(e.minT <= t.lowTemp, e.minT <= t.lowTempCritical)]

NoAlarms == [lowSoc |-> 0, lowVolt |-> 0, lowCell |-> 0, highVolt |-> 0, highCell |-> 0,
             imbalance |-> 0, highTemp |-> 0, lowTemp |-> 0]

\* /Connected, /Alarms/CommunicationError and /System/StaleData.
ShowAvailable(s, d) == [s EXCEPT !.connected = TRUE, !.comm = 0]

\* Of several cells with one number the pack that comes later is written last.
LastAt(cells, id) ==
    {e \in cells : e.id = id /\ \A f \in cells : f.id = id => f.pack <= e.pack}

\* Mutant: a cell at its lower alarm threshold is not written to its path.
ShowCellsSkippingLow(s, d) ==
    LET cells == {e \in AllCells(d) : e.value > Thresholds["default"].lowCell}
        low == Lowest(AllCells(d))
        high == Highest(AllCells(d))
    IN [s EXCEPT !.cell = [i \in DOMAIN s.cell |->
                     IF LastAt(cells, i + 1) = {} THEN s.cell[i]
                     ELSE (CHOOSE e \in LastAt(cells, i + 1) : TRUE).value],
                 !.minV = low.value, !.minVId = low.id,
                 !.maxV = high.value, !.maxVId = high.id]

\* _update_cell_voltages: a path that no cell numbers keeps its value.
ShowCells(s, d) ==
    LET cells == AllCells(d)
        low == Lowest(AllCells(d))
        high == Highest(AllCells(d))
    IN [s EXCEPT !.cell = [i \in DOMAIN s.cell |->
                     IF LastAt(cells, i + 1) = {} THEN s.cell[i]
                     ELSE (CHOOSE e \in LastAt(cells, i + 1) : TRUE).value],
                 !.minV = low.value, !.minVId = low.id,
                 !.maxV = high.value, !.maxVId = high.id]

\* _update_temperature_paths: ids are None when they were withheld.
ShowTemps(s, d) ==
    LET e == TempExtremes(d) IN
    [s EXCEPT !.minT = e.minT, !.minTId = e.minTId, !.maxT = e.maxT, !.maxTId = e.maxTId]

\* Mutant: an alarm once raised is never lowered.
ShowAlarmsLatched(s, d) ==
    [s EXCEPT !.alarm = [a \in DOMAIN @ |-> Max({@[a], AlarmsOf(d)[a]})],
              !.internal = Severity(d.blocking # {}, FALSE)]

\* _update_alarms: no module is offline in a complete snapshot.
ShowAlarms(s, d) ==
    [s EXCEPT !.alarm = AlarmsOf(d), !.internal = Severity(d.blocking # {}, FALSE)]

\* The paths after the first n groups of _publish_snapshot.  The module counts,
\* which it writes before the alarms, are left out.
Written(n, s, d) ==
    LET s1 == ShowAvailable(s, d)
        s2 == ShowCells(s1, d)
        s3 == ShowTemps(s2, d)
    IN CASE n = 0 -> s [] n = 1 -> s1 [] n = 2 -> s2 [] n = 3 -> s3
         [] n = 4 -> ShowAlarms(s3, d)

\* _set_unavailable: cells and extremes go, but not the temperatures, the ids
\* of the extreme cells or the alarms of the last readings.
Unavailable(s, ready) ==
    [s EXCEPT !.connected = FALSE,
              !.comm = IF ready THEN 2 ELSE 1,
              !.internal = IF ready THEN 2 ELSE 0,
              !.cell = [i \in DOMAIN s.cell |-> None],
              !.minV = None, !.maxV = None]

-----------------------------------------------------------------------------
\* _setup_paths, before the first update() registers the service.
NoPaths ==
    [connected |-> FALSE, comm |-> 0, internal |-> 0, alarm |-> NoAlarms,
     cell |-> [i \in 0..(TotalCells - 1) |-> None],
     minV |-> None, minVId |-> None, maxV |-> None, maxVId |-> None,
     minT |-> None, minTId |-> None, maxT |-> None, maxTId |-> None]

PanelInit ==
    /\ Init
    /\ whole = FALSE
    /\ paths = None /\ hasReady = FALSE /\ shown = None /\ faults = 0

Start == Boot /\ UNCHANGED <<whole, panel>>

\* The service creates its paths; nothing reads args or disk again.
SetupPaths ==
    /\ phase = "constructing" /\ paths = None
    /\ paths' = NoPaths
    /\ args' = None /\ disk' = None
    /\ UNCHANGED <<phase, config, topology, whole, hasReady, shown, faults>>

\* An update, the first of which ends the construction.
Constructed ==
    /\ phase \in {"constructing", "serving"} /\ paths # None
    /\ phase' = "serving"
    /\ UNCHANGED <<args, disk, config, topology>>

\* update() with a complete snapshot.
Update ==
    /\ Constructed /\ whole
    /\ hasReady' = TRUE
    /\ UNCHANGED <<whole, faults>>
    /\ shown' \in Readable
    /\ paths' = Written(4, paths, shown')

\* Mutant: without a complete chain there is nothing to publish.
UpdateUnavailableSilent ==
    /\ Constructed /\ ~whole
    /\ UNCHANGED <<whole, paths, hasReady, shown, faults>>

\* update() while a pack is missing, expired or offline.
UpdateUnavailable ==
    /\ Constructed /\ ~whole
    /\ paths' = Unavailable(paths, hasReady)
    /\ shown' = None
    /\ UNCHANGED <<whole, hasReady, faults>>

\* update() raises after n groups of paths and everything becomes unavailable;
\* the first update is not caught, and ends the process.
UpdateFails ==
    /\ phase \in {"constructing", "serving"} /\ paths # None
    /\ whole /\ faults < MaxFaults
    /\ faults' = faults + 1
    /\ phase' = IF phase = "constructing" THEN "exited" ELSE "serving"
    /\ shown' = None
    /\ UNCHANGED <<args, disk, config, topology, whole>>
    /\ \E d \in Readable, n \in 0..4 :
         /\ hasReady' = (hasReady \/ n > 0)
         /\ paths' = Unavailable(Written(n, paths, d), hasReady')

\* The receiver gains or loses complete evidence of the chain.
Receive ==
    /\ phase \in {"constructing", "serving"} /\ paths # None
    /\ whole' = ~whole /\ (whole' => Readable # {})
    /\ UNCHANGED <<startup, panel>>

Poll == Update \/ UpdateUnavailable \/ UpdateFails

Next == Start \/ SetupPaths \/ Poll \/ Receive

\* The main loop keeps calling update().
Spec == PanelInit /\ [][Next]_vars /\ WF_vars(Poll)

-----------------------------------------------------------------------------
(***************************************************************************)
(* Properties.                                                             *)
(***************************************************************************)
Shown == phase = "serving" /\ paths.connected

Configured(count) == UNION {{<<p, i>> : i \in 1..count[p]} : p \in Packs}

\* The place of a configured sensor when those of the chain are counted from
\* its first pack to its last.
Place(count, p, i) ==
    Cardinality({c \in Configured(count) : c[1] < p \/ (c[1] = p /\ c[2] <= i)})

\* No pack of a legacy chain reports more cells than configured.
AsConfigured(d) == \A p \in Packs : DOMAIN d.cell[p] = 1..CellCount[p]

\* While the chain is shown as connected, every /Cell/i/Voltage is the reading
\* that the cell at that place of the chain has in the latest snapshot - never
\* one of an earlier snapshot, of another pack or of an update that was cut
\* short - and the ids of the extremes name cells with those voltages.  Chains
\* whose numbering starts above one have no such paths and are left out.
CellPathsNamed ==
    Shown /\ (Explicit \/ First = 1) =>
        /\ \A c \in Configured(CellCount) :
               paths.cell[Place(CellCount, c[1], c[2]) - 1] = shown.cell[c[1]][c[2]]
        /\ AsConfigured(shown) =>
               /\ paths.cell[paths.minVId - 1] = paths.minV
               /\ paths.cell[paths.maxVId - 1] = paths.maxV
               /\ \A i \in DOMAIN paths.cell : paths.cell[i] \in paths.minV..paths.maxV

\* README.md: an undersized stride withholds temperature ids, never renumbers.
\* A published id names exactly one configured sensor, which has the extreme
\* temperature, while the extremes themselves always cover every sensor.
TemperatureIdsUnambiguous ==
    Shown =>
        /\ \A p \in Packs : \A i \in DOMAIN shown.temp[p] :
               shown.temp[p][i] \in paths.minT..paths.maxT
        /\ \A x \in {<<paths.minTId, paths.minT>>, <<paths.maxTId, paths.maxT>>} :
               x[1] # None =>
                   \E c \in Configured(TempCount) :
                       /\ Place(TempCount, c[1], c[2]) = x[1]
                       /\ c[2] \in DOMAIN shown.temp[c[1]] /\ shown.temp[c[1]][c[2]] = x[2]
                       /\ \A p \in Packs : \A i \in DOMAIN shown.temp[p] : i <= TempCount[p]

\* While connected the alarms are those of the readings on display, by the
\* thresholds of the profile in force: no alarm outlives a recovery, none is
\* lost because an earlier update failed halfway, and a sensor that has no id
\* still raises its alarm.  Nothing orders a warning threshold before its
\* critical one, and either of them raises the alarm.
AlarmsFollowReadings ==
    Shown =>
        LET t == Thresholds[IF Explicit THEN topology.profile ELSE config.alarms]
            gap == IF Explicit THEN t.imbalanceCritical ELSE 2 * t.imbalance
            cells == UNION {{shown.cell[p][i] : i \in DOMAIN shown.cell[p]} : p \in Packs}
            temps == UNION {{shown.temp[p][i] : i \in DOMAIN shown.temp[p]} : p \in Packs}
            low(readings, x) == \E v \in readings : v <= x
            high(readings, x) == \E v \in readings : v >= x
            apart(x) == \E v, w \in cells : v - w >= x
            raised(alarm, warning, critical) ==
                /\ (alarm = 2) <=> critical
                /\ (alarm = 1) <=> warning /\ ~critical
                /\ (alarm = 0) <=> ~warning /\ ~critical
        IN /\ raised(paths.alarm.lowCell, low(cells, t.lowCell), low(cells, t.lowCellCritical))
           /\ raised(paths.alarm.highCell, high(cells, t.highCell), high(cells, t.highCellCritical))
           /\ raised(paths.alarm.imbalance, apart(t.imbalance), apart(gap))
           /\ raised(paths.alarm.lowTemp, low(temps, t.lowTemp), low(temps, t.lowTempCritical))
           /\ raised(paths.alarm.highTemp, high(temps, t.highTemp), high(temps, t.highTempCritical))
           /\ (paths.internal = 0) <=> shown.blocking = {}
           /\ paths.comm = 0

\* A chain whose evidence stays complete is in the end shown as connected for
\* good, and one whose evidence stays incomplete as disconnected, however many
\* updates failed before.
SettlesOnEvidence ==
    /\ <>[](phase = "serving" /\ whole) => <>[]Shown
    /\ <>[](phase = "serving" /\ ~whole) => <>[](~Shown)
=============================================================================
