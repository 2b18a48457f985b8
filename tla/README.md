# TLA+ models of dbus-mqtt-battery

`dbus-mqtt-battery` reads the telemetry of one to four BMS modules in series from
MQTT, decides whether it is complete and fresh, computes how much charge and
discharge current the cells allow (DVCC), and publishes measurements, permissions
and limits on the D-Bus of a Victron GX device. Chargers and inverters obey what it
publishes, so its correctness is: *never permit on evidence that is missing, old,
replayed or half-read; withdraw in time; recover when the evidence is back.* A release
pipeline, larger than the program itself, decides which build reaches the devices.

Paths below are relative to the repository.

## 1. Inventory

| Part | State | Operations | Talks to |
|---|---|---|---|
| Receiver, `mqtt_client.py` | batteries, source (`atomic`/`legacy`), boot id, sequence, retired boots, partial flag, totals | paho callbacks `_on_connect`, `_on_disconnect`, `_on_message`; `get_aggregate_data` | broker (MQTT thread), publisher (main thread) under `_data_lock` |
| Battery data, `bms_data.py` | last value and sample time of each field, permissions | `update`, `missing_fields`, `oldest_sample_time` | receiver |
| Decoders, `telemetry.py`, `telemetry_v2.py` | none | `decode_batteries`, `merge_partial` | receiver |
| Publisher, `dbus-mqtt-battery.py` | published paths, `_has_ready_data`, `_previous_limits` | construction, `update` every 2 s | receiver, DVCC, D-Bus |
| Aggregation, `get_aggregate_data` | none | totals, extremes, cell and temperature ids | publisher |
| DVCC, `dvcc.py` | `last_ccl`, `last_update_time` | `calculate` | publisher |
| Poll loop, `dbus_utils.py` | breaker's failures and opening time, SIGALRM timer, main loop | `call`, `poll`, signal handlers | publisher, GLib |
| Configuration, `config.py`, `main` | none (command line, INI files and manifest are read once) | `load_config`, `validate_config` | all of the above |
| Topology manifest, `topology.py` | none (a validated immutable record) | `load_manifest`, selection of a chain | configuration, installer |
| Observer, `observe.py` | none | a bounded run that only reads | receiver |
| Installer, `topology_install.py` and `boot.sh` in `setup` | launchers, ownership registry, readiness markers, `/service` links, retired directories | preflight, apply, retire | file system, svscan, D-Bus |
| Release pipeline, `scripts/release_state.py`, `release_versioned.py`, `release_control.py` | ledger on a branch, tags, releases and drafts, workflow runs | reserve, build, supersede, reuse, publish, reconcile, promote | GitHub |
| GUI, overlay scripts, version plans, builders, CI checks | - | - | see "Not modelled" |

What is hard about it:

* **Delivery.** Frames are lost, duplicated, delayed, retained by the broker, or come
  from a producer that rebooted; boot ids can only be compared for equality.
* **Age.** A sample is as old as its physical measurement, not as its message. Partial
  frames refresh some fields of the session being heard and nothing afterwards.
* **Two threads.** Snapshots are copied under a lock and published later; an update may
  raise, hang, or be interrupted by SIGALRM at any point.
* **Paths that stay.** A D-Bus path keeps its value until it is written again: what is
  shown depends on every earlier update, also on those that were cut short.
* **Limits.** Ramp, veto, partial hold and rounding are applied one after another and
  feed back into the next ramp.
* **Sources of configuration.** Options, an explicit file, ambient files and a manifest
  are combined in one pass; the wrong one describes another battery.
* **Crashes.** An installation writes a dozen files that cannot be written together.
* **Releases.** Runs fail, are repeated, lose answers and race each other; releases are
  deleted by hand; a number must not be given twice and an old build must not come back.

`PROJECT.json` lists each hazard at its source line with the properties aimed at it.

## 2. Modules

| Module | Models | Role |
|---|---|---|
| `BatteryData` | `bms_data.py`, rows of `telemetry.py` and `telemetry_v2.py` | operators: freshness, decoding and merging of one BMS |
| `MqttClient` | `mqtt_client.py` up to the aggregate | the receiver as a state machine |
| `Evidence` | what the publisher needs to know of the receiver | abstract specification, implemented by `MqttClient` |
| `DbusService` | `DbusAggregateService`, `get_aggregate_data`, the ramp | composed with `Evidence` |
| `Dvcc` | `dvcc.py`, `_update_dvcc`, `_apply_partial_frame_limits` | curves and limits with numbers |
| `PollLoop` | `CircuitBreaker`, `poll`, `update`'s control flow, signals, `main` | the main thread |
| `Startup` | `config.py`, `topology.py`, `observe.py`, `main` | from the command line to a running service |
| `Panel` | aggregation and the paths for cells, temperatures and alarms | extends `Startup` with the service it starts |
| `TopologyInstall` | `topology_install.py`, `boot.sh` | the installer against crashes |
| `Release` | `release_state.py`, `release_versioned.py`, `release_control.py` | workflow runs against GitHub |
| `MCMqttClient`, `MCDbusService`, `MCDvcc`, `MCTopologyInstall`, `MCPanel`, `MCRelease` | - | constants for TLC |
| `MqttClientProofs`, `ReceiverProofs`, `PollLoopProofs`, `DbusServiceProofs`, `DvccProofs`, `TopologyInstallProofs`, `ReleaseProofs`, `PanelProofs` | - | theorems |

**BatteryData and MqttClient.** A field of a BMS is an age in `0..Late`, or `Absent`;
readings have no values, because the receiver only asks whether they are there and how
old they are. A permission is `yes`, `no` or `unknown`. `physical` is a history variable with the
true age of the measurement behind each stored sample. A message is a frame
`[boot, seq, ready, rows]` with a delay. A boot is a name without an order, as boot ids are:
the network may deliver any frame of any boot at any time, any number of times, also the
first frame of an older boot after the receiver has heard a newer one. One thing is
assumed: a frame that is news to the receiver was at most `MaxDelay` in transit.
`ProcessTelemetry` is the whole of `_process_telemetry`: replay check, history limit,
session change, then complete, partial or rejected. The legacy actions are the per-topic
messages of old firmware. `Deployments` are the modes to check, one of which a behaviour
starts in; with `topology` set it is schema 2, which has no partial frames. `DropAggregate` is
the error path of a topology aggregate: it invalidates the samples after releasing and
retaking the lock, so the samples it drops may be newer than those it complains about.

**Evidence.** Per BMS the time left before its oldest required sample expires, which
permissions it grants, and whether it is complete, held or absent. Steps: a complete frame
arrives, the live session renews, evidence is restricted, refused or dropped, time passes.
`MqttClient` maps to it in `ImplementsEvidence`.

**DbusService.** `Evidence` is instantiated for the receiver. A poll is two steps,
`TakeSnapshot` (under the lock) and `Publish` or `PublishFails`, so that the receiver and
the clock move in between. A pack that is alive may still be invalid (a value out of range),
which is the `\E valid`. Ceilings are inputs; `Dvcc` says what they are. `pub` also says
whether measurements and temperatures are on display.

**Dvcc.** Integer millivolts and milliamperes. Each of the code's
`max * (a + (1 - a) * factor)` segments is the straight line between its end points,
rounded down to a milliampere: order and end points are exact. `Update` is one poll with a
complete snapshot: ceilings, ramp, vetoes, rounding to 0.1 A, partial hold, and the
assignment of the published limit to `last_ccl`.

**PollLoop.** The program counter is where SIGALRM makes a difference: waiting for
`_data_lock`, computing, in the `except` clause, at the end of the D-Bus transaction, and
in the last lines of `call`. `openWall` is what the wall clock says of the time since the
breaker opened, `openTrue` what it really is. The clock may be set back or forward by up to a
cooldown each time; `ahead` is a history variable, how far it was set forward in all.

**Startup.** A source of settings is a function on the settings it names; overriding is
a union of functions. A value is reduced to what start-up decides from it: whether a broker
is local, the shape of the inventory, and for identity and thresholds only which source they came
from. What a field's syntax can get wrong is one value, `Malformed`; the checks across
fields, members and chains are all there. `main` ends in an exit, a validation, an
observation or the construction of the service.

**Panel.** Voltages and temperatures are small integers. One update is one step of the
main thread; it may be cut short after any group of paths (cells, temperatures,
alarms) and then publishes the unavailable state over whatever was written. `shown` is a
history variable: the snapshot on display. The first update runs inside the constructor,
where a failure ends the process. An update reads any snapshot of `Snapshots` that is complete
for the configured inventory (`Complete`, from `missing_fields`): per-topic telemetry may have
surplus cells and the producer's totals, an atomic frame has neither, and only a topology
fixes the number of temperatures. Readings are those aggregation accepts (cells above 0,
temperatures above -40).

**TopologyInstall.** Every file the installer writes is one cell of `disk`, holding the
manifest it was written for. An apply writes launchers, registry and markers in the code's
order, one step each. An identity is a service suffix and a device instance, and a manifest, a
foreign launcher and a battery on D-Bus conflict if they share either. A run first looks
at D-Bus and then, when processes may have come and gone, at the files. An I/O error starts the rollback, a kill ends the process anywhere, a
reboot also clears `/service` and runs `boot.sh`. svscan, the operator and the processes
are the environment.

**Release.** All state is GitHub's. An action is one request that changes it, with the
reads the code bases it on; `reserve_plan` is a read, the creation of a missing branch and the
write of the ledger, so two runs may both find no ledger. Failed checks, refused requests, cancelled jobs and killed
runners are all `Fail`, possible between any two requests; a failed run may be repeated. A
ledger write succeeds only if the ledger still is what was read (the blob id sent with the
request). The concurrency group of `.github/workflows/release-pipeline.yml:36-38` lets one run
be active at a time, `parallel = 1`; with `parallel = 2` the ledger has to protect the
numbers alone. A tag carries the numbers that follow the channel in its version; those of a
nightly are run and attempt. The environment
deletes releases, drafts releases for a tag in use and removes the ledger. `issued`,
`shipped`, `exposed` and `trouble` are history variables; `exposed` says that the ledger was
removed while a run that had found none was about to write its own.

## 3. Runs

The passing runs check deadlock, except `panel` (a process may have exited) and `release` (a
finite number of workflow runs come to an end).

| Run | Shows | Bounds |
|---|---|---|
| `client_bms` | one BMS, atomic and legacy: stored ages are never younger than the measurement, no frame is applied twice and no session that was left is returned to, the session being heard is never locked out, held evidence is never renewed, only complete frames grant, an inventory is accepted as a whole or not at all, nothing legacy survives a disconnect or an atomic message | 3 boots (symmetric), 1 sequence number, history of 1, expiry 2, delay 1, one total |
| `client_chain` | two BMS, fixed series and topology: the receiver implements `Evidence`; a topology holds only whole frames | 2 boots (symmetric), delay 0 |
| `service` | the loss of either of two BMS reaches D-Bus within three polling steps; limits agree with permissions; partial snapshots never relax; increases are ramped while connected; nothing is advertised before the first snapshot | limits 0..2, at most one time unit between two steps of a poll; the two BMS are symmetric |
| `poll_breaker` | alarms stay inside their call; failures withdraw; a probe is early by no more than the clock was set forward; first hang interrupted and breaker recovers (liveness) | timeout 2, threshold and cooldown 3; the wall clock is set twice, back or forward |
| `install` | what is linked is complete, what can start is owned, failed applies restore, an interrupted activation can be repeated unless the manifest was edited since its run began | 2 chains, 3 manifests, one of which shares a suffix or an instance with each of the others, with a foreign launcher and with a battery on D-Bus |
| `dvcc` | every pair of 45 readings on both sides of every threshold, under vetoes and partial frames: within each curve, monotone, protection immediate; the limit recovers (liveness) | default profile, polls of 2 s |
| `panel` | a manifest is authoritative or refused; `local_only` holds for the merged configuration; cell paths, temperature ids and alarms are those of the snapshot on display; availability follows the evidence (liveness) | 23 command lines, 4 file contents, 11 manifests; 2 or 3 packs of 1 to 3 cells; one failed update |
| `release` | no number or tag is issued twice (one exception below); publication only goes forward; what is public is whole, verified and its own run's; stable is the bytes of an accepted candidate | 3 commits; 3 runs one at a time with 3 faults, 2 at once with 2 faults, or 3 runs two at a time with none |

The bounds are the smallest that let each case happen: three boots are needed for an old
session to return after the history was filled; a replay of any frame is already a duplicate;
expiry 2 distinguishes *fresh*, *last moment* and *expired*; two chains for an apply that is
interrupted between chains and for an identity that moves from one to the other; a second
pack for an offset, a third cell for a pack that is longer than its neighbour; in `release`,
three runs are a candidate, its promotion and a competitor, and three faults are a failure, a
repetition and an interference.

**Disagreements between code and documentation.** Four have a `violation` run;
`findings` in `PROJECT.json` quote both sides:

* `service_ramp` - after STALE the charge limit jumps back to its former value instead of
  ramping from the published zero.
* `service_stale` - in STALE the temperature paths keep their readings
  (`_set_unavailable`, `dbus-mqtt-battery.py:475`), while `README.md:273` says that
  measurements are invalid.
* `poll_hang` - the alarm is one-shot; the `except` clause of `update` takes `_data_lock`
  again and can hang for good.
* `dvcc_slow` - a configured recovery rate below 0.05 A/s never raises the limit: each
  step is rounded down and the rounded value starts the next one.

Others are in the models as the code has them, without a run of their own:

* A delayed first frame of an older boot that was never heard is taken for a new session
  (`mqtt_client.py:312-332`): the live boot is retired and its later frames are refused as
  replays until the driver restarts. `README.md:309` promises only that retired sessions do
  not come back, which is `SessionsNeverReturn`.
* The breaker's cooldown uses the wall clock (`dbus_utils.py:70`): set back, it keeps the
  breaker open for longer than the 60 s of `CHANGELOG.md:164`, set forward, for less.
  `ProbesAreSpaced` says that it is no more than the clock was set forward.
* A repeated activation is refused when the manifest was edited in between and a service
  that answers shares a suffix or instance with another chain of the new one
  (`topology_install.py:252-257`), as preflight should.
* Outside the concurrency group two runs may both find no ledger (`release_state.py:181`). If
  one writes it, somebody removes the file and the other writes, numbers start over:
  `NumbersNeverReused` excepts this case, `exposed`, when runs are not serialized.
* A SIGTERM between the registration of its handler and `mainloop.run()` is lost
  (`dbus_utils.py:168`).
* The cold branch of `calculate_ccl_from_temperature` (`dvcc.py:354`) is taken before the hot
  limit is looked at: with one sensor at 49 degrees, another going from 10 to 9 degrees
  raises the allowed charge current from 20 A to 45 A, although "most restrictive wins"
  (`dvcc.py:460`). For this reason `WorseNeverAllowsMore` compares readings with the same
  lowest temperature.
* A series chain with `bms_first` above 1 numbers its cells after those of the chain before
  it, but has paths only for as many cells as it has itself (`dbus-mqtt-battery.py:645`): it
  shows none or some of its own cells, under another name. `CellPathsNamed` leaves these
  chains out.
* A legacy pack that reports a cell index above `cells_per_bms` writes the path of the next
  pack's cell, unless that pack writes it afterwards; an extreme may then name a cell
  that shows another value. `CellPathsNamed` states the extremes for packs that report as
  configured.
* An explicit `--config` that names a missing file silently leaves the defaults.
* A push after the last source check of an automatic run (`release_versioned.py:819`) is not
  excluded; its release is then one commit behind when it appears.
* A run that dies between creating the ledger's branch and the first ledger
  (`release_state.py:209`) blocks every later allocation, as `docs/VERSIONING.md` intends for
  a branch without a ledger.

## 4. Fairness

* `PollLoop`: strong fairness of the main thread's own steps (a lock or bus that is free
  again and again is obtained), weak fairness of signal delivery, strong fairness of time.
  Nothing forces the lock to be released or the bus to answer.
* `Dvcc`: weak fairness of repeating the poll with unchanged readings.
* `Panel`: weak fairness of `Poll`. GLib runs the poll timer as long as the main thread
  returns to the loop (what if it does not is `PollLoop`'s question). The receiver has no
  fairness: telemetry may stop or come back at any time.

The other specifications have none and their properties are safety properties;
`FailClosedInTime` bounds the delay of a withdrawal by counting polling steps instead.

## 5. Proofs

Checked by TLAPS for all values of the constants that satisfy the named assumptions of the
module that declares them. The assumptions say what a constant is (a positive expiry, a
profile that `DvccProfile` accepts, a manifest without duplicate identities, a plan that is
not `None`); none of them bounds a number of BMS, chains, runs, boots, faults or time steps.
Every inductive invariant was first checked with TLC on the bounds of its run.

* **Receiver** (`MqttClientProofs`, on `BatteryAssumption` and `ClientAssumption`): `TypeCorrect`,
  `EvidenceStaysReal`, `SessionOrder`. The inductive invariant is `TypeOK`, `AgesHonest` (every
  stored age is at least the true age of its measurement, field by field) and
  `SessionHistory` (the accepted position is the last one heard, and every other boot heard
  is retired). `EvidenceIsReal` alone is not inductive: a merge keeps old fields beside new
  ones, so honesty is needed per field; the replay check only compares boot ids for equality,
  so its soundness needs the history. The first section has the lemmas about decoding,
  merging and ageing of one BMS.
* **Receiver, snapshots** (`ReceiverProofs`, on the same): `HeardNeverLockedOut`, `WholeOrNothing`,
  `LegacyEndsWithConnection`, `TopologySnapshotIsOneFrame`, the action properties `HeldRunsOut`
  and `GrantsAreComplete`, and the refinement `ReceiverImplementsEvidence`. `StepKinds` reduces the
  actions to four shapes: a frame applied, samples kept or dropped, a legacy topic, time.
  `SInv` adds that a legacy receiver has no session, a snapshot has one, and the history is
  within its limit. The refinement is a step simulation: each shape is a step of `Evidence` or
  a stutter under the mapping, and what a BMS has left before it expires is the least over its
  required fields.
* **Publisher** (`DbusServiceProofs`, on `ServiceAssumption`; over any receiver that behaves as
  `Evidence`): `TypeCorrect`, `PermissionsAgree`, `LossReachesBus`, `NothingBeforeReady`,
  `PartialOnlyTightens`, `RampRespected`. `LossFollowed` is the heart: how old an unseen loss
  can be at each point of a poll, for every expiry and polling interval. `ReadyRemembered` ties
  `_previous_limits` to what is on D-Bus, `RampFollows` the ramp to the limit shown.
* **DVCC** (`DvccProofs`, on `ProfileAssumption` and `DvccAssumption`): `TypeCorrect`,
  `CeilingsRespected`, `ProtectionNeverRamped`, `CurvesNeverTurn`, for every profile that
  `DvccProfile` accepts and not only the default one. Each curve is shown to be ordered by
  cases on the segment of either reading, with lemmas on rounded division. The proof
  attempt corrected one property: `WithinEveryCeiling` used to compare the discharge limit with
  the hot ceiling also when no temperature was known, which the code does not do.
* **Main loop** (`PollLoopProofs`, on `PollAssumption`): `TypeCorrect`, `AlarmsStayInside`,
  `FailuresWithdraw`, `ProbesSpaced`. The invariant adds which exceptions are possible at
  which program counter, that a raised calculation has its withdrawal in the transaction,
  and that the wall clock is ahead of the true time by no more than it was set forward.
* **Installer** (`TopologyInstallProofs`, on `ManifestAssumption`): `TypeCorrect`, `LinkedHasFiles`,
  `SupervisedHasFiles`, `NothingAbandoned`, `ActivationCanBeRepeated`, `RollbackIsComplete`. `Sound`
  (a readiness marker vouches for both launchers and the registry entry) holds after each
  single write because of the order of the writes and the reverse order of the undo.
  `ApplyInv` says what an apply may have changed so far and that it can go back, `RetireInv` the
  same for a retirement. `SteadyInv` is for the repetition: while the manifest is not edited,
  whatever comes to answer on D-Bus after a run has looked is one of the manifest's own
  identities, and an accepted plan is disputed by nothing else.
* **Release** (`ReleaseProofs`, on `ReleaseAssumption`): `TypeCorrect`, `NumbersUnique`,
  `PublicIsVerified`, `StableWasCandidate`, `PublicationForward`, for any number of runs, commits,
  faults and concurrent runs (the last under the concurrency group only). The invariant has
  thirteen parts. `LedgerInv`: a ledger is exactly the history of what was issued, so a compare
  and swap on it is one on the history. `ReservingInv`: a plan about to be written is new for the
  ledger it was made from, and runs that found none can write only while nothing is issued or,
  refused, after another has written. `Guarded` is the invariant until the ledger is begun
  anew (`exposed`), with the proof that this never happens under the concurrency group; what
  TLC checks of `PublishedIsWhole` and `StableIsAcceptedRc` beyond it is not proved. `TagsInv`, `DraftsInv`,
  `ReleasesInv`: a tag belongs to the one run that made it, and a release id names the attempt
  that drafted it, so a lost answer cannot be mistaken for another's draft. `PromotionInv` and
  `ShippedInv`: a promotion's bytes are those of a candidate that was shipped and whose attempt
  was the last and succeeded. `FloorInv` and `OrderInv`: the floor is above everything shipped
  or about to be, and with one active run nothing ships in between. That a sequence number
  never exceeds its plan's number bounds the search for the next one; `LeastNatural` and
  `BoundedMax` derive the existence of a maximum from the well-foundedness of the naturals.
* **Start-up** (`PanelProofs`, on `StartupAssumption` and `PanelAssumption`): `ManifestDecides`,
  `LocalOnlyPinned`. `StartInv` says what `load_config` decided and that it holds through `main`
  to the constructor. The assumptions are those of the command line's grammar: options name
  settings, and `--local-only` can only turn the setting on.
* **Panel** (`PanelProofs`, on the same): `CellPathsTrue`, `TemperatureIdsTrue`, `AlarmsFollow`, for
  every inventory (any integers: `config.py` checks only the stride of the temperatures),
  chain, set of snapshots and thresholds, and any number of failed updates. `PanelInv` has
  three parts. `Settled` and `Profiled`: what start-up leaves of the inventory, and that a
  topology's alarms are its profile's. `Shaped`: every update, whole or cut short, leaves a path
  for each cell, so that the next one can write it. `Displays`: on a connected chain each group
  of paths is the latest snapshot's; it holds again after every whole update whatever the
  paths held before, and a failed one disconnects. The properties follow from `Displays` by
  arithmetic of the numbering: `_offsets` has a solution for any number of packs, its numbers
  do not overlap (`OffsetsGrow`) and leave no gap (`OffsetsCover`), the place of a sensor, counted
  as a cardinality, is its number (`PlaceIsNumber`), and of several cells with one number the
  one written last is the configured one (`EntryOfCell`). Each is a least counterexample
  (`LeastNumber`, from the well-foundedness of the naturals), since induction over data is out of
  the prover's reach. That extremes exist needs the readings to have bounds (`MaxReading`).
  `OffsetsGrow` also shows that the test for duplicate temperature ids in
  `_collect_cells_and_temps` never fires: ids within the stride cannot collide. The
  proof attempt corrected the model: `AlarmsFollowReadings` used to assume that a warning
  threshold is reached before its critical one, which `config.py` does not check, and the
  critical imbalance of a profile is its own and not twice the warning.

Only model-checked are the liveness properties `FirstHangInterrupted`, `BreakerRecovers`,
`LimitRecovers` and `SettlesOnEvidence`, because fairness is out of the prover's reach. Every
invariant and action property of a passing run is also a theorem.

## 6. Abstractions to know about

* The lock is one lock: `_data_lock` and the per-battery locks are always nested.
* A blocking call into libdbus is taken to be interruptible by SIGALRM.
* `_atomic_text` replaces a file or leaves it; a rename is durable once done.
* Preflight reads D-Bus in one step and the registry and launchers in another, and only one
  installer runs at a time (the code has no lock against a second one).
* `Panel` is told whether the evidence is whole and takes any snapshot of `Snapshots` as the
  readings; what makes it whole is `MqttClient`'s subject.
* The module counts (`_update_module_status`) are left out: nothing else depends on them.
* `reserve_plan` reads the ledger and then tags and releases; the model reads all at once. A
  tag created in between belongs to a plan that the ledger already held, so neither the
  next sequence number nor the absence of the new tag depends on it.
* GitHub's requests are atomic, and its answers to reads are current. Checksums and
  attestations are one question: are these the bytes that the run built.
* Observed while modelling and deliberate or undocumented, so not claimed either way: an
  apply killed before the registry is written (`topology_install.py:235`) leaves launchers
  that make every later preflight refuse until an operator removes them; a retirement
  killed between rename and registry leaves an owned entry without a directory, which can
  be applied again but not retired; an alarm that hits the `except` clause of an update that
  raised skips the withdrawal; alarm thresholds are not ordered by `config.py`, so one whose
  critical level is reached before its warning goes from 0 to 2 and back without a 1;
  `count` and `cells_per_bms` may be zero or negative, and then no update is ever complete, or
  only per-topic readings without a path are shown.

## 7. Not modelled

* The legacy part of `setup` (one pass without a protocol), the vendored overlay scripts and
  the QML pages.
* `scripts/version_plan.py` and the receipts: editing and reading version strings in files
  of six syntaxes. The hazards are in the formats, not in an order of steps.
* The release client (a command that dispatches the workflow and waits), the package and
  archive builders (file transformations without shared state) and the CI checks, which
  `Release` treats as steps that may fail.
* Within modelled parts: time-to-go, module counts, the totals of current, power and capacity, the log, the
  text of release notes, and the `final-build` promotion, which the repository's policy
  (`promote-bytes`) does not use.

## 8. Plan

1. *Done:* receiver, evidence, publisher, main loop, installer, DVCC; type and first safety
   theorems.
2. *Done:* start-up and manifest, aggregation, panel paths and alarms, the error path of a
   topology aggregate, the release pipeline.
3. *Done:* proofs of the receiver and its refinement of `Evidence`, the publisher, `Dvcc` for
   every profile, the installer, the release pipeline, start-up and the panel.
4. Time-to-go, the uninstall check, and the `final-build` promotion should a policy use it.
