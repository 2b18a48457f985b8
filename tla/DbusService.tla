------------------------------ MODULE DbusService ------------------------------
(***************************************************************************)
(* DbusAggregateService (dbus-mqtt-battery.py) polling the receiver and    *)
(* publishing permissions and current limits, with the charge-current ramp *)
(* of DvccController.calculate (dvcc.py).                                  *)
(*                                                                         *)
(* The receiver is its abstract specification, Evidence.  One poll is two  *)
(* steps of the main thread: get_aggregate_data() copies the evidence      *)
(* under the lock (TakeSnapshot); the copy is published in one D-Bus       *)
(* transaction later (Publish or PublishFails), while the MQTT thread and  *)
(* the clock go on.  Currents are small integers; the ceilings the DVCC    *)
(* curves allow for the readings of a snapshot are an input.               *)
(***************************************************************************)
EXTENDS Integers

CONSTANTS
    Slot,        \* configured BMS slots
    Stale,       \* STALE_TIMEOUT
    MaxLimit,    \* the configured maximum charge and discharge current
    Rate,        \* ccl_change_rate: allowed increase per time unit
    PollGap,     \* bound: time between two steps of the polling thread
    Failures     \* TRUE: an update may end in an exception

Perm == {"charging", "discharging"}
Limits == [Perm -> 0..MaxLimit]
Zero == [p \in Perm |-> 0]

ASSUME ServiceAssumption ==
    /\ Slot # {} /\ Stale \in Nat \ {0}
    /\ MaxLimit \in Nat \ {0} /\ Rate \in Nat \ {0} /\ PollGap \in Nat \ {0}
    /\ Failures \in BOOLEAN

VARIABLES
    mode, life, grant, partial,   \* the receiver
    snap,       \* the aggregate copied by the poll in progress, or Idle
    pub,        \* the published D-Bus paths
    hasReady,   \* self._has_ready_data
    previous,   \* self._previous_limits
    lastCcl,    \* self.dvcc.last_ccl
    elapsed,    \* time since self.dvcc.last_update_time, saturating
    wait,       \* history: time since the polling thread's last step
    dark        \* history: time since the evidence became unusable, saturating

R == INSTANCE Evidence

service == <<snap, pub, hasReady, previous, lastCcl, elapsed>>
vars == <<mode, life, grant, partial, service, wait, dark>>

Idle == [busy |-> FALSE]
NoLimits == [known |-> FALSE, limit |-> Zero]     \* _previous_limits is None
Known(l) == [known |-> TRUE, limit |-> l]

Min2(a, b) == IF a < b THEN a ELSE b

\* At this elapsed time the ramp no longer restricts anything.
ElapsedCap == MaxLimit
\* Three polling steps after the evidence is lost it must show on D-Bus.
DarkCap == 3 * PollGap + 1

Alive == {s \in Slot : mode # "none" /\ life[s] > 0}

-----------------------------------------------------------------------------
\* __init__ and _setup_paths: nothing is advertised before the first update().
Init ==
    /\ R!Init
    /\ snap = Idle
    /\ pub = [connected |-> FALSE, state |-> "INITIALIZING", limit |-> Zero,
              allow |-> {}, cvl |-> FALSE, dc |-> FALSE, temps |-> FALSE]
    /\ hasReady = FALSE
    /\ previous = NoLimits
    /\ lastCcl = MaxLimit
    /\ elapsed = 0 /\ wait = 0 /\ dark = 0

\* Mutant: one valid pack makes the aggregate complete.
AggregateAny(valid) ==
    [busy |-> TRUE, complete |-> valid # {}, partial |-> partial,
     allow |-> {p \in Perm : \A s \in valid : p \in grant[s]}]

\* get_aggregate_data: valid packs are alive and in range; both permissions
\* need every configured pack.
Aggregate(valid) ==
    [busy |-> TRUE, complete |-> valid = Slot, partial |-> partial,
     allow |-> {p \in Perm : \A s \in Slot : s \in valid /\ p \in grant[s]}]

TakeSnapshot ==
    /\ ~snap.busy
    /\ \E valid \in SUBSET Alive : snap' = Aggregate(valid)
    /\ wait' = 0
    /\ UNCHANGED <<mode, life, grant, partial, pub, hasReady, previous, lastCcl,
                   elapsed, dark>>

-----------------------------------------------------------------------------
\* DvccController.calculate: only increases of the charge limit are rationed,
\* and a BMS veto is applied after the ramp.
Ramped(ceiling) ==
    IF ceiling > lastCcl THEN Min2(ceiling, lastCcl + Rate * elapsed) ELSE ceiling

\* Mutant: a veto blocks the permission but not the current limit.
CalculateUnblocked(ceiling) ==
    [p \in Perm |-> IF p = "charging" THEN Ramped(ceiling[p]) ELSE ceiling[p]]

Calculate(ceiling) ==
    [p \in Perm |-> IF p \notin snap.allow THEN 0
                    ELSE IF p = "charging" THEN Ramped(ceiling[p]) ELSE ceiling[p]]

\* Mutant: a partial snapshot publishes whatever was calculated.
HeldLimitsReleased(limit) == limit

\* _apply_partial_frame_limits: a partial snapshot can only tighten.
HeldLimits(limit) ==
    [p \in Perm |-> IF snap.partial /\ previous.known
                    THEN Min2(limit[p], previous.limit[p]) ELSE limit[p]]

TelemetryState(limit) ==
    IF \E p \in Perm : limit[p] = 0 THEN "PROTECTION"
    ELSE IF snap.partial THEN "DEGRADED" ELSE "READY"

\* What a complete snapshot shows on D-Bus.
ReadyPaths(limit) ==
    [connected |-> TRUE, state |-> TelemetryState(limit), limit |-> limit,
     allow |-> {p \in snap.allow : limit[p] > 0},
     cvl |-> TRUE, dc |-> TRUE, temps |-> TRUE]

\* Mutant: the ramp goes on from the calculated instead of the published limit.
PublishReadyUnclamped(calculated) ==
    /\ pub' = ReadyPaths(HeldLimits(calculated))
    /\ hasReady' = TRUE
    /\ previous' = Known(HeldLimits(calculated))
    /\ lastCcl' = calculated["charging"]
    /\ elapsed' = 0

PublishReady(calculated) ==
    /\ pub' = ReadyPaths(HeldLimits(calculated))
    /\ hasReady' = TRUE
    /\ previous' = Known(HeldLimits(calculated))
    /\ lastCcl' = HeldLimits(calculated)["charging"]
    /\ elapsed' = 0

\* Mutant: zero limits become the previous limits of a process never ready.
SetUnavailableForgetsInit(ready, shown) ==
    /\ pub' = [shown EXCEPT !.connected = FALSE, !.limit = Zero, !.allow = {},
                            !.dc = FALSE,
                            !.state = IF ready THEN "STALE" ELSE "INITIALIZING"]
    /\ hasReady' = ready
    /\ previous' = Known(Zero)

\* _set_unavailable, over the paths as they are by then: the cell and DC paths
\* are cleared, the temperature paths and the charge voltage limit are not.
SetUnavailable(ready, shown) ==
    /\ pub' = [shown EXCEPT !.connected = FALSE, !.limit = Zero, !.allow = {},
                            !.dc = FALSE,
                            !.state = IF ready THEN "STALE" ELSE "INITIALIZING"]
    /\ hasReady' = ready
    /\ previous' = IF ready THEN Known(Zero) ELSE previous

\* update() and _publish_snapshot, finished in one transaction.
Publish ==
    /\ snap.busy
    /\ IF snap.complete
       THEN \E ceiling \in Limits : PublishReady(Calculate(ceiling))
       ELSE SetUnavailable(hasReady, pub) /\ UNCHANGED <<lastCcl, elapsed>>
    /\ snap' = Idle /\ wait' = 0
    /\ UNCHANGED <<mode, life, grant, partial, dark>>

\* An exception, or the breaker's TimeoutError, before any value is written;
FailEarly == SetUnavailable(hasReady, pub) /\ UNCHANGED <<lastCcl, elapsed>>

\* among the measurements;
FailMeasuring ==
    /\ snap.complete
    /\ \E temps \in {pub.temps, TRUE} :
           SetUnavailable(TRUE, [pub EXCEPT !.temps = temps])
    /\ UNCHANGED <<lastCcl, elapsed>>

\* or with the limits calculated but not yet held to a partial frame's.
FailLimiting ==
    /\ snap.complete
    /\ \E cvl \in {pub.cvl, TRUE} :
           SetUnavailable(TRUE, [pub EXCEPT !.temps = TRUE, !.cvl = cvl])
    /\ \E ceiling \in Limits : lastCcl' = Calculate(ceiling)["charging"]
    /\ elapsed' = 0

\* update() publishes fail-closed values and re-raises.
PublishFails ==
    /\ Failures /\ snap.busy
    /\ FailEarly \/ FailMeasuring \/ FailLimiting
    /\ snap' = Idle /\ wait' = 0
    /\ UNCHANGED <<mode, life, grant, partial, dark>>

-----------------------------------------------------------------------------
\* Usable evidence of the whole chain.
Usable == Alive = Slot

\* Whatever the MQTT thread does between two steps of the polling thread.
Receive ==
    /\ R!Complete \/ R!Renew \/ R!Restrict \/ R!Refuse \/ R!Drop
    /\ dark' = IF Usable' THEN 0 ELSE dark
    /\ UNCHANGED <<service, wait>>

\* Time passes, but the polling thread is never kept waiting beyond PollGap.
Tick ==
    /\ wait < PollGap
    /\ R!Tick
    /\ wait' = wait + 1
    /\ elapsed' = Min2(elapsed + 1, ElapsedCap)
    /\ dark' = IF Usable' THEN 0 ELSE Min2(dark + 1, DarkCap)
    /\ UNCHANGED <<snap, pub, hasReady, previous, lastCcl>>

Poll == TakeSnapshot \/ Publish \/ PublishFails

Next == Receive \/ Poll \/ Tick

Spec == Init /\ [][Next]_vars

-----------------------------------------------------------------------------
(***************************************************************************)
(* Properties.                                                             *)
(***************************************************************************)

\* Every variable stays in the set its attribute of the service ranges over.
TypeOK ==
    /\ mode \in {"none", "live", "held"}
    /\ life \in [Slot -> 0..Stale] /\ grant \in [Slot -> SUBSET Perm]
    /\ partial \in BOOLEAN /\ hasReady \in BOOLEAN
    /\ snap \in {Idle} \cup [busy : {TRUE}, complete : BOOLEAN,
                             partial : BOOLEAN, allow : SUBSET Perm]
    /\ pub \in [connected : BOOLEAN, limit : Limits, allow : SUBSET Perm,
                state : {"INITIALIZING", "READY", "DEGRADED", "PROTECTION", "STALE"},
                cvl : BOOLEAN, dc : BOOLEAN, temps : BOOLEAN]
    /\ previous \in [known : BOOLEAN, limit : Limits]
    /\ lastCcl \in 0..MaxLimit
    /\ elapsed \in 0..ElapsedCap /\ wait \in 0..PollGap /\ dark \in 0..DarkCap

\* Once the evidence of any pack has been missing or expired for three polling
\* steps, D-Bus shows a disconnected battery, however frames, reboots, partial
\* merges and failing updates interleave with the poll.
FailClosedInTime == dark = DarkCap => ~pub.connected

\* At every moment a permission is published exactly when its current limit is
\* positive, and a disconnected battery permits nothing.
PermissionMatchesLimit ==
    /\ \A p \in Perm : p \in pub.allow <=> pub.limit[p] > 0
    /\ ~pub.connected => pub.allow = {}

\* A process that never had a complete snapshot advertises no charge voltage,
\* no measurement and no limit: it does not pose as a controlling BMS.
InitializingAdvertisesNothing ==
    pub.state = "INITIALIZING" =>
        /\ ~hasReady /\ ~pub.connected /\ ~pub.cvl /\ ~pub.dc /\ ~pub.temps
        /\ ~previous.known

\* While the receiver is degraded nothing raises a published limit: not a
\* partial frame, a reconnect, nor recovery from STALE.  (The first snapshot
\* of a process has nothing to be compared with.)
PartialNeverRelaxes ==
    [][hasReady /\ snap.busy /\ snap.partial =>
          \A p \in Perm : pub'.limit[p] <= pub.limit[p]]_vars

\* Between two consecutive available snapshots the charge limit rises no faster
\* than the ramp allows, counted from the limit that was really published.
RampWhileConnected ==
    [][pub.connected /\ pub'.connected =>
          pub'.limit["charging"] <= pub.limit["charging"] + Rate * elapsed]_vars

\* README.md: "Only increases use the existing gradual CCL ramp": every increase
\* of the published charge limit once limits have been calculated, granting it
\* all the time since the last calculation.
EveryIncreaseRamped ==
    [][pub.cvl => pub'.limit["charging"] <= pub.limit["charging"] + Rate * elapsed]_vars

\* README.md: "`STALE`: a previously ready process lost required telemetry.
\* Measurements are invalid": no measurement path keeps its last value.
StaleShowsNothing == pub.state = "STALE" => ~pub.dc /\ ~pub.temps
=============================================================================
