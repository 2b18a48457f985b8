--------------------------------- MODULE Dvcc ---------------------------------
(***************************************************************************)
(* DvccController (dvcc.py): the charge and discharge current the cells    *)
(* allow, and how the publisher turns it into the limits on D-Bus          *)
(* (_update_dvcc and _apply_partial_frame_limits in dbus-mqtt-battery.py). *)
(*                                                                         *)
(* Millivolts, milliamperes, degrees, percent and seconds.  The code's     *)
(* "max * (a + (1 - a) * factor)" forms are straight lines between the     *)
(* same end points; a line is rounded down to a whole milliampere, which   *)
(* keeps its order and is exact at the end points.  What happens when the  *)
(* telemetry is lost is in DbusService.                                    *)
(***************************************************************************)
EXTENDS Integers

CONSTANTS
    Profile,    \* DvccProfile
    Explicit,   \* TRUE: configured profile, output rounded down; FALSE: default
    Quantum,    \* limits are published in multiples of 100 mA
    Readings,   \* the aggregates a poll may find
    Polls,      \* permissions, partial flag and time since the last poll it may find
    NoData      \* no cell voltage, no temperature, no SoC; no previous limits

P == Profile
Perm == {"charging", "discharging"}

Fields == {"maxCharge", "maxDischarge", "minCharge", "rate",
           "full", "start", "balance", "near", "cutoff", "balancePct",
           "imbStart", "imbAggressive", "imbCritical", "imbPct",
           "stopCold", "fullMin", "fullMax", "stopHot", "coldPct", "hotPct",
           "socStart", "socPct", "dFull", "dStart", "dCutoff", "dLowPct", "dHotPct"}

\* DvccProfile.__post_init__
ASSUME ProfileAssumption ==
    /\ \A k \in Fields : P[k] \in Int
    /\ P.maxCharge > 0 /\ P.maxDischarge > 0 /\ P.rate > 0
    /\ 0 < P.dCutoff /\ P.dCutoff < P.dStart /\ P.dStart < P.dFull /\ P.dFull < P.full
    /\ P.full <= P.start /\ P.start < P.balance /\ P.balance < P.near
    /\ P.near < P.cutoff
    /\ 0 <= P.imbStart /\ P.imbStart < P.imbAggressive /\ P.imbAggressive < P.imbCritical
    /\ P.stopCold < P.fullMin /\ P.fullMin <= P.fullMax /\ P.fullMax < P.stopHot
    /\ 0 <= P.socStart /\ P.socStart < 100
    /\ \A k \in {"balancePct", "imbPct", "coldPct", "hotPct", "socPct", "dLowPct", "dHotPct"} :
          P[k] \in 0..100
    /\ P.balancePct > 0 /\ P.imbPct > 0
    /\ P.minCharge >= 0
    /\ P.minCharge * 100 <= P.maxCharge * P.balancePct
    /\ P.minCharge * 100 <= P.maxCharge * P.imbPct

Value == Int \cup {NoData}

ASSUME DvccAssumption ==
    /\ Explicit \in BOOLEAN /\ Quantum \in Nat \ {0}
    /\ NoData \notin Int
    /\ Readings \subseteq [max : Value, min : Value, cold : Value, hot : Value, soc : Value]
    /\ \A q \in Polls : q.granted \subseteq Perm /\ q.partial \in BOOLEAN /\ q.dt \in Nat

VARIABLES
    reading,   \* the aggregate last published
    allow,     \* its allow_charge and allow_discharge
    partial,   \* its telemetry_partial
    ccl, dcl,  \* the published limits; NoData before the first
    lastCcl    \* dvcc.last_ccl

vars == <<reading, allow, partial, ccl, dcl, lastCcl>>

Lesser(a, b) == IF a <= b THEN a ELSE b
Greater(a, b) == IF a <= b THEN b ELSE a
Part(i, pct) == (i * pct) \div 100

\* The straight line from (x0, y0) to (x1, y1).
Line(x, x0, y0, x1, y1) == y0 + ((y1 - y0) * (x - x0)) \div (x1 - x0)

-----------------------------------------------------------------------------
(***************************************************************************)
(* The curves.                                                             *)
(***************************************************************************)

\* Mutant: balancing starts from the full current again.
CclFromCellVoltageUneven(v) ==
    CASE v = NoData -> P.maxCharge
      [] v # NoData /\ v < P.start -> P.maxCharge
      [] v \in P.start..(P.balance - 1) ->
            Line(v, P.start, P.maxCharge, P.balance, Part(P.maxCharge, P.balancePct))
      [] v \in P.balance..(P.near - 1) ->
            Line(v, P.balance, P.maxCharge, P.near, P.minCharge)
      [] v \in P.near..(P.cutoff - 1) -> Line(v, P.near, P.minCharge, P.cutoff, 0)
      [] v # NoData /\ v >= P.cutoff -> 0

CclFromCellVoltage(v) ==
    CASE v = NoData -> P.maxCharge
      [] v # NoData /\ v < P.start -> P.maxCharge
      [] v \in P.start..(P.balance - 1) ->
            Line(v, P.start, P.maxCharge, P.balance, Part(P.maxCharge, P.balancePct))
      [] v \in P.balance..(P.near - 1) ->
            Line(v, P.balance, Part(P.maxCharge, P.balancePct), P.near, P.minCharge)
      [] v \in P.near..(P.cutoff - 1) -> Line(v, P.near, P.minCharge, P.cutoff, 0)
      [] v # NoData /\ v >= P.cutoff -> 0

CclFromImbalance(delta) ==
    CASE delta = NoData -> P.maxCharge
      [] delta # NoData /\ delta <= P.imbStart -> P.maxCharge
      [] delta \in (P.imbStart + 1)..(P.imbAggressive - 1) ->
            Line(delta, P.imbStart, P.maxCharge, P.imbAggressive, Part(P.maxCharge, P.imbPct))
      [] delta \in P.imbAggressive..(P.imbCritical - 1) ->
            Line(delta, P.imbAggressive, Part(P.maxCharge, P.imbPct), P.imbCritical, P.minCharge)
      [] delta # NoData /\ delta >= P.imbCritical -> P.minCharge

\* The cold branch is taken before the hot one is looked at.
CclFromTemperature(cold, hot) ==
    CASE cold <= P.stopCold \/ hot >= P.stopHot -> 0
      [] cold \in (P.stopCold + 1)..(P.fullMin - 1) /\ hot < P.stopHot ->
            Line(cold, P.stopCold, 0, P.fullMin, Part(P.maxCharge, P.coldPct))
      [] cold >= P.fullMin /\ hot \in (P.fullMax + 1)..(P.stopHot - 1) ->
            Greater(Part(P.maxCharge, P.hotPct), Line(hot, P.fullMax, P.maxCharge, P.stopHot, 0))
      [] cold >= P.fullMin /\ hot <= P.fullMax -> P.maxCharge

CclFromSoc(soc) ==
    CASE soc = NoData -> P.maxCharge
      [] soc # NoData /\ soc < P.socStart -> P.maxCharge
      [] soc \in P.socStart..99 ->
            Line(soc, P.socStart, P.maxCharge, 100, Part(P.maxCharge, P.socPct))
      [] soc # NoData /\ soc >= 100 -> Part(P.maxCharge, P.socPct)

DclFromCellVoltage(v) ==
    CASE v = NoData -> P.maxDischarge
      [] v # NoData /\ v >= P.dFull -> P.maxDischarge
      [] v \in (P.dStart + 1)..(P.dFull - 1) ->
            Line(v, P.dStart, Part(P.maxDischarge, P.dLowPct), P.dFull, P.maxDischarge)
      [] v \in (P.dCutoff + 1)..P.dStart ->
            Line(v, P.dCutoff, 0, P.dStart, Part(P.maxDischarge, P.dLowPct))
      [] v # NoData /\ v <= P.dCutoff -> 0

-----------------------------------------------------------------------------
(***************************************************************************)
(* calculate.                                                              *)
(***************************************************************************)
Delta(r) == IF r.max = NoData \/ r.min = NoData THEN NoData ELSE r.max - r.min

\* A missing temperature counts as 25 degrees.
Degrees(t) == IF t = NoData THEN 25 ELSE t

CclCeiling(r) ==
    Lesser(Lesser(CclFromCellVoltage(r.max), CclFromImbalance(Delta(r))),
           Lesser(CclFromTemperature(Degrees(r.cold), Degrees(r.hot)), CclFromSoc(r.soc)))

DclCeiling(r) ==
    IF r.hot # NoData /\ r.hot >= P.stopHot
    THEN Lesser(DclFromCellVoltage(r.min), Part(P.maxDischarge, P.dHotPct))
    ELSE DclFromCellVoltage(r.min)

\* Mutant: the ramp also delays a protective reduction.
RampedBothWays(ceiling, dt) ==
    IF ceiling > lastCcl THEN Lesser(ceiling, lastCcl + P.rate * dt)
    ELSE Greater(ceiling, lastCcl - P.rate * dt)

Ramped(ceiling, dt) ==
    IF ceiling > lastCcl THEN Lesser(ceiling, lastCcl + P.rate * dt) ELSE ceiling

\* Mutant: a configured ceiling is rounded to the nearest step like a default.
PublishedNearest(i) == ((i + Quantum \div 2) \div Quantum) * Quantum

\* A configured profile rounds down; the default rounds to the nearest step.
Published(i) ==
    (IF Explicit THEN i \div Quantum ELSE (i + Quantum \div 2) \div Quantum) * Quantum

\* Mutant: a complete frame does not lift what a partial one held.
HeldForever(limit, previous, hold) ==
    IF previous # NoData THEN Lesser(limit, previous) ELSE limit

\* _apply_partial_frame_limits
Held(limit, previous, hold) ==
    IF hold /\ previous # NoData THEN Lesser(limit, previous) ELSE limit

\* A BMS veto is applied after the ramp.
Blocked(p, granted, ceiling, dt) ==
    IF p \notin granted THEN 0
    ELSE IF p = "charging" THEN Ramped(ceiling, dt) ELSE ceiling

\* One update with a complete snapshot: _update_dvcc, then the partial hold,
\* whose result is also where the next ramp starts.
Update(r, granted, hold, dt) ==
    /\ ccl' = Held(Published(Blocked("charging", granted, CclCeiling(r), dt)), ccl, hold)
    /\ dcl' = Held(Published(Blocked("discharging", granted, DclCeiling(r), dt)), dcl, hold)
    /\ lastCcl' = ccl'
    /\ reading' = r /\ allow' = granted /\ partial' = hold

Init ==
    /\ reading \in Readings /\ allow = {} /\ partial = FALSE
    /\ ccl = NoData /\ dcl = NoData
    /\ lastCcl = P.maxCharge

Next == \E r \in Readings, q \in Polls : Update(r, q.granted, q.partial, q.dt)

Spec == Init /\ [][Next]_vars

\* The main loop goes on polling, also while nothing changes.
Repeat == \E q \in Polls : q.dt > 0 /\ Update(reading, allow, partial, q.dt)

FairSpec == Spec /\ WF_vars(Repeat)

-----------------------------------------------------------------------------
(***************************************************************************)
(* Properties.                                                             *)
(***************************************************************************)
Limit(i, most) == i # NoData => i \in 0..most /\ i % Quantum = 0

\* Limits are published in whole steps, never negative and never above the
\* configured maximum, however long the ramp has been running.
TypeOK ==
    /\ reading \in Readings /\ allow \subseteq Perm /\ partial \in BOOLEAN
    /\ Limit(ccl, Published(P.maxCharge)) /\ Limit(dcl, Published(P.maxDischarge))
    /\ lastCcl = IF ccl = NoData THEN P.maxCharge ELSE ccl

\* With a configured profile no published limit exceeds what any single reading
\* allows, whatever ramp, hold and rounding did to it.
WithinEveryCeiling ==
    Explicit /\ ccl # NoData =>
        /\ ccl <= CclFromCellVoltage(reading.max)
        /\ ccl <= CclFromImbalance(Delta(reading))
        /\ ccl <= CclFromTemperature(Degrees(reading.cold), Degrees(reading.hot))
        /\ ccl <= CclFromSoc(reading.soc)
        /\ dcl <= DclFromCellVoltage(reading.min)
        /\ reading.hot # NoData /\ reading.hot >= P.stopHot
              => dcl <= Part(P.maxDischarge, P.dHotPct)

\* A cell at its cutoff, a temperature at its limit or a veto stops the current
\* with the very next poll: no ramp delays a protective reduction.
StopsAtOnce ==
    ccl # NoData =>
        /\ \/ reading.max # NoData /\ reading.max >= P.cutoff
           \/ Degrees(reading.cold) <= P.stopCold
           \/ Degrees(reading.hot) >= P.stopHot
           \/ "charging" \notin allow
           => ccl = 0
        /\ \/ reading.min # NoData /\ reading.min <= P.dCutoff
           \/ "discharging" \notin allow
           => dcl = 0

Known(r) == \A k \in DOMAIN r : r[k] # NoData

\* s is r with a fuller top cell, cells further apart, more heat and more charge.
WorseToCharge(r, s) ==
    /\ Known(r) /\ Known(s) /\ r.max <= s.max /\ Delta(r) <= Delta(s)
    /\ r.cold = s.cold /\ r.hot <= s.hot /\ r.soc <= s.soc

\* s is r with an emptier lowest cell and more heat.
WorseToDischarge(r, s) ==
    Known(r) /\ Known(s) /\ r.min >= s.min /\ r.hot <= s.hot

\* Across every threshold of every curve, a fuller or emptier cell, cells further
\* apart, more heat or more charge never allow more current.
WorseNeverAllowsMore ==
    [][/\ WorseToCharge(reading, reading') => CclCeiling(reading') <= CclCeiling(reading)
       /\ WorseToDischarge(reading, reading') => DclCeiling(reading') <= DclCeiling(reading)]_vars

\* The limits come back: with steady readings, permissions and complete frames
\* the published charge limit reaches what the cells allow, and stays there.
LimitRecovers ==
    <>[](allow = Perm /\ ~partial) /\ <>[][reading' = reading]_vars
        => <>[](ccl = Published(CclCeiling(reading)))
=============================================================================
