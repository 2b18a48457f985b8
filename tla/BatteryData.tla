----------------------------- MODULE BatteryData -----------------------------
(***************************************************************************)
(* The readings of one BMS as dbus_mqtt_battery/bms_data.py keeps them,    *)
(* and the two schema-1 decoders of dbus_mqtt_battery/telemetry.py that    *)
(* build such readings from a producer's frame.                            *)
(*                                                                         *)
(* A reading is reduced to what the bridge decides from it: how old its    *)
(* physical evidence is and whether its value is in range.  Sample times   *)
(* are kept as AGES that saturate at Stale (the code's STALE_TIMEOUT, in   *)
(* model time units): monotonic() - sample_time >= STALE_TIMEOUT is all    *)
(* that the code ever asks of an old sample, so a clock that runs forever  *)
(* needs finitely many states.                                             *)
(***************************************************************************)
EXTENDS Integers

CONSTANTS
    Core,       \* readings always required: voltage, current, soc, cells
    Temps,      \* temperature sensors; at least one must be known
    FirstTemp,  \* the one sensor that a partial frame can carry
    Extra,      \* readings that are optional but must stay fresh once seen
    Perm,       \* the MOS permissions: charging, discharging
    Stale       \* STALE_TIMEOUT, in model time units

ASSUME BatteryAssumption ==
    /\ Stale \in Nat \ {0}
    /\ FirstTemp \in Temps
    /\ Core \cap Temps = {} /\ Extra \cap (Core \cup Temps) = {}
    /\ "mos" \notin Core \cup Temps \cup Extra

\* charging, discharging and online always share one sample time: "mos".
Readings == Core \cup Temps \cup Extra
Keys == Readings \cup {"mos"}

Absent == -1                 \* the key is not in _sample_times
Age == Absent..Stale         \* Stale also stands for float("-inf")

Tri == {"yes", "no", "unknown"}

Battery == [age : [Keys -> Age], bad : SUBSET Readings,
            perm : [Perm -> Tri], online : Tri]

EmptyBattery == [age |-> [k \in Keys |-> Absent], bad |-> {},
                 perm |-> [p \in Perm |-> "unknown"], online |-> "unknown"]

Fresh(a) == 0 <= a /\ a < Stale

Sampled(b) == {k \in Keys : b.age[k] # Absent}

\* missing_fields() is empty: every required or ever-sampled key is fresh,
\* some temperature is usable, the permissions are known and the BMS is online.
IsValid(b) ==
    /\ \A k \in Core \cup Sampled(b) : Fresh(b.age[k])
    /\ \E t \in Temps \cap Sampled(b) : t \notin b.bad
    /\ \A p \in Perm : b.perm[p] # "unknown"
    /\ b.online = "yes"
    /\ Core \cap b.bad = {}

\* oldest_sample_time, as an age (Absent when nothing was ever sampled).
OldestAge(b) ==
    CHOOSE a \in {b.age[k] : k \in Keys} : \A k \in Keys : b.age[k] <= a

\* One unit of monotonic time passes.
Older(a) == IF a \in {Absent, Stale} THEN a ELSE a + 1
Aged(b) == [b EXCEPT !.age = [k \in Keys |-> Older(b.age[k])]]

-----------------------------------------------------------------------------
(***************************************************************************)
(* Legacy topics: update() receives one key and one payload.               *)
(***************************************************************************)

\* A finite number is stored and renews its key, even when out of range; an
\* unparsable or non-finite payload condemns a key that was already sampled.
UpdateReading(b, k, v) ==
    CASE v = "nan" -> IF k \in Sampled(b) THEN [b EXCEPT !.age[k] = Stale] ELSE b
      [] v = "good" -> [b EXCEPT !.age[k] = 0, !.bad = @ \ {k}]
      [] v = "bad" -> [b EXCEPT !.age[k] = 0, !.bad = @ \cup {k}]

\* Permissions and online latch without a sample time; junk makes them unknown.
UpdatePermission(b, p, v) == [b EXCEPT !.perm[p] = v]
UpdateOnline(b, v) == [b EXCEPT !.online = v]

-----------------------------------------------------------------------------
(***************************************************************************)
(* Atomic schema-1 rows.  seen: the keys the producer physically observed; *)
(* age: its claim of how long ago; bad: observed values out of range;      *)
(* grant: the permissions reported on.                                     *)
(***************************************************************************)
Row == [seen : SUBSET Keys, bad : SUBSET Readings, age : 0..Stale,
        grant : SUBSET Perm, online : BOOLEAN]

\* The nine evidence bits of a mask; 511 is all of them.
Masked == Core \cup {FirstTemp, "mos"}

TriOf(granted) == IF granted THEN "yes" ELSE "no"

\* _decode_complete_row: a detached battery, every key as old as the row says.
DecodedRow(r) ==
    [age |-> [k \in Keys |-> IF k \in r.seen THEN r.age ELSE Absent],
     bad |-> r.bad \cap r.seen,
     perm |-> [p \in Perm |-> TriOf(p \in r.grant)],
     online |-> TriOf(r.online)]

\* The row is acceptable: complete evidence, unexpired, and valid as decoded.
CompleteRow(r) ==
    /\ Masked \subseteq r.seen
    /\ r.age < Stale
    /\ IsValid(DecodedRow(r))

\* The schema-2 row of an explicit topology: the configured inventory exactly,
\* and no sensor out of range (telemetry_v2).
CompleteTopologyRow(r) ==
    /\ Core \cup Temps \cup {"mos"} \subseteq r.seen
    /\ r.bad \cap Temps = {}
    /\ r.age < Stale
    /\ IsValid(DecodedRow(r))

\* Mutant: observed values are merged without their range checks.
PartialRowUnchecked(r) ==
    /\ r.seen \subseteq Masked
    /\ r.seen # {} => r.age < Stale
    /\ r.seen = Masked => r.online

\* _partial_evidence, _observed_field and the 511-but-offline check; an
\* out-of-range temperature is the one observed fault that is not an error.
PartialRow(r) ==
    /\ r.seen \subseteq Masked
    /\ r.seen # {} => r.age < Stale
    /\ r.bad \cap r.seen \cap Core = {}
    /\ r.seen = Masked => r.online

\* Mutant: a session that is not live refreshes like one that is.
PartialAgeAlwaysFresh(b, a, refresh) == a

\* _partial_sample_time: without refresh, a reading is at least as old as
\* the oldest evidence the battery already rests on.
PartialAge(b, a, refresh) ==
    IF refresh \/ OldestAge(b) <= a THEN a ELSE OldestAge(b)

\* _merge_partial_numbers: only observed readings change value and age.
MergedAge(b, r, refresh, k) ==
    IF k \notin r.seen THEN b.age[k]
    ELSE IF k = "mos" THEN IF refresh THEN r.age ELSE b.age[k]
    ELSE PartialAge(b, r.age, refresh)

\* Mutant: an observed MOS state is applied either way.
MergedPermBothWays(b, r, p) ==
    IF "mos" \in r.seen THEN TriOf(p \in r.grant) ELSE b.perm[p]

\* _merge_partial_status: an observed FALSE is applied, an observed TRUE is not.
MergedPerm(b, r, p) ==
    IF "mos" \in r.seen /\ p \notin r.grant THEN "no" ELSE b.perm[p]

\* One row of merge_partial; a row without evidence changes nothing.
MergedRow(b, r, refresh) ==
    [age |-> [k \in Keys |-> MergedAge(b, r, refresh, k)],
     bad |-> (b.bad \ r.seen) \cup (r.bad \cap r.seen),
     perm |-> [p \in Perm |-> MergedPerm(b, r, p)],
     online |-> b.online]
=============================================================================
