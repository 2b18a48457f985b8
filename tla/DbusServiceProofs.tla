--------------------------- MODULE DbusServiceProofs ---------------------------
(***************************************************************************)
(* The publisher's safety for every number of BMS, every expiry time,      *)
(* current limit, recovery rate and polling interval, over any receiver    *)
(* that implements Evidence.                                               *)
(***************************************************************************)
EXTENDS DbusService, TLAPS

\* _has_ready_data says whether D-Bus was ever driven by a complete snapshot,
\* and once it was, _previous_limits are the limits on D-Bus.
ReadyRemembered ==
    /\ hasReady => pub.state # "INITIALIZING" /\ previous = Known(pub.limit)
    /\ ~hasReady => /\ pub.state = "INITIALIZING" /\ ~previous.known
                    /\ ~pub.connected /\ ~pub.cvl /\ ~pub.dc /\ ~pub.temps

\* While the battery is shown as connected the ramp stands at the limit shown.
RampFollows == pub.connected => lastCcl = pub.limit["charging"]

\* How long a loss can go unseen at each point of a poll: a complete copy was
\* taken before the loss; it is published, the next copy is taken, and that one
\* is published, at most PollGap apart.
LossFollowed ==
    /\ Usable => dark = 0
    /\ snap.busy /\ snap.complete => dark <= wait
    /\ pub.connected /\ ~snap.busy => dark <= PollGap + wait
    /\ pub.connected /\ snap.busy => dark <= 2 * PollGap + wait

IInv == /\ TypeOK /\ PermissionMatchesLimit
        /\ ReadyRemembered /\ RampFollows /\ LossFollowed

\* What one step may do to the published limits.
StepSafe ==
    /\ hasReady /\ snap.busy /\ snap.partial =>
          \A p \in Perm : pub'.limit[p] <= pub.limit[p]
    /\ pub.connected /\ pub'.connected =>
          pub'.limit["charging"] <= pub.limit["charging"] + Rate * elapsed

\* TypeOK in parts: the receiver, the poll in progress, and the rest.
Snapshot == [busy : {TRUE}, complete : BOOLEAN, partial : BOOLEAN, allow : SUBSET Perm]
Paths ==
    [connected : BOOLEAN, limit : Limits, allow : SUBSET Perm,
     state : {"INITIALIZING", "READY", "DEGRADED", "PROTECTION", "STALE"},
     cvl : BOOLEAN, dc : BOOLEAN, temps : BOOLEAN]
Receiver ==
    /\ mode \in {"none", "live", "held"}
    /\ life \in [Slot -> 0..Stale] /\ grant \in [Slot -> SUBSET Perm]
    /\ partial \in BOOLEAN
Polled == snap \in {Idle} \cup Snapshot
Attributes ==
    /\ hasReady \in BOOLEAN /\ pub \in Paths
    /\ previous \in [known : BOOLEAN, limit : Limits]
    /\ lastCcl \in 0..MaxLimit
    /\ elapsed \in 0..ElapsedCap /\ wait \in 0..PollGap /\ dark \in 0..DarkCap

\* The parts are the whole, in this state and in the next.
LEMMA TypeParts ==
    /\ TypeOK <=> Receiver /\ Polled /\ Attributes
    /\ TypeOK' <=> Receiver' /\ Polled' /\ Attributes'
BY DEF TypeOK, Receiver, Polled, Attributes, Paths, Snapshot

\* A poll in progress has a copy, and no other has.
LEMMA PolledCases ==
    ASSUME TypeOK
    PROVE  (snap.busy => snap \in Snapshot) /\ (~snap.busy => snap = Idle)
<1>1. snap = Idle \/ snap \in Snapshot
  BY TypeParts DEF Polled
<1>2. snap = Idle => ~snap.busy
  BY DEF Idle
<1>3. snap \in Snapshot => snap.busy
  BY DEF Snapshot
<1> QED BY <1>1, <1>2, <1>3

\* The constants are numbers.
LEMMA Numbers ==
    /\ Stale \in Nat /\ Stale > 0 /\ MaxLimit \in Nat /\ MaxLimit > 0
    /\ Rate \in Nat /\ PollGap \in Nat /\ PollGap > 0
BY ServiceAssumption

\* The process as constructed satisfies the inductive invariant.
LEMMA InitIInv == Init => IInv
<1> SUFFICES ASSUME Init PROVE IInv
  OBVIOUS
<1>1. Zero \in Limits /\ \A p \in Perm : Zero[p] = 0
  BY Numbers DEF Zero, Limits
<1>2. TypeOK
  <2>1. Receiver
    <3>1. R!Nothing \in [Slot -> 0..Stale] /\ R!NoGrant \in [Slot -> SUBSET Perm]
      BY Numbers DEF R!Nothing, R!NoGrant
    <3> QED BY <3>1, Zenon DEF Init, Receiver, R!Init
  <2>2. Polled
    BY DEF Init, Polled
  <2>3. Attributes
    <3>1. pub \in Paths /\ previous \in [known : BOOLEAN, limit : Limits]
      BY <1>1 DEF Init, Paths, NoLimits
    <3>2. /\ lastCcl \in 0..MaxLimit
          /\ elapsed \in 0..ElapsedCap /\ wait \in 0..PollGap /\ dark \in 0..DarkCap
      BY Numbers DEF Init, ElapsedCap, DarkCap
    <3>3. hasReady \in BOOLEAN
      BY DEF Init
    <3> QED BY <3>1, <3>2, <3>3 DEF Attributes
  <2> QED BY <2>1, <2>2, <2>3, TypeParts
<1>3. PermissionMatchesLimit /\ ReadyRemembered /\ RampFollows
  BY <1>1 DEF Init, PermissionMatchesLimit, ReadyRemembered, RampFollows, NoLimits
<1>4. LossFollowed
  BY Numbers DEF Init, LossFollowed, Idle
<1> QED BY <1>2, <1>3, <1>4 DEF IInv

\* The receiver keeps the types of what it promises.
LEMMA ReceiverType ==
    ASSUME Receiver,
           R!Complete \/ R!Renew \/ R!Restrict \/ R!Refuse \/ R!Drop \/ R!Tick
    PROVE  Receiver'
<1>1. CASE R!Complete
  <2>1. life' \in [Slot -> 0..Stale]
    BY <1>1, Numbers DEF R!Complete
  <2> QED BY <1>1, <2>1, Zenon DEF Receiver, R!Complete
<1>2. CASE R!Renew
  BY <1>2 DEF Receiver, R!Renew
<1>3. CASE R!Restrict
  BY <1>3 DEF Receiver, R!Restrict
<1>4. CASE R!Refuse
  BY <1>4 DEF Receiver, R!Refuse
<1>5. CASE R!Drop
  <2>1. R!Nothing \in [Slot -> 0..Stale] /\ R!NoGrant \in [Slot -> SUBSET Perm]
    BY Numbers DEF R!Nothing, R!NoGrant
  <2> QED BY <1>5, <2>1, Zenon DEF Receiver, R!Drop
<1>6. CASE R!Tick
  <2>1. life' = [s \in Slot |-> IF life[s] = 0 THEN 0 ELSE life[s] - 1]
    BY <1>6 DEF R!Tick
  <2>2. \A s \in Slot : life[s] \in 0..Stale
    BY DEF Receiver
  <2>3. life' \in [Slot -> 0..Stale]
    BY <2>1, <2>2, Numbers
  <2> QED BY <1>6, <2>3 DEF Receiver, R!Tick
<1> QED BY <1>1, <1>2, <1>3, <1>4, <1>5, <1>6

\* A step that leaves the paths alone relaxes nothing.
LEMMA UnchangedSafe ==
    ASSUME Attributes, UNCHANGED pub
    PROVE  StepSafe
<1>1. /\ \A p \in Perm : pub.limit[p] \in 0..MaxLimit
      /\ pub'.limit = pub.limit /\ elapsed \in Nat /\ "charging" \in Perm
  BY Numbers DEF Attributes, Paths, Limits, Perm, ElapsedCap
<1>2. Rate * elapsed \in Nat
  BY <1>1, Numbers
<1> QED BY <1>1, <1>2, Numbers DEF StepSafe

\* Messages change nothing on D-Bus, and usable evidence ends the dark.
LEMMA ReceiveSafe ==
    ASSUME IInv, Receive
    PROVE  IInv' /\ StepSafe
<1>0. Receiver /\ Polled /\ Attributes
  BY TypeParts DEF IInv
<1>1. Receiver' /\ UNCHANGED <<snap, pub, hasReady, previous, lastCcl, elapsed, wait>>
  BY <1>0, ReceiverType DEF Receive, service
<1>2. dark' = IF Usable' THEN 0 ELSE dark
  BY DEF Receive
<1>3. TypeOK'
  <2>1. Attributes'
    BY <1>0, <1>1, <1>2, Numbers DEF Attributes, DarkCap
  <2>2. Polled'
    BY <1>0, <1>1 DEF Polled
  <2> QED BY <1>1, <2>1, <2>2, TypeParts
<1>4. LossFollowed'
  BY <1>0, <1>1, <1>2, Numbers DEF IInv, Attributes, LossFollowed, DarkCap
<1>5. StepSafe
  BY <1>0, <1>1, UnchangedSafe
<1> QED
  BY <1>1, <1>3, <1>4, <1>5
     DEF IInv, PermissionMatchesLimit, ReadyRemembered, RampFollows

\* Time changes nothing on D-Bus; a loss and the poll's waiting age together.
LEMMA TickSafe ==
    ASSUME IInv, Tick
    PROVE  IInv' /\ StepSafe
<1>0. Receiver /\ Polled /\ Attributes
  BY TypeParts DEF IInv
<1>1. Receiver' /\ UNCHANGED <<snap, pub, hasReady, previous, lastCcl>>
  BY <1>0, ReceiverType DEF Tick
<1>2. /\ wait < PollGap /\ wait' = wait + 1
      /\ elapsed' = Min2(elapsed + 1, ElapsedCap)
      /\ dark' = IF Usable' THEN 0 ELSE Min2(dark + 1, DarkCap)
  BY DEF Tick
<1>3. TypeOK'
  <2>1. Attributes'
    BY <1>0, <1>1, <1>2, Numbers DEF Attributes, DarkCap, ElapsedCap, Min2
  <2>2. Polled'
    BY <1>0, <1>1 DEF Polled
  <2> QED BY <1>1, <2>1, <2>2, TypeParts
<1>4. LossFollowed'
  BY <1>0, <1>1, <1>2, Numbers DEF IInv, Attributes, LossFollowed, DarkCap, Min2
<1>5. StepSafe
  BY <1>0, <1>1, UnchangedSafe
<1> QED
  BY <1>1, <1>3, <1>4, <1>5
     DEF IInv, PermissionMatchesLimit, ReadyRemembered, RampFollows

\* A complete copy is only taken of usable evidence.
LEMMA TakeSnapshotSafe ==
    ASSUME IInv, TakeSnapshot
    PROVE  IInv' /\ StepSafe
<1>1. PICK valid \in SUBSET Alive : snap' = Aggregate(valid)
  BY DEF TakeSnapshot
<1>2. /\ wait' = 0 /\ ~snap.busy
      /\ UNCHANGED <<mode, life, grant, partial, pub, hasReady, previous, lastCcl,
                     elapsed, dark>>
  BY DEF TakeSnapshot
<1>0. Receiver /\ Polled /\ Attributes
  BY TypeParts DEF IInv
<1>3. snap' \in Snapshot /\ (snap'.complete => Usable)
  BY <1>0, <1>1 DEF Aggregate, Snapshot, Alive, Usable, Receiver
<1>4. TypeOK'
  <2>1. Receiver' /\ Attributes'
    BY <1>0, <1>2, Numbers DEF Receiver, Attributes
  <2>2. Polled'
    BY <1>3 DEF Polled
  <2> QED BY <2>1, <2>2, TypeParts
<1>5. LossFollowed'
  <2>1. Usable' <=> Usable
    BY <1>2 DEF Usable, Alive
  <2>2. snap'.busy
    BY <1>3 DEF Snapshot
  <2> QED
    BY <1>0, <1>2, <1>3, <2>1, <2>2, Numbers DEF IInv, Attributes, LossFollowed, DarkCap
<1>6. StepSafe
  BY <1>0, <1>2, UnchangedSafe
<1> QED
  BY <1>2, <1>4, <1>5, <1>6
     DEF IInv, PermissionMatchesLimit, ReadyRemembered, RampFollows

\* calculate() stays within the configured maximum, is zero where a permission
\* is missing, and raises the charge limit no faster than the ramp.
LEMMA CalculateBounds ==
    ASSUME IInv, NEW ceiling \in Limits
    PROVE  /\ Calculate(ceiling) \in Limits
           /\ \A p \in Perm : p \notin snap.allow => Calculate(ceiling)[p] = 0
           /\ Calculate(ceiling)["charging"] <= lastCcl + Rate * elapsed
<1>1. /\ ceiling["charging"] \in 0..MaxLimit /\ ceiling["discharging"] \in 0..MaxLimit
      /\ lastCcl \in 0..MaxLimit /\ elapsed \in Nat
  BY Numbers DEF Limits, Perm, IInv, TypeOK, ElapsedCap
<1>2. Rate * elapsed \in Nat
  BY <1>1, Numbers
<1>3. /\ Ramped(ceiling["charging"]) \in 0..MaxLimit
      /\ Ramped(ceiling["charging"]) <= lastCcl + Rate * elapsed
  <2> DEFINE step == Rate * elapsed
  <2> HIDE DEF step
  <2>1. step \in Nat
    BY <1>2 DEF step
  <2>2. Ramped(ceiling["charging"]) =
          IF ceiling["charging"] > lastCcl
          THEN IF ceiling["charging"] < lastCcl + step
               THEN ceiling["charging"] ELSE lastCcl + step
          ELSE ceiling["charging"]
    BY DEF Ramped, Min2, step
  <2>3. /\ Ramped(ceiling["charging"]) \in 0..MaxLimit
        /\ Ramped(ceiling["charging"]) <= lastCcl + step
    BY <1>1, <2>1, <2>2, Numbers
  <2> QED BY <2>3 DEF step
<1>4. \A p \in Perm : Calculate(ceiling)[p] \in 0..MaxLimit
  BY <1>1, <1>3, Numbers DEF Calculate, Perm
<1>5. Calculate(ceiling) \in Limits
  BY <1>4 DEF Calculate, Limits
<1>6. Calculate(ceiling)["charging"] <= lastCcl + Rate * elapsed
  BY <1>1, <1>2, <1>3 DEF Calculate, Perm
<1> QED BY <1>5, <1>6 DEF Calculate

\* _apply_partial_frame_limits only lowers, and for a partial copy of a process
\* that was ready, at most to what is on D-Bus.
LEMMA HeldBounds ==
    ASSUME IInv, NEW limit \in Limits
    PROVE  /\ HeldLimits(limit) \in Limits
           /\ \A p \in Perm : HeldLimits(limit)[p] <= limit[p]
           /\ hasReady /\ snap.partial =>
                 \A p \in Perm : HeldLimits(limit)[p] <= pub.limit[p]
<1>1. previous.limit \in Limits /\ pub.limit \in Limits
  BY DEF IInv, TypeOK
<1>2. \A p \in Perm : limit[p] \in 0..MaxLimit /\ previous.limit[p] \in 0..MaxLimit
  BY <1>1 DEF Limits
<1>3. \A p \in Perm : HeldLimits(limit)[p] \in 0..MaxLimit /\ HeldLimits(limit)[p] <= limit[p]
  BY <1>2, Numbers DEF HeldLimits, Min2
<1>4. HeldLimits(limit) \in Limits
  BY <1>3 DEF HeldLimits, Limits
<1>5. ASSUME hasReady, snap.partial, NEW p \in Perm
      PROVE  HeldLimits(limit)[p] <= pub.limit[p]
  <2>1. previous.known /\ previous.limit = pub.limit
    BY <1>5 DEF IInv, ReadyRemembered, Known
  <2>2. HeldLimits(limit)[p] = Min2(limit[p], pub.limit[p])
    BY <1>5, <2>1 DEF HeldLimits
  <2> QED BY <1>2, <2>1, <2>2, Numbers DEF Min2
<1> QED BY <1>3, <1>4, <1>5

\* A complete snapshot that is published in full.
LEMMA PublishReadySafe ==
    ASSUME IInv, snap.busy, snap.complete, NEW ceiling \in Limits,
           PublishReady(Calculate(ceiling)), snap' = Idle, wait' = 0,
           UNCHANGED <<mode, life, grant, partial, dark>>
    PROVE  IInv' /\ StepSafe
<1> DEFINE c == Calculate(ceiling)
           l == HeldLimits(c)
<1>1. /\ c \in Limits /\ c["charging"] <= lastCcl + Rate * elapsed
      /\ \A p \in Perm : p \notin snap.allow => c[p] = 0
  BY CalculateBounds
<1>2. /\ l \in Limits /\ \A p \in Perm : l[p] <= c[p]
      /\ hasReady /\ snap.partial => \A p \in Perm : l[p] <= pub.limit[p]
  BY <1>1, HeldBounds
<1>3. /\ pub' = ReadyPaths(l) /\ hasReady' = TRUE /\ previous' = Known(l)
      /\ lastCcl' = l["charging"] /\ elapsed' = 0
  BY DEF PublishReady
<1> HIDE DEF c, l
<1>4. /\ "charging" \in Perm /\ "discharging" \in Perm
      /\ \A p \in Perm : /\ l[p] \in 0..MaxLimit /\ c[p] \in 0..MaxLimit
                         /\ p \notin snap.allow => l[p] = 0
  <2>1. \A p \in Perm : l[p] \in 0..MaxLimit /\ c[p] \in 0..MaxLimit
    BY <1>1, <1>2 DEF Limits
  <2> QED BY <1>1, <1>2, <2>1, Numbers DEF Perm
<1>0. Receiver /\ Polled /\ Attributes
  BY TypeParts DEF IInv
<1>5. snap \in Snapshot
  BY PolledCases DEF IInv
<1>6. /\ pub'.limit = l /\ pub'.connected /\ pub'.allow = {p \in snap.allow : l[p] > 0}
      /\ pub'.state \in {"READY", "DEGRADED", "PROTECTION"}
      /\ pub' \in Paths
  BY <1>2, <1>3, <1>5 DEF ReadyPaths, TelemetryState, Snapshot, Paths
<1>7. TypeOK'
  <2>1. Receiver' /\ Polled'
    BY <1>0 DEF Receiver, Polled
  <2>2. Attributes'
    BY <1>0, <1>2, <1>3, <1>4, <1>6, Numbers DEF Attributes, Known, ElapsedCap
  <2> QED BY <2>1, <2>2, TypeParts
<1>8. PermissionMatchesLimit'
  BY <1>4, <1>5, <1>6, Numbers DEF PermissionMatchesLimit, Snapshot
<1>9. ReadyRemembered' /\ RampFollows'
  BY <1>3, <1>6 DEF ReadyRemembered, RampFollows, Known
<1>10. LossFollowed'
  <2>1. Usable' <=> Usable
    BY DEF Usable, Alive
  <2>2. ~snap'.busy
    BY DEF Idle
  <2> QED
    BY <1>0, <2>1, <2>2, Numbers DEF IInv, Attributes, LossFollowed, DarkCap
<1>11. StepSafe
  <2>1. hasReady /\ snap.partial => \A p \in Perm : pub'.limit[p] <= pub.limit[p]
    BY <1>2, <1>6
  <2>2. pub.connected => l["charging"] <= pub.limit["charging"] + Rate * elapsed
    <3> DEFINE step == Rate * elapsed
    <3>1. step \in Nat
      BY Numbers DEF IInv, TypeOK, ElapsedCap
    <3> HIDE DEF step
    <3>2. c["charging"] <= lastCcl + step /\ l["charging"] <= c["charging"] /\ lastCcl \in Nat
      BY <1>1, <1>2, <1>4, Numbers DEF step, IInv, TypeOK
    <3>3. pub.connected => l["charging"] <= pub.limit["charging"] + step
      BY <1>4, <3>1, <3>2, Numbers DEF IInv, RampFollows
    <3> QED BY <3>3 DEF step
  <2> QED BY <1>6, <2>1, <2>2 DEF StepSafe
<1> QED BY <1>7, <1>8, <1>9, <1>10, <1>11 DEF IInv

\* Every way to end an update without a complete publication withdraws.
LEMMA SetUnavailableSafe ==
    ASSUME IInv, snap.busy, NEW ready \in BOOLEAN, hasReady => ready,
           NEW shown \in Paths,
           ~ready => shown = pub,
           SetUnavailable(ready, shown), snap' = Idle, wait' = 0,
           lastCcl' \in 0..MaxLimit, elapsed' \in 0..ElapsedCap,
           UNCHANGED <<mode, life, grant, partial, dark>>
    PROVE  IInv' /\ StepSafe
<1>1. Zero \in Limits /\ \A p \in Perm : Zero[p] = 0
  BY Numbers DEF Zero, Limits
<1>2. /\ hasReady' = ready /\ previous' = IF ready THEN Known(Zero) ELSE previous
      /\ ~pub'.connected /\ pub'.limit = Zero /\ pub'.allow = {} /\ ~pub'.dc
      /\ pub'.state = IF ready THEN "STALE" ELSE "INITIALIZING"
      /\ pub'.cvl = shown.cvl /\ pub'.temps = shown.temps
      /\ pub' \in Paths
  BY <1>1 DEF SetUnavailable, Paths
<1>0. Receiver /\ Polled /\ Attributes
  BY TypeParts DEF IInv
<1>3. TypeOK'
  <2>1. Receiver' /\ Polled'
    BY <1>0 DEF Receiver, Polled
  <2>2. Attributes'
    BY <1>0, <1>1, <1>2, Numbers DEF Attributes, Known
  <2> QED BY <2>1, <2>2, TypeParts
<1>4. PermissionMatchesLimit' /\ RampFollows'
  BY <1>1, <1>2 DEF PermissionMatchesLimit, RampFollows
<1>5. ReadyRemembered'
  <2>1. CASE ready
    BY <1>2, <2>1 DEF ReadyRemembered, Known
  <2>2. CASE ~ready
    BY <1>2, <2>2 DEF IInv, ReadyRemembered
  <2> QED BY <2>1, <2>2
<1>6. LossFollowed'
  <2>1. Usable' <=> Usable
    BY DEF Usable, Alive
  <2>2. ~snap'.busy
    BY DEF Idle
  <2> QED BY <1>2, <2>1, <2>2 DEF IInv, LossFollowed
<1>7. StepSafe
  <2>1. \A p \in Perm : pub.limit[p] \in 0..MaxLimit
    BY DEF IInv, TypeOK, Limits
  <2> QED BY <1>1, <1>2, <2>1, Numbers DEF StepSafe
<1> QED BY <1>3, <1>4, <1>5, <1>6, <1>7 DEF IInv

\* One update, finished.
LEMMA PublishSafe ==
    ASSUME IInv, Publish
    PROVE  IInv' /\ StepSafe
<1>1. CASE snap.complete
  <2>1. PICK ceiling \in Limits : PublishReady(Calculate(ceiling))
    BY <1>1 DEF Publish
  <2> QED BY <1>1, <2>1, PublishReadySafe DEF Publish
<1>2. CASE ~snap.complete
  <2>1. /\ SetUnavailable(hasReady, pub) /\ UNCHANGED <<lastCcl, elapsed>>
        /\ snap.busy /\ snap' = Idle /\ wait' = 0
        /\ UNCHANGED <<mode, life, grant, partial, dark>>
    BY <1>2 DEF Publish
  <2>2. /\ hasReady \in BOOLEAN
        /\ pub \in Paths
        /\ lastCcl' \in 0..MaxLimit /\ elapsed' \in 0..ElapsedCap
    BY <2>1, TypeParts DEF IInv, Attributes
  <2> QED BY <2>1, <2>2, SetUnavailableSafe
<1> QED BY <1>1, <1>2

\* One update that raises, wherever it does.
LEMMA PublishFailsSafe ==
    ASSUME IInv, PublishFails
    PROVE  IInv' /\ StepSafe
<1>1. /\ snap.busy /\ snap' = Idle /\ wait' = 0
      /\ UNCHANGED <<mode, life, grant, partial, dark>>
  BY DEF PublishFails
<1>2. hasReady \in BOOLEAN /\ pub \in Paths /\ lastCcl \in 0..MaxLimit /\ elapsed \in 0..ElapsedCap
  BY TypeParts DEF IInv, Attributes
<1>3. CASE FailEarly
  BY <1>1, <1>2, <1>3, SetUnavailableSafe DEF FailEarly
<1>4. CASE FailMeasuring
  <2>1. PICK temps \in {pub.temps, TRUE} : SetUnavailable(TRUE, [pub EXCEPT !.temps = temps])
    BY <1>4 DEF FailMeasuring
  <2>2. [pub EXCEPT !.temps = temps] \in Paths /\ UNCHANGED <<lastCcl, elapsed>>
    BY <1>2, <1>4 DEF FailMeasuring, Paths
  <2> QED BY <1>1, <1>2, <2>1, <2>2, SetUnavailableSafe
<1>5. CASE FailLimiting
  <2>1. PICK cvl \in {pub.cvl, TRUE} :
          SetUnavailable(TRUE, [pub EXCEPT !.temps = TRUE, !.cvl = cvl])
    BY <1>5 DEF FailLimiting
  <2>2. PICK ceiling \in Limits : lastCcl' = Calculate(ceiling)["charging"]
    BY <1>5 DEF FailLimiting
  <2>3. Calculate(ceiling) \in Limits
    BY CalculateBounds
  <2>4. lastCcl' \in 0..MaxLimit /\ elapsed' \in 0..ElapsedCap
    BY <1>5, <2>2, <2>3, Numbers DEF FailLimiting, Limits, Perm, ElapsedCap
  <2>5. [pub EXCEPT !.temps = TRUE, !.cvl = cvl] \in Paths
    BY <1>2 DEF Paths
  <2> QED BY <1>1, <2>1, <2>4, <2>5, SetUnavailableSafe
<1> QED BY <1>3, <1>4, <1>5 DEF PublishFails

\* Every step keeps the invariant, and none relaxes a held limit or outruns the
\* ramp.
LEMMA NextIInv ==
    ASSUME IInv, [Next]_vars
    PROVE  IInv' /\ StepSafe
<1>1. CASE Receive BY <1>1, ReceiveSafe
<1>2. CASE Tick BY <1>2, TickSafe
<1>3. CASE TakeSnapshot BY <1>3, TakeSnapshotSafe
<1>4. CASE Publish BY <1>4, PublishSafe
<1>5. CASE PublishFails BY <1>5, PublishFailsSafe
<1>6. CASE UNCHANGED vars
  <2>1. UNCHANGED <<mode, life, grant, partial, snap, pub, hasReady, previous, lastCcl,
                    elapsed, wait, dark>>
    BY <1>6 DEF vars, service
  <2>2. Receiver /\ Polled /\ Attributes
    BY TypeParts DEF IInv
  <2>3. Receiver' /\ Polled' /\ Attributes'
    BY <2>1, <2>2 DEF Receiver, Polled, Attributes
  <2>4. (Usable' <=> Usable) /\ UNCHANGED <<snap, pub, dark, wait>>
    BY <2>1 DEF Usable, Alive
  <2>5. LossFollowed'
    BY <2>4 DEF IInv, LossFollowed
  <2>6. PermissionMatchesLimit' /\ ReadyRemembered' /\ RampFollows'
    BY <2>1 DEF IInv, PermissionMatchesLimit, ReadyRemembered, RampFollows
  <2> QED BY <2>1, <2>2, <2>3, <2>5, <2>6, TypeParts, UnchangedSafe DEF IInv
<1> QED BY <1>1, <1>2, <1>3, <1>4, <1>5, <1>6 DEF Next, Poll

\* The service's attributes and paths keep their types.
THEOREM TypeCorrect == Spec => []TypeOK
<1>1. IInv => TypeOK
  BY DEF IInv
<1> QED BY InitIInv, NextIInv, <1>1, PTL DEF Spec

\* A permission is on D-Bus exactly while its current limit is positive, and a
\* battery shown as disconnected permits nothing, also after failed updates.
THEOREM PermissionsAgree == Spec => []PermissionMatchesLimit
<1>1. IInv => PermissionMatchesLimit
  BY DEF IInv
<1> QED BY InitIInv, NextIInv, <1>1, PTL DEF Spec

\* For every number of BMS and every polling interval: three polling steps after
\* the evidence of any BMS is lost, D-Bus shows a disconnected battery.
THEOREM LossReachesBus == Spec => []FailClosedInTime
<1>1. IInv => FailClosedInTime
  <2> SUFFICES ASSUME IInv PROVE dark = DarkCap => ~pub.connected
    BY DEF FailClosedInTime
  <2>1. pub.connected => dark <= 2 * PollGap + wait \/ dark <= PollGap + wait
    BY DEF IInv, LossFollowed
  <2> QED BY <2>1, Numbers DEF IInv, TypeOK, DarkCap
<1> QED BY InitIInv, NextIInv, <1>1, PTL DEF Spec

\* A process that never had a complete snapshot advertises nothing.
THEOREM NothingBeforeReady == Spec => []InitializingAdvertisesNothing
<1>1. IInv => InitializingAdvertisesNothing
  BY DEF IInv, ReadyRemembered, InitializingAdvertisesNothing
<1> QED BY InitIInv, NextIInv, <1>1, PTL DEF Spec

\* No update from a partial snapshot raises a limit that is on D-Bus.
THEOREM PartialOnlyTightens == Spec => PartialNeverRelaxes
<1>1. IInv /\ [Next]_vars =>
        [hasReady /\ snap.busy /\ snap.partial =>
            \A p \in Perm : pub'.limit[p] <= pub.limit[p]]_vars
  BY NextIInv DEF StepSafe
<1> QED BY InitIInv, NextIInv, <1>1, PTL DEF Spec, PartialNeverRelaxes

\* Between available snapshots the charge limit rises no faster than the ramp.
THEOREM RampRespected == Spec => RampWhileConnected
<1>1. IInv /\ [Next]_vars =>
        [pub.connected /\ pub'.connected =>
            pub'.limit["charging"] <= pub.limit["charging"] + Rate * elapsed]_vars
  BY NextIInv DEF StepSafe
<1> QED BY InitIInv, NextIInv, <1>1, PTL DEF Spec, RampWhileConnected
=============================================================================
