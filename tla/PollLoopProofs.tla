---------------------------- MODULE PollLoopProofs ----------------------------
(***************************************************************************)
(* The circuit breaker's safety for every timeout, threshold and cooldown. *)
(***************************************************************************)
EXTENDS PollLoop, TLAPS

\* A calculation that raised has its withdrawal in the transaction by the time
\* the transaction ends, and the wall clock is ahead of the true one by no more
\* than it was set forward.
IInv ==
    /\ TypeOK
    /\ NoStrayAlarm
    /\ pc \in {"lock", "publish"} => raised = "none"
    /\ pc = "failed" => raised # "none"
    /\ pc = "flush" /\ raised = "error" => draft = "blocked"
    /\ openWall <= openTrue + ahead

\* The flags and texts, and the numbers, of TypeOK.
Flags ==
    /\ pc \in InCall \cup {"starting", "idle", "stopped"}
    /\ raised \in Raised
    /\ draft \in {"none", "permit", "blocked"} /\ pub \in {"none", "permit", "blocked"}
    /\ quit \in BOOLEAN
    /\ lock \in BOOLEAN /\ busHung \in BOOLEAN /\ erring \in BOOLEAN

Numbers ==
    /\ timer \in Off..CallTimeout /\ failures \in 0..Threshold
    /\ openWall \in WallAge /\ openTrue \in 0..Cooldown /\ ahead \in 0..Cooldown
    /\ openWall <= openTrue + ahead
    /\ clockSet \in 0..ClockSteps

\* TypeOK is its two halves.
LEMMA Halves == Flags /\ Numbers => TypeOK
BY DEF Flags, Numbers, TypeOK

\* Start-up: nothing is armed and nothing has been published.
LEMMA InitIInv == Init => IInv
<1> SUFFICES ASSUME Init PROVE IInv
  OBVIOUS
<1>1. Flags
  BY DEF Init, Flags, InCall, Raised
<1>2. Numbers
  BY PollAssumption DEF Init, Numbers, Off, WallAge
<1> QED BY <1>1, <1>2, Halves DEF Init, IInv, Numbers, NoStrayAlarm, InCall

\* A clock set forward from v to w is ahead by w - v more, up to the cut-off.
LEMMA AheadCounts ==
    ASSUME NEW v \in Int, NEW w \in Int, NEW t \in Nat, NEW a \in Nat, Cooldown \in Nat,
           w > v, w <= Cooldown, v <= t + a
    PROVE  /\ AtMostCooldown(a + (w - v)) \in 0..Cooldown
           /\ w <= t + AtMostCooldown(a + (w - v))
BY DEF AtMostCooldown

\* The timers and counters stay in their ranges.
LEMMA NumbersKept ==
    ASSUME IInv, [Next]_vars
    PROVE  Numbers'
<1>1. /\ timer \in -1..CallTimeout /\ failures \in 0..Threshold
      /\ openWall \in -Cooldown..Cooldown /\ openTrue \in 0..Cooldown /\ ahead \in 0..Cooldown
      /\ openWall <= openTrue + ahead /\ clockSet \in 0..ClockSteps
  BY DEF IInv, TypeOK, Off, WallAge
<1>2. /\ CallTimeout \in Nat \ {0} /\ Threshold \in Nat \ {0} /\ Cooldown \in Nat \ {0}
      /\ ClockSteps \in Nat
  BY PollAssumption
<1>3. CASE UNCHANGED <<timer, breaker, clockSet>>
  BY <1>1, <1>3 DEF Numbers, breaker, Off, WallAge
<1>4. CASE Enter
  BY <1>1, <1>2, <1>4 DEF Enter, Arm, Numbers, breaker, Off, WallAge
<1>5. CASE Return
  <2>1. /\ timer' = -1 /\ clockSet' = clockSet
        /\ Recover \/ RecordFailure \/ UNCHANGED breaker
    BY <1>5 DEF Return, Disarm, Off, IInv, TypeOK, Raised
  <2> QED BY <1>1, <1>2, <2>1 DEF Recover, RecordFailure, breaker, Numbers, Off, WallAge
<1>6. CASE Alarm
  BY <1>1, <1>2, <1>6 DEF Alarm, Numbers, breaker, Off, WallAge
<1>7. CASE Restart
  BY <1>1, <1>2, <1>7 DEF Restart, Numbers, Off, WallAge
<1>8. CASE ClockIsSet
  <2>1. /\ clockSet' \in 0..ClockSteps /\ UNCHANGED <<timer, failures, openTrue>>
        /\ openWall' \in -Cooldown..Cooldown
        /\ ahead' = IF openWall' > openWall THEN AtMostCooldown(ahead + (openWall' - openWall))
                    ELSE ahead
    BY <1>1, <1>2, <1>8 DEF ClockIsSet, WallAge
  <2>2. ahead' \in 0..Cooldown /\ openWall' <= openTrue + ahead'
    <3>1. CASE openWall' > openWall
      <4>1. /\ Cooldown \in Nat /\ openWall \in Int /\ openTrue \in Nat /\ ahead \in Nat
            /\ openWall' \in Int /\ openWall' <= Cooldown /\ openWall <= openTrue + ahead
        BY <1>1, <1>2, <2>1
      <4>2. ahead' = AtMostCooldown(ahead + (openWall' - openWall))
        BY <2>1, <3>1
      <4> QED BY <3>1, <4>1, <4>2, AheadCounts
    <3>2. CASE ~(openWall' > openWall)
      BY <1>1, <1>2, <2>1, <3>2
    <3> QED BY <3>1, <3>2
  <2> QED BY <1>1, <2>1, <2>2 DEF Numbers, Off, WallAge
<1>9. CASE Tick
  BY <1>1, <1>2, <1>9 DEF Tick, AtMostCooldown, Numbers, Off, WallAge
<1> QED
  BY <1>3, <1>4, <1>5, <1>6, <1>7, <1>8, <1>9
     DEF Next, Main, TakeSnapshot, PublishSnapshot, HandleFailure, Flush, Start, Stop,
         Skip, Sigterm, World, vars, breaker

\* What every step does to the program counter, the timer and the exception.
LEMMA ControlKept ==
    ASSUME IInv, [Next]_vars
    PROVE  /\ Flags' /\ NoStrayAlarm'
           /\ pc' \in {"lock", "publish"} => raised' = "none"
           /\ pc' = "failed" => raised' # "none"
           /\ pc' = "flush" /\ raised' = "error" => draft' = "blocked"
<1>1. /\ Flags /\ NoStrayAlarm
      /\ pc \in {"lock", "publish"} => raised = "none"
      /\ pc = "failed" => raised # "none"
      /\ pc = "flush" /\ raised = "error" => draft = "blocked"
  BY DEF IInv, TypeOK, Flags
<1> USE DEF Flags, NoStrayAlarm, InCall, Raised, world
<1>2. CASE Enter
  BY <1>1, <1>2 DEF Enter
<1>3. CASE TakeSnapshot
  BY <1>1, <1>3 DEF TakeSnapshot
<1>4. CASE PublishSnapshot
  BY <1>1, <1>4 DEF PublishSnapshot
<1>5. CASE HandleFailure
  BY <1>1, <1>5 DEF HandleFailure
<1>6. CASE Flush
  BY <1>1, <1>6 DEF Flush
<1>7. CASE Return
  BY <1>1, <1>7 DEF Return, Disarm
<1>8. CASE Alarm
  <2>1. pc \in {"lock", "publish", "failed", "flush", "done"} /\ timer' = Off
    BY <1>1, <1>8 DEF Alarm, Off
  <2> QED BY <1>1, <1>8, <2>1 DEF Alarm
<1>9. CASE Start \/ Stop \/ Restart
  BY <1>1, <1>9 DEF Start, Stop, Restart
<1>10. CASE Sigterm
  BY <1>1, <1>10 DEF Sigterm
<1>11. CASE World
  <2>1. lock' \in BOOLEAN /\ busHung' \in BOOLEAN /\ erring' \in BOOLEAN
    BY <1>1, <1>11, Zenon DEF World, LockChanges, BusChanges, DataChanges
  <2>2. UNCHANGED <<pc, raised, draft, pub, timer, quit>>
    BY <1>11 DEF World
  <2> QED BY <1>1, <2>1, <2>2
<1>12. CASE ClockIsSet \/ UNCHANGED vars
  BY <1>1, <1>12 DEF ClockIsSet, vars
<1>13. CASE Tick
  BY <1>1, <1>13 DEF Tick
<1> QED
  BY <1>2, <1>3, <1>4, <1>5, <1>6, <1>7, <1>8, <1>9, <1>10, <1>11, <1>12, <1>13
     DEF Next, Main, Skip

\* Every step of the main thread, of the signals and of the world keeps IInv.
LEMMA NextIInv == IInv /\ [Next]_vars => IInv'
<1>1. Flags' /\ Numbers' => TypeOK'
  BY DEF Flags, Numbers, TypeOK
<1> QED BY <1>1, NumbersKept, ControlKept DEF IInv, Numbers

\* The main loop's variables keep their ranges.
THEOREM TypeCorrect == Spec => []TypeOK
<1>1. IInv => TypeOK
  BY DEF IInv
<1> QED BY InitIInv, NextIInv, <1>1, PTL DEF Spec

\* For every timeout: once call() is left, its alarm cannot fire any more.
THEOREM AlarmsStayInside == Spec => []NoStrayAlarm
<1>1. IInv => NoStrayAlarm
  BY DEF IInv
<1> QED BY InitIInv, NextIInv, <1>1, PTL DEF Spec

\* An update that raised has published the withdrawal when it is left.
THEOREM FailuresWithdraw == Spec => FailureWithdraws
<1>1. ASSUME IInv, [Next]_vars
      PROVE  pc = "flush" /\ pc' = "done" /\ raised' = "error" => pub' = "blocked"
  <2> SUFFICES ASSUME pc = "flush", pc' = "done", raised' = "error"
               PROVE  pub' = "blocked"
    OBVIOUS
  <2>1. Flush
    BY <1>1 DEF Next, Main, Enter, TakeSnapshot, PublishSnapshot, HandleFailure, Return,
                Start, Stop, Skip, Alarm, Sigterm, Restart, World, ClockIsSet, Tick, vars
  <2> QED BY <1>1, <2>1 DEF Flush, IInv
<1> QED BY InitIInv, NextIInv, <1>1, PTL DEF Spec, FailureWithdraws

\* With a wall clock that is set back and forward at any time by any amount, a
\* tripped breaker is probed early by no more than the clock was set forward.
THEOREM ProbesSpaced == Spec => ProbesAreSpaced
<1>1. ASSUME IInv, [Next]_vars
      PROVE  pc = "idle" /\ pc' = "lock" /\ failures >= Threshold =>
                 openTrue + ahead >= Cooldown
  <2> SUFFICES ASSUME pc = "idle", pc' = "lock", failures >= Threshold
               PROVE  openTrue + ahead >= Cooldown
    OBVIOUS
  <2>1. Enter
    BY <1>1 DEF IInv, NoStrayAlarm, InCall, Off, Next, Main, Flush, TakeSnapshot,
                PublishSnapshot, HandleFailure, Return,
                Start, Stop, Skip, Alarm, Sigterm, Restart, World, ClockIsSet, Tick, vars
  <2>2. openWall >= Cooldown
    BY <1>1, <2>1, PollAssumption DEF Enter, State, IInv, TypeOK, WallAge
  <2> QED BY <1>1, <2>2, PollAssumption DEF IInv, TypeOK, WallAge
<1> QED BY InitIInv, NextIInv, <1>1, PTL DEF Spec, ProbesAreSpaced
=============================================================================
