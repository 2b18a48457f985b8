------------------------------- MODULE PollLoop -------------------------------
(***************************************************************************)
(* The main thread: the GLib loop that polls DbusAggregateService.update   *)
(* under a CircuitBreaker (dbus_mqtt_battery/dbus_utils.py), from start-up *)
(* to SIGTERM.  update() takes _data_lock, which the MQTT thread also      *)
(* takes, and ends by handing its changes to D-Bus; either may take long.  *)
(*                                                                         *)
(* SIGALRM interrupts the main thread wherever it is: the steps below are  *)
(* the places where that makes a difference.                               *)
(***************************************************************************)
EXTENDS Integers

CONSTANTS
    CallTimeout,   \* CALL_TIMEOUT_S, in model time units
    Threshold,     \* BREAKER_FAILURE_THRESHOLD
    Cooldown,      \* BREAKER_COOLDOWN_S, in model time units
    ClockSteps     \* bound: how often the wall clock is set

ASSUME PollAssumption ==
    /\ CallTimeout \in Nat \ {0} /\ Threshold \in Nat \ {0} /\ Cooldown \in Nat \ {0}
    /\ ClockSteps \in Nat

VARIABLES
    pc,         \* where the main thread is
    raised,     \* the exception on its way out of update(): none, error, timeout
    draft,      \* the permissions in the open D-Bus transaction
    pub,        \* the permissions last handed to D-Bus
    timer,      \* ITIMER_REAL: time left, Off when disarmed
    failures,   \* consecutive_failures
    openWall,   \* time() - opened_at, the wall clock's opinion
    openTrue,   \* history: how long ago opened_at really was, at most Cooldown
    ahead,      \* history: how far the clock was set forward since, at most Cooldown
    quit,       \* mainloop.quit() was called while the loop ran
    clockSet,   \* how often the wall clock was set
    lock,       \* TRUE: the MQTT thread holds _data_lock
    busHung,    \* the D-Bus daemon does not take our changes
    erring      \* the data makes the calculation raise

breaker == <<failures, openWall, openTrue, ahead>>
world == <<lock, busHung, erring>>
vars == <<pc, raised, draft, pub, timer, breaker, quit, clockSet, world>>

Off == -1
WallAge == -Cooldown..Cooldown    \* bound: beyond Cooldown either way it is cut off
Raised == {"none", "error", "timeout"}

\* Inside update(): lock and publish are guarded by its try, failed is its
\* except clause, flush the __exit__ of the transaction.  done: the finally of
\* call() has not disarmed the timer yet.
InCall == {"lock", "publish", "failed", "flush", "done"}

Init ==
    /\ pc = "starting" /\ raised = "none"
    /\ draft = "none" /\ pub = "none"
    /\ timer = Off
    /\ failures = 0 /\ openWall = Cooldown /\ openTrue = Cooldown /\ ahead = 0
    /\ quit = FALSE /\ clockSet = 0
    /\ lock = FALSE /\ busHung = FALSE /\ erring = FALSE

-----------------------------------------------------------------------------
(***************************************************************************)
(* CircuitBreaker.                                                         *)
(***************************************************************************)
\* Mutant: a breaker that tripped is probed at once.
StateNeverOpen == IF failures < Threshold THEN "closed" ELSE "half-open"

State == IF failures < Threshold THEN "closed"
         ELSE IF openWall < Cooldown THEN "open" ELSE "half-open"

\* _record_failure (the counter is capped where it no longer matters).
RecordFailure ==
    /\ failures' = IF failures < Threshold THEN failures + 1 ELSE failures
    /\ IF failures + 1 >= Threshold THEN openWall' = 0 /\ openTrue' = 0 /\ ahead' = 0
       ELSE UNCHANGED <<openWall, openTrue, ahead>>

\* Mutant: a successful call leaves the failures counted.
RecoverForgotten == UNCHANGED breaker

\* Mutant: a success takes back one failure.
RecoverStepwise == failures' = failures - 1 /\ UNCHANGED <<openWall, openTrue, ahead>>

Recover == failures' = 0 /\ UNCHANGED <<openWall, openTrue, ahead>>

\* Mutant: the guarded call runs without a timer.
ArmNot == timer' = Off

Arm == timer' = CallTimeout

\* Mutant: only a call that returns normally disarms its timer.
DisarmOnSuccess == timer' = IF raised = "none" THEN Off ELSE timer

Disarm == timer' = Off

\* poll() with an open breaker: nothing but the heartbeat.
Skip ==
    /\ pc = "idle" /\ ~quit /\ State = "open"
    /\ UNCHANGED vars

\* poll() with a closed or half-open breaker: arm the alarm, enter update().
Enter ==
    /\ pc = "idle" /\ ~quit /\ State # "open"
    /\ Arm
    /\ pc' = "lock" /\ raised' = "none" /\ draft' = pub
    /\ UNCHANGED <<pub, breaker, quit, clockSet, world>>

-----------------------------------------------------------------------------
(***************************************************************************)
(* DbusAggregateService.update.                                            *)
(***************************************************************************)

\* get_aggregate_data: the snapshot is copied under _data_lock.
TakeSnapshot ==
    /\ pc = "lock" /\ ~lock
    /\ pc' = "publish"
    /\ UNCHANGED <<raised, draft, pub, timer, breaker, quit, clockSet, world>>

\* _publish_snapshot: the transaction holds permissions and measurements.
PublishSnapshot ==
    /\ pc = "publish"
    /\ draft' \in {"permit", "blocked"}
    /\ IF erring THEN raised' = "error" /\ pc' = "failed"
       ELSE pc' = "flush" /\ UNCHANGED raised
    /\ UNCHANGED <<pub, timer, breaker, quit, clockSet, world>>

\* Mutant: the exception is passed on without withdrawing anything.
HandleFailureBare ==
    /\ pc = "failed" /\ ~lock
    /\ pc' = "flush"
    /\ UNCHANGED <<draft, raised, pub, timer, breaker, quit, clockSet, world>>

\* The except clause: _set_unavailable(None) asks missing_data_reason, which
\* takes _data_lock, before it withdraws the permissions.
HandleFailure ==
    /\ pc = "failed" /\ ~lock
    /\ draft' = "blocked"
    /\ pc' = "flush"
    /\ UNCHANGED <<raised, pub, timer, breaker, quit, clockSet, world>>

\* The end of the transaction, with or without an exception.
Flush ==
    /\ pc = "flush" /\ ~busHung
    /\ pub' = draft
    /\ pc' = "done"
    /\ UNCHANGED <<raised, draft, timer, breaker, quit, clockSet, world>>

\* call() ends: failures count timeouts only; other errors pass through.
Return ==
    /\ pc = "done"
    /\ CASE raised = "none" -> Recover
         [] raised = "timeout" -> RecordFailure
         [] raised = "error" -> UNCHANGED breaker
    /\ Disarm
    /\ pc' = "idle"
    /\ UNCHANGED <<raised, draft, pub, quit, clockSet, world>>

\* _on_timeout raises where the main thread is.  After update() returned, call()
\* still counts it; in the finally of call() the TimeoutError is nobody's: poll()
\* logs it and the breaker learns nothing.
Alarm ==
    /\ timer = 0
    /\ timer' = Off
    /\ CASE pc \in {"lock", "publish"} -> pc' = "failed" /\ raised' = "timeout"
         [] pc = "failed" -> pc' = "flush" /\ raised' = "timeout"
         [] pc = "flush" -> pc' = "done" /\ raised' = "timeout"
         [] pc = "done" -> \/ pc' = "done" /\ raised = "none" /\ raised' = "timeout"
                           \/ pc' = "idle" /\ UNCHANGED raised
    /\ UNCHANGED <<draft, pub, breaker, quit, clockSet, world>>

-----------------------------------------------------------------------------
(***************************************************************************)
(* Start, stop and the world around the main thread.                       *)
(***************************************************************************)

\* main() reaches mainloop.run().
Start ==
    /\ pc = "starting"
    /\ pc' = "idle"
    /\ UNCHANGED <<raised, draft, pub, timer, breaker, quit, clockSet, world>>

\* graceful_shutdown: quit() stops a loop that runs and no other.
Sigterm ==
    /\ pc # "stopped"
    /\ quit' = (pc # "starting")
    /\ UNCHANGED <<pc, raised, draft, pub, timer, breaker, clockSet, world>>

Stop ==
    /\ pc = "idle" /\ quit
    /\ pc' = "stopped" /\ pub' = "none"
    /\ UNCHANGED <<raised, draft, timer, breaker, quit, clockSet, world>>

\* supervise starts the process again.
Restart ==
    /\ pc = "stopped"
    /\ pc' = "starting" /\ raised' = "none" /\ draft' = "none"
    /\ failures' = 0 /\ openWall' = Cooldown /\ openTrue' = Cooldown /\ ahead' = 0
    /\ quit' = FALSE
    /\ UNCHANGED <<pub, timer, clockSet, world>>

LockChanges == lock' = ~lock /\ UNCHANGED <<busHung, erring>>
BusChanges == busHung' = ~busHung /\ UNCHANGED <<lock, erring>>
DataChanges == erring' = ~erring /\ UNCHANGED <<lock, busHung>>

World ==
    /\ LockChanges \/ BusChanges \/ DataChanges
    /\ UNCHANGED <<pc, raised, draft, pub, timer, breaker, quit, clockSet>>

AtMostCooldown(a) == IF a < Cooldown THEN a ELSE Cooldown

\* Somebody or NTP sets the clock that time() reads, back or forward.
ClockIsSet ==
    /\ clockSet < ClockSteps /\ clockSet' = clockSet + 1
    /\ openWall' \in WallAge
    /\ ahead' = IF openWall' > openWall THEN AtMostCooldown(ahead + (openWall' - openWall))
                ELSE ahead
    /\ UNCHANGED <<pc, raised, draft, pub, timer, failures, openTrue, quit, world>>

\* What update() computes takes no time; what it waits for may take any.
Waiting ==
    \/ pc \notin InCall
    \/ pc \in {"lock", "failed"} /\ lock
    \/ pc = "flush" /\ busHung

\* The alarm is delivered when it is due.
Tick ==
    /\ timer # 0 /\ Waiting
    /\ timer' = IF timer = Off THEN Off ELSE timer - 1
    /\ openWall' = AtMostCooldown(openWall + 1) /\ openTrue' = AtMostCooldown(openTrue + 1)
    /\ UNCHANGED <<pc, raised, draft, pub, failures, ahead, quit, clockSet, world>>

\* A step of the main thread when nothing keeps it waiting.
Main == Enter \/ TakeSnapshot \/ PublishSnapshot \/ HandleFailure \/ Flush \/ Return
        \/ Start \/ Stop

Next ==
    \/ Main \/ Skip \/ Alarm
    \/ Sigterm \/ Restart \/ World \/ ClockIsSet \/ Tick

Spec == Init /\ [][Next]_vars

\* The main thread gets a lock or a bus that is free again and again; signals
\* and time are not withheld.  Both resources may also stay taken for good.
Fairness == SF_vars(Main) /\ WF_vars(Alarm) /\ SF_vars(Tick)

FairSpec == Spec /\ Fairness

-----------------------------------------------------------------------------
(***************************************************************************)
(* Properties.                                                             *)
(***************************************************************************)

\* Every variable stays in its range: consecutive_failures in particular is
\* never negative and the timer is off or not beyond its interval.
TypeOK ==
    /\ pc \in InCall \cup {"starting", "idle", "stopped"}
    /\ raised \in Raised
    /\ draft \in {"none", "permit", "blocked"} /\ pub \in {"none", "permit", "blocked"}
    /\ timer \in Off..CallTimeout
    /\ failures \in 0..Threshold
    /\ openWall \in WallAge /\ openTrue \in 0..Cooldown /\ ahead \in 0..Cooldown
    /\ quit \in BOOLEAN /\ clockSet \in 0..ClockSteps
    /\ lock \in BOOLEAN /\ busHung \in BOOLEAN /\ erring \in BOOLEAN

\* The alarm of one call never fires after it: call() disarms its timer on
\* every way out, also when the alarm itself interrupts the finally clause.
NoStrayAlarm == pc \notin InCall => timer = Off

\* An update whose calculation raised hands a withdrawal to D-Bus before the
\* exception leaves update(): prior permissions are not kept.
FailureWithdraws ==
    [][pc = "flush" /\ pc' = "done" /\ raised' = "error" => pub' = "blocked"]_vars

\* A tripped breaker is probed no earlier than Cooldown after the last timeout,
\* but for what the wall clock was set forward in between; a clock that was set
\* back, or a call that failed without a timeout, gains it nothing.
ProbesAreSpaced ==
    [][pc = "idle" /\ pc' = "lock" /\ failures >= Threshold =>
          openTrue + ahead >= Cooldown]_vars

\* The first hang of a call is always interrupted, wherever it happens.
FirstHangInterrupted ==
    (pc \in InCall /\ raised # "timeout") ~> (pc \notin InCall \/ raised = "timeout")

\* Once nothing hangs and the data is sound, the breaker closes again.
BreakerRecovers ==
    <>[](~lock /\ ~busHung /\ ~erring) => []<>(failures = 0 \/ pc = "stopped")

\* What CHANGELOG.md says of the breaker: a hung update() is bounded by the
\* alarm, whatever hangs.  The alarm fires once; the except clause of update()
\* takes _data_lock again and the transaction still has to end.
HungCallBounded == pc \in InCall ~> pc \notin InCall
=============================================================================
