------------------------------- MODULE Evidence -------------------------------
(***************************************************************************)
(* What the telemetry receiver promises the publisher, without boots,      *)
(* sequence numbers, masks or fields: for each BMS how long its evidence   *)
(* still lives and what it permits.                                        *)
(*                                                                         *)
(*   none   nothing is known; only complete evidence ends this             *)
(*   live   the session that sent complete evidence is still heard         *)
(*   held   that session is gone; its evidence runs out and may be         *)
(*          restricted, but neither renewed nor relaxed                    *)
(***************************************************************************)
EXTENDS Integers

CONSTANTS Slot, Perm, Stale

VARIABLES
    mode,      \* _has_full_snapshot and _boot_ready
    life,      \* time until the oldest sample of each BMS expires
    grant,     \* the permissions of each BMS
    partial    \* telemetry_partial

evidence == <<mode, life, grant, partial>>

Nothing == [s \in Slot |-> 0]
NoGrant == [s \in Slot |-> {}]

Init == mode = "none" /\ life = Nothing /\ grant = NoGrant /\ partial = FALSE

\* Complete, unexpired evidence of every BMS.
Complete ==
    /\ mode' = "live" /\ partial' = FALSE
    /\ life' \in [Slot -> 1..Stale]
    /\ grant' \in [Slot -> SUBSET Perm]

\* Incomplete evidence within the live session.
Renew ==
    /\ mode = "live" /\ mode' = "live" /\ partial' = TRUE
    /\ life' \in [Slot -> 0..Stale]
    /\ grant' \in [Slot -> SUBSET Perm]
    /\ \A s \in Slot : grant'[s] \subseteq grant[s]

\* The session is lost, or evidence arrives from a session that is not live.
Restrict ==
    /\ mode # "none" /\ mode' = "held" /\ partial' = TRUE
    /\ life' \in [Slot -> 0..Stale]
    /\ grant' \in [Slot -> SUBSET Perm]
    /\ \A s \in Slot : life'[s] <= life[s] /\ grant'[s] \subseteq grant[s]

\* A session that cannot be admitted degrades what is known and adds nothing.
Refuse == partial' = TRUE /\ UNCHANGED <<mode, life, grant>>

\* Evidence that contradicts itself discards everything.
Drop == mode' = "none" /\ life' = Nothing /\ grant' = NoGrant /\ partial' = FALSE

Tick ==
    /\ life' = [s \in Slot |-> IF life[s] = 0 THEN 0 ELSE life[s] - 1]
    /\ UNCHANGED <<mode, grant, partial>>

Next == Complete \/ Renew \/ Restrict \/ Refuse \/ Drop \/ Tick

Spec == Init /\ [][Next]_evidence
=============================================================================
