---------------------------- MODULE TopologyInstall ----------------------------
(***************************************************************************)
(* The installer of explicit topologies                                    *)
(* (dbus_mqtt_battery/topology_install.py) with the part of `setup` that   *)
(* restores services at boot.  It writes several files, none of which can  *)
(* be written together with another, and may be killed, lose power or meet *)
(* an I/O error between any two of them.                                   *)
(*                                                                         *)
(* A manifest maps chain ids to device identities, each a service suffix   *)
(* and a device instance.  The text of a launcher or marker is reduced to  *)
(* the manifest it was written for.                                        *)
(***************************************************************************)
EXTENDS Integers

CONSTANTS
    Chain,      \* chain ids, numbered in the order the manifests list them
    Manifest,   \* the manifests an operator may put in place
    Foreign,    \* identities in the launchers of other batteries
    Neighbour,  \* identities other batteries have on D-Bus
    None

\* Two identities that cannot both be on D-Bus.
Overlaps(i, j) == i.suffix = j.suffix \/ i.instance = j.instance

\* load_manifest rejects a manifest with a suffix or an instance twice.
ASSUME ManifestAssumption ==
    /\ Chain \subseteq Nat
    /\ \A m \in Manifest : DOMAIN m \subseteq Chain
    /\ \A m \in Manifest : \A c, d \in DOMAIN m : Overlaps(m[c], m[d]) => c = d
    /\ None \notin Manifest

VARIABLES
    manifest,     \* the file topologyFile names
    disk,         \* the files the installer owns
    dirs,         \* chains whose persistent service directory exists
    retired,      \* chains with a directory under retired-topology
    link,         \* chains linked in /service (tmpfs: lost at a reboot)
    supervised,   \* chains with a running supervisor
    live,         \* the identity each chain's process has on D-Bus
    job,          \* the installer process
    outcome,      \* history: how the last apply ended
    unedited      \* history: no edit of the manifest since an installer last started

services == <<link, supervised, live>>
vars == <<manifest, disk, dirs, retired, services, job, outcome, unedited>>

Registry == <<"registry">>
PerChain == {"run", "log", "ready"}
File == (PerChain \X Chain) \cup {Registry}
FilesOf(c) == PerChain \X {c}

NoOwner == [c \in {} |-> None]
EmptyDisk == [f \in File |-> IF f = Registry THEN NoOwner ELSE None]

Owned == DOMAIN disk[Registry]
Has(kind, c) == disk[<<kind, c>>] # None

Idle == [pc |-> "idle"]

Init ==
    /\ manifest \in Manifest
    /\ disk = EmptyDisk
    /\ dirs = {} /\ retired = {}
    /\ link = {} /\ supervised = {} /\ live = [c \in Chain |-> None]
    /\ job = Idle /\ outcome = "none" /\ unedited = FALSE

-----------------------------------------------------------------------------
(***************************************************************************)
(* build_plan: read-only; a refused plan changes nothing.                  *)
(***************************************************************************)

\* The batteries that answer on D-Bus, ours among them.
Answering == ({live[c] : c \in Chain} \ {None}) \cup Neighbour

\* live_battery_identities comes first; the files are read after it.
LookAtBus ==
    /\ job = Idle
    /\ job' = [pc |-> "looked", seen |-> Answering]
    /\ outcome' = "none" /\ unedited' = TRUE
    /\ UNCHANGED <<manifest, disk, dirs, retired, services>>

\* Mutant: a live identity is a conflict even when the chain itself has it.
LiveConflictOwn(m, seen) == \E c \in DOMAIN m, i \in seen : Overlaps(i, m[c])

\* A service that answers has the suffix or the instance of a planned one, and
\* is not, in both, the one the registry and the plan give this chain.
LiveConflict(m, seen) ==
    \E c \in DOMAIN m, i \in seen :
        /\ Overlaps(i, m[c])
        /\ ~(c \in Owned /\ disk[Registry][c] = i /\ m[c] = i)

PlanAccepted(m, seen) ==
    /\ Owned \subseteq DOMAIN m
    /\ \A c \in DOMAIN m : Has("run", c) => c \in Owned
    /\ \A c \in DOMAIN m, i \in Foreign : ~Overlaps(i, m[c])
    /\ ~LiveConflict(m, seen)

Preflight ==
    /\ job.pc = "looked"
    /\ job' = IF PlanAccepted(manifest, job.seen)
              THEN [pc |-> "planned", plan |-> manifest] ELSE Idle
    /\ UNCHANGED <<manifest, disk, dirs, retired, services, outcome, unedited>>

-----------------------------------------------------------------------------
(***************************************************************************)
(* apply_plan.                                                             *)
(***************************************************************************)
PlanFiles(m) == (PerChain \X DOMAIN m) \cup {Registry}

Phase(f) == IF f = Registry THEN 2 ELSE IF f[1] = "ready" THEN 3 ELSE 1
SamePhase(f, g) ==
    /\ Phase(f) = Phase(g) /\ f # g
    /\ (f[2] < g[2]) \/ (f[2] = g[2] /\ f[1] = "run")

\* Mutant: a service is marked ready as soon as its launchers are there.
BeforeMarkedEarly(f, g) ==
    (Phase(f) < Phase(g) /\ Phase(f) # 2) \/ SamePhase(f, g)

\* f is written before g, and restored after it: the launchers chain by chain,
\* then the ownership registry, then the readiness markers.
Before(f, g) == Phase(f) < Phase(g) \/ SamePhase(f, g)

\* The manifest is read again: it must still be the one the plan was made from.
Begin ==
    /\ job.pc = "planned"
    /\ job' = IF manifest # job.plan THEN Idle
              ELSE [pc |-> "write", plan |-> job.plan, previous |-> disk,
                    written |-> {}, made |-> {}, linked |-> {}]
    /\ UNCHANGED <<manifest, disk, dirs, retired, services, outcome, unedited>>

NextFile(f) ==
    /\ f \in PlanFiles(job.plan) \ job.written
    /\ \A g \in PlanFiles(job.plan) : Before(g, f) => g \in job.written

ChainOf(f) == IF f = Registry THEN {} ELSE {f[2]}

\* ensure_directory, then _atomic_text: the file is replaced or left as it was.
Write(f) ==
    /\ job.pc = "write" /\ NextFile(f)
    /\ disk' = [disk EXCEPT ![f] = job.plan]
    /\ dirs' = dirs \cup ChainOf(f)
    /\ job' = [job EXCEPT !.written = @ \cup {f},
                          !.made = @ \cup (ChainOf(f) \ dirs),
                          !.pc = IF job.written \cup {f} = PlanFiles(job.plan)
                                 THEN "link" ELSE "write"]
    /\ UNCHANGED <<manifest, retired, services, outcome, unedited>>

WriteFails(f) ==
    /\ job.pc = "write" /\ NextFile(f)
    /\ dirs' = dirs \cup ChainOf(f)
    /\ job' = [job EXCEPT !.written = @ \cup {f},
                          !.made = @ \cup (ChainOf(f) \ dirs),
                          !.pc = "undo"]
    /\ UNCHANGED <<manifest, disk, retired, services, outcome, unedited>>

Link(c) ==
    /\ job.pc = "link"
    /\ c \in DOMAIN job.plan \ link
    /\ link' = link \cup {c}
    /\ job' = [job EXCEPT !.linked = @ \cup {c}]
    /\ UNCHANGED <<manifest, disk, dirs, retired, supervised, live, outcome, unedited>>

\* Mutant: a failed activation is rolled back whatever was linked before it.
LinkFailsRollsBack ==
    /\ job.pc = "link"
    /\ DOMAIN job.plan \ link # {}
    /\ job' = [job EXCEPT !.pc = "undo"]
    /\ UNCHANGED <<manifest, disk, dirs, retired, services, outcome, unedited>>

\* svscan may have started a service linked in this run: then its files stay.
LinkFails ==
    /\ job.pc = "link"
    /\ DOMAIN job.plan \ link # {}
    /\ IF job.linked # {}
       THEN job' = Idle /\ outcome' = "activation"
       ELSE job' = [job EXCEPT !.pc = "undo"] /\ UNCHANGED outcome
    /\ UNCHANGED <<manifest, disk, dirs, retired, services, unedited>>

Finish ==
    /\ job.pc = "link" /\ DOMAIN job.plan \subseteq link
    /\ job' = Idle /\ outcome' = "done"
    /\ UNCHANGED <<manifest, disk, dirs, retired, services, unedited>>

\* Files are restored in the reverse of the order in which they were written.
NextUndo(f) ==
    f \in job.written /\ \A g \in job.written : ~Before(f, g)

\* Mutant: a file that was not there before is left behind.
UndoLeavesNew(f) ==
    /\ job.pc = "undo" /\ NextUndo(f)
    /\ disk' = IF job.previous[f] = None THEN disk
               ELSE [disk EXCEPT ![f] = job.previous[f]]
    /\ job' = [job EXCEPT !.written = @ \ {f}]
    /\ UNCHANGED <<manifest, dirs, retired, services, outcome, unedited>>

Undo(f) ==
    /\ job.pc = "undo" /\ NextUndo(f)
    /\ disk' = [disk EXCEPT ![f] = job.previous[f]]
    /\ job' = [job EXCEPT !.written = @ \ {f}]
    /\ UNCHANGED <<manifest, dirs, retired, services, outcome, unedited>>

\* Restoring a file meets an error itself.
UndoFails ==
    /\ job.pc = "undo" /\ job.written # {}
    /\ job' = Idle /\ outcome' = "fault"
    /\ UNCHANGED <<manifest, disk, dirs, retired, services, unedited>>

UndoDirectories ==
    /\ job.pc = "undo" /\ job.written = {}
    /\ dirs' = dirs \ job.made
    /\ job' = Idle /\ outcome' = "restored"
    /\ UNCHANGED <<manifest, disk, retired, services, unedited>>

-----------------------------------------------------------------------------
(***************************************************************************)
(* retire_service: the directory is renamed first, disowned second.        *)
(***************************************************************************)
Moved(d, c) == [f \in File |-> IF f \in FilesOf(c) THEN None ELSE d[f]]

\* Mutant: only the link is checked, not the supervisor behind it.
QuiescentUnchecked(c) == c \notin link

\* No link, and neither child nor supervisor is running (_require_quiescent).
Quiescent(c) == c \notin link /\ c \notin supervised

Retire(c) ==
    /\ job = Idle
    /\ c \in Owned /\ c \in dirs /\ c \notin retired
    /\ Quiescent(c)
    /\ job' = [pc |-> "retire", target |-> c, previous |-> disk]
    /\ disk' = Moved(disk, c)
    /\ dirs' = dirs \ {c} /\ retired' = retired \cup {c}
    /\ outcome' = "none"
    /\ UNCHANGED <<manifest, services, unedited>>

Disown ==
    /\ job.pc = "retire"
    /\ disk' = [disk EXCEPT ![Registry] = [c \in Owned \ {job.target} |-> @[c]]]
    /\ job' = Idle
    /\ UNCHANGED <<manifest, dirs, retired, services, outcome, unedited>>

\* The registry cannot be written: the directory is renamed back.
DisownFails ==
    /\ job.pc = "retire"
    /\ disk' = job.previous
    /\ dirs' = dirs \cup {job.target} /\ retired' = retired \ {job.target}
    /\ job' = Idle
    /\ UNCHANGED <<manifest, services, outcome, unedited>>

-----------------------------------------------------------------------------
(***************************************************************************)
(* Failures, the boot script, daemontools and the operator.                *)
(***************************************************************************)

\* The installer is killed.
Kill ==
    /\ job # Idle
    /\ job' = Idle /\ outcome' = "none"
    /\ UNCHANGED <<manifest, disk, dirs, retired, services, unedited>>

\* boot.sh: an executable launcher and, for a topology chain, the marker.
Bootable(c) == Has("run", c) /\ Has("ready", c)

Reboot ==
    /\ link' = {c \in Chain : Bootable(c)}
    /\ supervised' = {} /\ live' = [c \in Chain |-> None]
    /\ job' = Idle /\ outcome' = "none"
    /\ UNCHANGED <<manifest, disk, dirs, retired, unedited>>

\* svscan starts a supervisor for every link.
Supervise(c) ==
    /\ c \in link \ supervised
    /\ supervised' = supervised \cup {c}
    /\ UNCHANGED <<manifest, disk, dirs, retired, link, live, job, outcome, unedited>>

\* A process takes its identity from the manifest it finds when it starts (two
\* that ask for one suffix are both let through here; D-Bus admits the first).
RunProcess(c) ==
    /\ c \in supervised
    /\ live' = [live EXCEPT ![c] = IF c \in DOMAIN manifest THEN manifest[c] ELSE None]
    /\ UNCHANGED <<manifest, disk, dirs, retired, link, supervised, job, outcome, unedited>>

\* svc -dx
StopService(c) ==
    /\ c \in supervised
    /\ supervised' = supervised \ {c} /\ live' = [live EXCEPT ![c] = None]
    /\ UNCHANGED <<manifest, disk, dirs, retired, link, job, outcome, unedited>>

Unlink(c) ==
    /\ c \in link
    /\ link' = link \ {c}
    /\ UNCHANGED <<manifest, disk, dirs, retired, supervised, live, job, outcome, unedited>>

EditManifest ==
    /\ manifest' \in Manifest \ {manifest}
    /\ unedited' = FALSE
    /\ UNCHANGED <<disk, dirs, retired, services, job, outcome>>

Apply ==
    \/ LookAtBus \/ Preflight \/ Begin \/ LinkFails \/ Finish \/ UndoFails \/ UndoDirectories
    \/ \E f \in File : Write(f) \/ WriteFails(f) \/ Undo(f)
    \/ \E c \in Chain : Link(c)

Retirement == (\E c \in Chain : Retire(c)) \/ Disown \/ DisownFails

World ==
    \/ Kill \/ Reboot \/ EditManifest
    \/ \E c \in Chain : Supervise(c) \/ RunProcess(c) \/ StopService(c) \/ Unlink(c)

Next == Apply \/ Retirement \/ World

Spec == Init /\ [][Next]_vars

-----------------------------------------------------------------------------
(***************************************************************************)
(* Properties.                                                             *)
(***************************************************************************)

\* The installer's files hold manifests, the registry a part of one, and every
\* file lies in a directory that exists.
TypeOK ==
    /\ manifest \in Manifest
    /\ \A c \in Chain, k \in PerChain : disk[<<k, c>>] \in Manifest \cup {None}
    /\ Owned \subseteq Chain
    /\ \A c \in Chain, k \in PerChain : Has(k, c) => c \in dirs
    /\ retired \subseteq Chain /\ link \subseteq Chain /\ supervised \subseteq Chain
    /\ outcome \in {"none", "done", "restored", "activation", "fault"}
    /\ unedited \in BOOLEAN

\* A service that is linked, by the installer or by a boot, has both launchers
\* and its readiness marker, wherever an apply was interrupted or undone.
LinkedIsComplete ==
    \A c \in link : \A k \in PerChain : Has(k, c)

\* Whatever runs under supervision or would be started by the next boot is in
\* the ownership registry: so a retirement is never refused as not owned, and
\* an uninstall that found the registry empty abandons no service.
StartableIsOwned ==
    \A c \in Chain : c \in link \cup supervised \/ Bootable(c) => c \in Owned

\* An apply that reports a failed write has left every file and directory as
\* it found them.
FailedApplyRestores ==
    [][job.pc = "undo" /\ outcome' = "restored" =>
          disk' = job.previous /\ dirs' \cap job.made = {}]_vars

\* An activation that was interrupted after the first new link can be repeated,
\* as apply_plan's error asks for: unless the manifest was edited since that run
\* started, preflight accepts it again although its own services, and those of
\* earlier manifests that nobody restarted, answer on D-Bus by now.
ActivationResumable ==
    outcome = "activation" /\ unedited => PlanAccepted(manifest, Answering)

\* The files a running supervisor starts its children from are replaced by an
\* apply, restored by a rollback and moved by a retirement, but never missing.
SupervisedKeepsFiles ==
    \A c \in supervised : \A k \in PerChain : Has(k, c)
=============================================================================
