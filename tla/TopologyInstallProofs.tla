------------------------- MODULE TopologyInstallProofs -------------------------
(***************************************************************************)
(* The installer's safety for every number of chains and every set of      *)
(* manifests: whatever is interrupted, killed or undone, what is linked or *)
(* supervised keeps its files and its entry in the registry.               *)
(***************************************************************************)
EXTENDS TopologyInstall, TLAPS

\* The chains whose readiness marker is in place.
Ready(d) == {c \in Chain : d[<<"ready", c>>] # None}

\* The contents of the files the installer owns.
Disk(d) ==
    /\ d = [f \in File |-> d[f]]
    /\ \A c \in Chain, k \in PerChain : d[<<k, c>>] \in Manifest \cup {None}
    /\ DOMAIN d[Registry] \subseteq Chain

\* A readiness marker vouches for both launchers and for the ownership: this is
\* what the order of the writes, and the reverse order of the undo, are for.
Sound(d) ==
    \A c \in Ready(d) : /\ \A k \in PerChain : d[<<k, c>>] # None
                        /\ c \in DOMAIN d[Registry]

\* Every file lies in a service directory.
Housed(d, D) == \A c \in Chain, k \in PerChain : d[<<k, c>>] # None => c \in D

FilesInv ==
    /\ Disk(disk) /\ Sound(disk) /\ Housed(disk, dirs)
    /\ link \cup supervised \subseteq Ready(disk)

Applying == {"write", "link", "undo"}
ApplyFields == {"pc", "plan", "previous", "written", "made", "linked"}

Shape ==
    /\ job.pc \in {"idle", "looked", "planned", "retire"} \cup Applying
    /\ job.pc = "idle" => job = Idle
    /\ job.pc \in Applying => DOMAIN job = ApplyFields

\* A plan under way was accepted, and nothing it does not name is owned.
PlanInv ==
    job.pc \in Applying \cup {"planned"} =>
        /\ job.plan \in Manifest
        /\ job.pc = "planned" => Owned \subseteq DOMAIN job.plan

\* What an apply may have changed, and what it can go back to: files outside
\* written are as they were, and what was running before could run from them.
ApplyInv ==
    job.pc \in Applying =>
        /\ Disk(job.previous) /\ Sound(job.previous) /\ Housed(job.previous, dirs)
        /\ DOMAIN job.previous[Registry] \subseteq DOMAIN job.plan
        /\ job.written \subseteq PlanFiles(job.plan)
        /\ \A f \in File : /\ f \notin job.written => disk[f] = job.previous[f]
                           /\ disk[f] \in {job.previous[f], job.plan}
        /\ link \cup supervised \subseteq Ready(job.previous) \cup job.linked
        /\ \A c \in job.made \cap Chain, k \in PerChain : job.previous[<<k, c>>] = None
        /\ job.pc # "link" => job.linked = {}
        /\ job.pc = "write" => \A f \in job.written : disk[f] = job.plan
        /\ job.pc = "link" => \A f \in PlanFiles(job.plan) : disk[f] = job.plan

\* A retirement under way can put the directory back; its chain is at rest.
RetireInv ==
    job.pc = "retire" =>
        /\ job.target \in Chain \ (link \cup supervised)
        /\ Disk(job.previous) /\ Sound(job.previous)
        /\ Housed(job.previous, dirs \cup {job.target})
        /\ disk = Moved(job.previous, job.target)

JobInv == Shape /\ PlanInv /\ ApplyInv /\ RetireInv

\* No outcome stands while a job is under way.
Pending == job.pc # "idle" => outcome = "none"

Others ==
    /\ manifest \in Manifest
    /\ retired \subseteq Chain /\ link \subseteq Chain /\ supervised \subseteq Chain
    /\ outcome \in {"none", "done", "restored", "activation", "fault"}
    /\ unedited \in BOOLEAN
    /\ DOMAIN live = Chain

IInv == FilesInv /\ JobInv /\ Pending /\ Others
-----------------------------------------------------------------------------
(***************************************************************************)
(* The files and the order in which they are written.                      *)
(***************************************************************************)

\* A file is the registry or one of a chain.
LEMMA FileFacts ==
    /\ Registry \in File
    /\ \A k \in PerChain, c \in Chain : <<k, c>> \in File /\ <<k, c>> # Registry
    /\ \A f \in File : f = Registry \/ \E k \in PerChain, c \in Chain : f = <<k, c>>
    /\ \A j, k \in PerChain, c, d \in Chain : <<j, c>> = <<k, d>> => j = k /\ c = d
BY DEF File, Registry, PerChain

\* The files of a plan are files.
LEMMA PlanFilesFacts ==
    ASSUME NEW m \in Manifest
    PROVE  /\ PlanFiles(m) \subseteq File /\ Registry \in PlanFiles(m)
           /\ DOMAIN m \subseteq Chain
           /\ \A k \in PerChain, c \in Chain : <<k, c>> \in PlanFiles(m) <=> c \in DOMAIN m
<1>1. DOMAIN m \subseteq Chain
  BY ManifestAssumption
<1> QED BY <1>1 DEF PlanFiles, File, Registry, PerChain

\* Launchers come before the registry, and the registry before any marker.
LEMMA WriteOrder ==
    ASSUME NEW c \in Chain
    PROVE  /\ Before(Registry, <<"ready", c>>)
           /\ Before(<<"run", c>>, <<"ready", c>>) /\ Before(<<"log", c>>, <<"ready", c>>)
<1>1. Phase(Registry) = 2
  BY DEF Phase
<1>2. Phase(<<"ready", c>>) = 3 /\ Phase(<<"run", c>>) = 1 /\ Phase(<<"log", c>>) = 1
  BY DEF Phase, Registry
<1> QED BY <1>1, <1>2 DEF Before

\* A freshly installed package.
LEMMA InitIInv == Init => IInv
<1> SUFFICES ASSUME Init PROVE IInv
  OBVIOUS
<1>1. /\ disk = [f \in File |-> IF f = Registry THEN NoOwner ELSE None]
      /\ \A c \in Chain, k \in PerChain : disk[<<k, c>>] = None
      /\ disk[Registry] = NoOwner
  BY FileFacts DEF Init, EmptyDisk
<1>2. Disk(disk)
  <2>1. disk = [f \in File |-> disk[f]]
    BY <1>1
  <2> QED BY <1>1, <2>1 DEF Disk, NoOwner
<1>3. Sound(disk) /\ Housed(disk, dirs)
  BY <1>1 DEF Sound, Ready, Housed, PerChain
<1>4. FilesInv
  BY <1>2, <1>3 DEF Init, FilesInv
<1>5. job.pc = "idle" /\ job = Idle
  BY DEF Init, Idle
<1>6. JobInv
  BY <1>5 DEF JobInv, Shape, PlanInv, ApplyInv, RetireInv, Applying
<1> QED BY <1>4, <1>6 DEF Init, IInv, Pending, Others

-----------------------------------------------------------------------------
(***************************************************************************)
(* apply_plan.                                                             *)
(***************************************************************************)

\* A job that is not there promises nothing.
LEMMA IdleJob ==
    ASSUME job' = Idle
    PROVE  JobInv'
<1>1. job'.pc = "idle"
  BY DEF Idle
<1> QED BY <1>1 DEF JobInv, Shape, PlanInv, ApplyInv, RetireInv, Applying

\* The bus is read before anything else.
LEMMA LookAtBusSafe ==
    ASSUME IInv, LookAtBus
    PROVE  IInv'
<1>1. /\ UNCHANGED <<manifest, disk, dirs, retired, link, supervised, live>>
      /\ outcome' = "none" /\ unedited' = TRUE /\ job'.pc = "looked"
  BY DEF LookAtBus, services
<1>2. FilesInv' /\ Others' /\ Pending'
  BY <1>1 DEF IInv, FilesInv, Others, Pending
<1>3. JobInv'
  BY <1>1 DEF JobInv, Shape, PlanInv, ApplyInv, RetireInv, Applying
<1> QED BY <1>2, <1>3 DEF IInv

\* A job only goes on where no outcome is pending.
LEMMA BusyOutcome ==
    ASSUME IInv, job.pc # "idle"
    PROVE  outcome = "none"
BY DEF IInv, Pending

\* Planning reads and accepts, or ends the run.
LEMMA PreflightSafe ==
    ASSUME IInv, Preflight
    PROVE  IInv'
<1>1. /\ job.pc = "looked"
      /\ UNCHANGED <<manifest, disk, dirs, retired, link, supervised, live, outcome, unedited>>
  BY DEF Preflight, services
<1>2. FilesInv' /\ Others' /\ Pending'
  BY <1>1, BusyOutcome DEF IInv, FilesInv, Others, Pending
<1>3. CASE PlanAccepted(manifest, job.seen)
  <2>1. job'.pc = "planned" /\ job'.plan = manifest
    BY <1>3 DEF Preflight
  <2>2. manifest \in Manifest /\ Owned' \subseteq DOMAIN manifest
    BY <1>1, <1>3 DEF IInv, Others, PlanAccepted, Owned
  <2>3. JobInv'
    BY <2>1, <2>2 DEF JobInv, Shape, PlanInv, ApplyInv, RetireInv, Applying
  <2> QED BY <1>2, <2>3 DEF IInv
<1>4. CASE ~PlanAccepted(manifest, job.seen)
  BY <1>2, <1>4, IdleJob DEF Preflight, IInv
<1> QED BY <1>3, <1>4

\* Beginning records what there is.
LEMMA BeginSafe ==
    ASSUME IInv, Begin
    PROVE  IInv'
<1>1. UNCHANGED <<manifest, disk, dirs, retired, link, supervised, live, outcome, unedited>>
  BY DEF Begin, services
<1>2. job.pc = "planned" /\ outcome = "none"
  BY BusyOutcome DEF Begin
<1>3. FilesInv' /\ Others' /\ Pending'
  BY <1>1, <1>2 DEF IInv, FilesInv, Others, Pending
<1>4. CASE manifest # job.plan
  BY <1>3, <1>4, IdleJob DEF Begin, IInv
<1>5. CASE manifest = job.plan
  <2>1. job' = [pc |-> "write", plan |-> job.plan, previous |-> disk,
                written |-> {}, made |-> {}, linked |-> {}]
    BY <1>5 DEF Begin
  <2>2. /\ job'.pc = "write" /\ job'.plan = job.plan /\ job'.previous = disk
        /\ job'.written = {} /\ job'.made = {} /\ job'.linked = {} /\ DOMAIN job' = ApplyFields
    BY <2>1 DEF ApplyFields
  <2>3. /\ job.plan \in Manifest /\ Owned \subseteq DOMAIN job.plan
    BY <1>2 DEF IInv, JobInv, PlanInv
  <2>4. Shape' /\ PlanInv' /\ RetireInv'
    BY <2>2, <2>3 DEF Shape, PlanInv, RetireInv, Applying
  <2>5. ApplyInv'
    BY <1>1, <2>2, <2>3 DEF ApplyInv, Applying, IInv, FilesInv, Owned
  <2> QED BY <1>3, <2>4, <2>5 DEF IInv, JobInv
<1> QED BY <1>4, <1>5

\* What the invariant says of an apply under way.
LEMMA ApplyFacts ==
    ASSUME IInv, job.pc \in Applying
    PROVE  /\ DOMAIN job = ApplyFields /\ job.plan \in Manifest /\ job.plan # None
           /\ DOMAIN job.plan \subseteq Chain
           /\ Disk(job.previous) /\ Sound(job.previous) /\ Housed(job.previous, dirs)
           /\ outcome = "none"
BY BusyOutcome, ManifestAssumption DEF IInv, JobInv, Shape, PlanInv, ApplyInv, Applying

\* The files after one of them was replaced by the plan's version.
LEMMA WriteFilesSafe ==
    ASSUME IInv, NEW f \in File, Write(f)
    PROVE  FilesInv'
<1>1. /\ job.pc = "write" /\ NextFile(f) /\ disk' = [disk EXCEPT ![f] = job.plan]
      /\ dirs' = dirs \cup ChainOf(f) /\ UNCHANGED <<link, supervised>>
  BY DEF Write, services
<1>2. /\ job.plan \in Manifest /\ job.plan # None /\ DOMAIN job.plan \subseteq Chain
  BY <1>1, ApplyFacts DEF Applying
<1>3. Disk(disk) /\ Sound(disk) /\ Housed(disk, dirs) /\ link \cup supervised \subseteq Ready(disk)
  BY DEF IInv, FilesInv
<1>4. /\ disk' = [g \in File |-> disk'[g]]
      /\ disk'[f] = job.plan /\ \A g \in File : g # f => disk'[g] = disk[g]
  BY <1>1, <1>3 DEF Disk
<1>5. \A c \in Chain, k \in PerChain :
        disk'[<<k, c>>] = IF <<k, c>> = f THEN job.plan ELSE disk[<<k, c>>]
  BY <1>4, FileFacts
<1>6. /\ f \in PlanFiles(job.plan)
      /\ \A g \in PlanFiles(job.plan) : Before(g, f) => disk[g] = job.plan
  BY <1>1 DEF NextFile, IInv, JobInv, ApplyInv, Applying
<1>7. DOMAIN disk[Registry] \subseteq DOMAIN disk'[Registry] /\ DOMAIN disk'[Registry] \subseteq Chain
  <2>1. CASE f = Registry
    <3>1. disk[Registry] \in {job.previous[Registry], job.plan}
      BY <1>1, FileFacts DEF IInv, JobInv, ApplyInv, Applying
    <3>2. DOMAIN job.previous[Registry] \subseteq DOMAIN job.plan
      BY <1>1 DEF IInv, JobInv, ApplyInv, Applying
    <3> QED BY <1>2, <1>4, <2>1, <3>1, <3>2
  <2>2. CASE f # Registry
    BY <1>3, <1>4, <2>2, FileFacts DEF Disk
  <2> QED BY <2>1, <2>2
<1>8. Disk(disk')
  BY <1>2, <1>3, <1>4, <1>5, <1>7 DEF Disk
<1>9. ASSUME NEW c \in Chain, disk'[<<"ready", c>>] # None
      PROVE  /\ \A k \in PerChain : disk'[<<k, c>>] # None
             /\ c \in DOMAIN disk'[Registry]
  <2>1. CASE disk[<<"ready", c>>] # None
    BY <1>2, <1>3, <1>5, <1>7, <2>1 DEF Sound, Ready
  <2>2. CASE disk[<<"ready", c>>] = None
    <3>1. f = <<"ready", c>>
      BY <1>5, <1>9, <2>2 DEF PerChain
    <3>2. c \in DOMAIN job.plan
      BY <1>2, <1>6, <3>1, PlanFilesFacts DEF PerChain
    <3>3. /\ Registry \in PlanFiles(job.plan) /\ <<"run", c>> \in PlanFiles(job.plan)
          /\ <<"log", c>> \in PlanFiles(job.plan)
      BY <1>2, <3>2, PlanFilesFacts DEF PerChain
    <3>4. disk[Registry] = job.plan /\ disk[<<"run", c>>] = job.plan /\ disk[<<"log", c>>] = job.plan
      BY <1>6, <3>1, <3>3, WriteOrder
    <3>5. disk'[Registry] = job.plan
      BY <1>4, <3>4, FileFacts
    <3>6. \A k \in PerChain : disk'[<<k, c>>] = job.plan
      BY <1>5, <3>1, <3>4 DEF PerChain
    <3> QED BY <1>2, <3>2, <3>5, <3>6
  <2> QED BY <2>1, <2>2
<1>10. Sound(disk')
  BY <1>9 DEF Sound, Ready
<1>11. Housed(disk', dirs')
  <2> SUFFICES ASSUME NEW c \in Chain, NEW k \in PerChain, disk'[<<k, c>>] # None
               PROVE  c \in dirs'
    BY DEF Housed
  <2>1. CASE f = <<k, c>>
    BY <1>1, <2>1, FileFacts DEF ChainOf
  <2>2. CASE f # <<k, c>>
    BY <1>1, <1>3, <1>5, <2>2 DEF Housed
  <2> QED BY <2>1, <2>2
<1>12. Ready(disk) \subseteq Ready(disk')
  BY <1>2, <1>5 DEF Ready, PerChain
<1> QED BY <1>1, <1>3, <1>8, <1>10, <1>11, <1>12 DEF FilesInv, Disk, Sound, Housed, Ready, Owned

\* The bookkeeping of an apply that goes on to its next file, or stops there:
\* what a directory created now did not hold before can be removed again.
LEMMA MadeIsNew ==
    ASSUME IInv, job.pc = "write", NEW f \in File
    PROVE  \A c \in (job.made \cup (ChainOf(f) \ dirs)) \cap Chain, k \in PerChain :
               job.previous[<<k, c>>] = None
<1>1. Housed(job.previous, dirs)
  BY ApplyFacts DEF Applying
<1>2. \A c \in job.made \cap Chain, k \in PerChain : job.previous[<<k, c>>] = None
  BY DEF IInv, JobInv, ApplyInv, Applying
<1> QED BY <1>1, <1>2 DEF Housed

\* A file is written: the job.
LEMMA WriteSafe ==
    ASSUME IInv, NEW f \in File, Write(f)
    PROVE  IInv'
<1>1. /\ job.pc = "write" /\ NextFile(f) /\ disk' = [disk EXCEPT ![f] = job.plan]
      /\ dirs' = dirs \cup ChainOf(f)
      /\ UNCHANGED <<manifest, retired, link, supervised, live, outcome, unedited>>
  BY DEF Write, services
<1>2. job.pc \in Applying /\ DOMAIN job = ApplyFields
  BY <1>1, ApplyFacts DEF Applying
<1>3. /\ job'.pc = IF job.written \cup {f} = PlanFiles(job.plan) THEN "link" ELSE "write"
      /\ job'.plan = job.plan /\ job'.previous = job.previous /\ job'.linked = job.linked
      /\ job'.written = job.written \cup {f}
      /\ job'.made = job.made \cup (ChainOf(f) \ dirs)
      /\ DOMAIN job' = ApplyFields
  BY <1>2 DEF Write, ApplyFields
<1>4. job'.pc \in {"write", "link"}
  BY <1>3
<1>5. Shape' /\ PlanInv' /\ RetireInv'
  BY <1>1, <1>3, <1>4 DEF IInv, JobInv, Shape, PlanInv, RetireInv, Applying
<1>6. /\ disk'[f] = job.plan /\ \A g \in File : g # f => disk'[g] = disk[g]
  BY <1>1 DEF IInv, FilesInv, Disk
<1>7. ApplyInv
  BY DEF IInv, JobInv
<1>8. f \in PlanFiles(job.plan) /\ PlanFiles(job.plan) \subseteq File
  BY <1>1, <1>2, ApplyFacts, PlanFilesFacts DEF NextFile
<1>9. Housed(job.previous, dirs')
  BY <1>1, <1>2, ApplyFacts DEF Housed
<1>10. \A g \in job.written \cup {f} : disk'[g] = job.plan
  BY <1>1, <1>2, <1>6, <1>7, <1>8 DEF ApplyInv
<1>11. /\ \A g \in File : /\ g \notin job'.written => disk'[g] = job.previous[g]
                          /\ disk'[g] \in {job.previous[g], job.plan}
       /\ job'.written \subseteq PlanFiles(job.plan)
  BY <1>2, <1>3, <1>6, <1>7, <1>8 DEF ApplyInv
<1>12. \A c \in job'.made \cap Chain, k \in PerChain : job.previous[<<k, c>>] = None
  BY <1>1, <1>3, MadeIsNew
<1>13. job.linked = {}
  BY <1>1, <1>2, <1>7 DEF ApplyInv
<1>14. ApplyInv'
  BY <1>1, <1>2, <1>3, <1>4, <1>7, <1>9, <1>10, <1>11, <1>12, <1>13 DEF ApplyInv
<1>15. Pending' /\ Others'
  BY <1>1, <1>2, ApplyFacts DEF IInv, Pending, Others
<1> QED BY <1>5, <1>14, <1>15, WriteFilesSafe DEF IInv, JobInv

\* A file is not written: the directory may be there all the same.
LEMMA WriteFailsSafe ==
    ASSUME IInv, NEW f \in File, WriteFails(f)
    PROVE  IInv'
<1>1. /\ job.pc = "write" /\ NextFile(f) /\ dirs' = dirs \cup ChainOf(f)
      /\ UNCHANGED <<manifest, disk, retired, link, supervised, live, outcome, unedited>>
  BY DEF WriteFails, services
<1>2. job.pc \in Applying /\ DOMAIN job = ApplyFields
  BY <1>1, ApplyFacts DEF Applying
<1>3. /\ job'.pc = "undo"
      /\ job'.plan = job.plan /\ job'.previous = job.previous /\ job'.linked = job.linked
      /\ job'.written = job.written \cup {f}
      /\ job'.made = job.made \cup (ChainOf(f) \ dirs)
      /\ DOMAIN job' = ApplyFields
  BY <1>2 DEF WriteFails, ApplyFields
<1>4. Shape' /\ PlanInv' /\ RetireInv'
  BY <1>1, <1>3 DEF IInv, JobInv, Shape, PlanInv, RetireInv, Applying
<1>5. ApplyInv
  BY DEF IInv, JobInv
<1>6. Housed(job.previous, dirs') /\ Housed(disk, dirs')
  BY <1>1, <1>2, ApplyFacts DEF IInv, FilesInv, Housed
<1>7. \A c \in job'.made \cap Chain, k \in PerChain : job.previous[<<k, c>>] = None
  BY <1>1, <1>3, MadeIsNew
<1>8. job.linked = {} /\ job'.written \subseteq PlanFiles(job.plan)
  BY <1>1, <1>2, <1>3, <1>5 DEF ApplyInv, NextFile
<1>9. ApplyInv'
  BY <1>1, <1>2, <1>3, <1>5, <1>6, <1>7, <1>8 DEF ApplyInv
<1>10. FilesInv'
  BY <1>1, <1>6 DEF IInv, FilesInv, Disk, Sound, Ready, Housed
<1>11. Pending' /\ Others'
  BY <1>1, <1>2, ApplyFacts DEF IInv, Pending, Others
<1> QED BY <1>4, <1>9, <1>10, <1>11 DEF IInv, JobInv

\* Once every file is the plan's, each of its chains may be started.
LEMMA PlanInPlace ==
    ASSUME IInv, job.pc = "link"
    PROVE  disk[Registry] = job.plan /\ DOMAIN job.plan \subseteq Ready(disk)
<1>1. job.plan \in Manifest /\ job.plan # None /\ DOMAIN job.plan \subseteq Chain
  BY ApplyFacts DEF Applying
<1>2. \A f \in PlanFiles(job.plan) : disk[f] = job.plan
  BY DEF IInv, JobInv, ApplyInv, Applying
<1>3. disk[Registry] = job.plan
  BY <1>1, <1>2, PlanFilesFacts
<1>4. \A c \in DOMAIN job.plan : disk[<<"ready", c>>] = job.plan
  BY <1>1, <1>2, PlanFilesFacts DEF PerChain
<1> QED BY <1>1, <1>3, <1>4 DEF Ready

\* A chain of the plan is linked.
LEMMA LinkSafe ==
    ASSUME IInv, NEW c \in Chain, Link(c)
    PROVE  IInv'
<1>1. /\ job.pc = "link" /\ c \in DOMAIN job.plan /\ link' = link \cup {c}
      /\ UNCHANGED <<manifest, disk, dirs, retired, supervised, live, outcome, unedited>>
  BY DEF Link
<1>2. job.pc \in Applying /\ DOMAIN job = ApplyFields
  BY <1>1, ApplyFacts DEF Applying
<1>3. /\ job'.pc = "link"
      /\ job'.plan = job.plan /\ job'.previous = job.previous /\ job'.made = job.made
      /\ job'.written = job.written /\ job'.linked = job.linked \cup {c}
      /\ DOMAIN job' = ApplyFields
  BY <1>1, <1>2 DEF Link, ApplyFields
<1>4. Shape' /\ PlanInv' /\ RetireInv'
  BY <1>1, <1>3 DEF IInv, JobInv, Shape, PlanInv, RetireInv, Applying
<1>5. ApplyInv'
  BY <1>1, <1>2, <1>3 DEF IInv, JobInv, ApplyInv
<1>6. FilesInv'
  BY <1>1, PlanInPlace DEF IInv, FilesInv
<1>7. Pending' /\ Others'
  BY <1>1, <1>2, ApplyFacts DEF IInv, Pending, Others
<1> QED BY <1>4, <1>5, <1>6, <1>7 DEF IInv, JobInv

\* Linking fails: the plan stays in place once something was linked, and
\* nothing was started from the new files otherwise.
LEMMA LinkFailsSafe ==
    ASSUME IInv, LinkFails
    PROVE  IInv'
<1>1. /\ job.pc = "link"
      /\ UNCHANGED <<manifest, disk, dirs, retired, link, supervised, live, unedited>>
  BY DEF LinkFails, services
<1>2. job.pc \in Applying /\ DOMAIN job = ApplyFields
  BY <1>1, ApplyFacts DEF Applying
<1>3. FilesInv'
  BY <1>1 DEF IInv, FilesInv
<1>4. CASE job.linked # {}
  <2>1. job' = Idle /\ outcome' = "activation"
    BY <1>4 DEF LinkFails
  <2>3. Pending'
    BY <2>1 DEF Pending, Idle
  <2>4. Others'
    BY <1>1, <2>1 DEF IInv, Others
  <2> QED BY <1>3, <2>1, <2>3, <2>4, IdleJob DEF IInv
<1>5. CASE job.linked = {}
  <2>1. outcome' = outcome /\ job' = [job EXCEPT !.pc = "undo"]
    BY <1>5 DEF LinkFails
  <2>2. /\ job'.pc = "undo"
        /\ job'.plan = job.plan /\ job'.previous = job.previous /\ job'.made = job.made
        /\ job'.written = job.written /\ job'.linked = {}
        /\ DOMAIN job' = ApplyFields
    BY <1>2, <1>5, <2>1 DEF ApplyFields
  <2>3. Shape' /\ PlanInv' /\ RetireInv'
    BY <1>1, <2>2 DEF IInv, JobInv, Shape, PlanInv, RetireInv, Applying
  <2>4. ApplyInv'
    BY <1>1, <1>2, <1>5, <2>2 DEF IInv, JobInv, ApplyInv
  <2>5. Pending' /\ Others'
    BY <1>1, <1>2, <2>1, ApplyFacts DEF IInv, Pending, Others
  <2> QED BY <1>3, <2>3, <2>4, <2>5 DEF IInv, JobInv
<1> QED BY <1>4, <1>5

\* Steps that only end the job.
LEMMA EndSafe ==
    ASSUME IInv, job' = Idle, outcome' \in {"none", "done", "fault"},
           UNCHANGED <<manifest, disk, dirs, retired, link, supervised, live, unedited>>
    PROVE  IInv'
<1>1. FilesInv' /\ Others'
  BY DEF IInv, FilesInv, Others
<1>2. Pending'
  BY DEF Pending, Idle
<1> QED BY <1>1, <1>2, IdleJob DEF IInv

-----------------------------------------------------------------------------
(***************************************************************************)
(* The undo.                                                               *)
(***************************************************************************)

\* A chain that could be started before the apply can be started from any
\* mixture of its files before and after.
LEMMA MixtureRuns ==
    ASSUME IInv, job.pc \in Applying, NEW d,
           \A f \in File : d[f] \in {job.previous[f], job.plan},
           NEW c \in Ready(job.previous)
    PROVE  c \in Ready(d) /\ (\A k \in PerChain : d[<<k, c>>] # None) /\ c \in DOMAIN d[Registry]
<1>1. c \in Chain /\ \A k \in PerChain : job.previous[<<k, c>>] # None
  BY ApplyFacts DEF Sound, Ready
<1>2. c \in DOMAIN job.previous[Registry] /\ DOMAIN job.previous[Registry] \subseteq DOMAIN job.plan
  BY ApplyFacts DEF Sound, IInv, JobInv, ApplyInv
<1>3. job.plan # None
  BY ApplyFacts
<1>4. \A k \in PerChain : d[<<k, c>>] # None
  BY <1>1, <1>3, FileFacts
<1>5. d[Registry] \in {job.previous[Registry], job.plan}
  BY FileFacts
<1>6. c \in DOMAIN d[Registry]
  BY <1>2, <1>5
<1> QED BY <1>1, <1>4, <1>6 DEF Ready, PerChain

\* The files after one of them was put back.
LEMMA UndoFilesSafe ==
    ASSUME IInv, NEW f \in File, Undo(f)
    PROVE  FilesInv'
<1>1. /\ job.pc = "undo" /\ NextUndo(f) /\ disk' = [disk EXCEPT ![f] = job.previous[f]]
      /\ UNCHANGED <<dirs, link, supervised>>
  BY DEF Undo, services
<1>2. job.pc \in Applying
  BY <1>1 DEF Applying
<1>3. Disk(disk) /\ Sound(disk) /\ Housed(disk, dirs)
  BY DEF IInv, FilesInv
<1>4. Disk(job.previous) /\ Housed(job.previous, dirs) /\ DOMAIN job.plan \subseteq Chain
  BY <1>2, ApplyFacts
<1>5. /\ disk' = [g \in File |-> disk'[g]]
      /\ disk'[f] = job.previous[f] /\ \A g \in File : g # f => disk'[g] = disk[g]
  BY <1>1, <1>3 DEF Disk
<1>6. \A g \in File : /\ disk[g] \in {job.previous[g], job.plan}
                      /\ g \notin job.written => disk[g] = job.previous[g]
  BY <1>2 DEF IInv, JobInv, ApplyInv
<1>7. \A g \in File : disk'[g] \in {job.previous[g], job.plan}
  BY <1>5, <1>6
<1>8. \A c \in Chain, k \in PerChain : disk'[<<k, c>>] \in {job.previous[<<k, c>>], disk[<<k, c>>]}
  BY <1>5, FileFacts
<1>9. Disk(disk')
  <2>1. \A c \in Chain, k \in PerChain : disk'[<<k, c>>] \in Manifest \cup {None}
    BY <1>3, <1>4, <1>8 DEF Disk
  <2>2. disk'[Registry] \in {job.previous[Registry], job.plan}
    BY <1>7, FileFacts
  <2>3. DOMAIN disk'[Registry] \subseteq Chain
    BY <1>4, <2>2 DEF Disk
  <2> QED BY <1>5, <2>1, <2>3 DEF Disk
<1>10. Housed(disk', dirs)
  BY <1>3, <1>4, <1>8 DEF Housed
<1>11. ASSUME NEW c \in Chain, disk'[<<"ready", c>>] # None
       PROVE  (\A k \in PerChain : disk'[<<k, c>>] # None) /\ c \in DOMAIN disk'[Registry]
  <2>1. CASE c \in Ready(job.previous)
    BY <1>2, <1>7, <2>1, MixtureRuns
  <2>2. CASE c \notin Ready(job.previous)
    <3>1. job.previous[<<"ready", c>>] = None /\ <<"ready", c>> \in File
      BY <2>2, FileFacts DEF Ready, PerChain
    <3>2. f # <<"ready", c>> /\ <<"ready", c>> \in job.written /\ disk[<<"ready", c>>] # None
      BY <1>5, <1>6, <1>11, <3>1
    <3>3. ~Before(f, <<"ready", c>>)
      BY <1>1, <3>2 DEF NextUndo
    <3>4. f # Registry /\ \A k \in PerChain : f # <<k, c>>
      BY <3>2, <3>3, WriteOrder DEF PerChain
    <3>5. disk'[Registry] = disk[Registry] /\ \A k \in PerChain : disk'[<<k, c>>] = disk[<<k, c>>]
      BY <1>5, <3>4, FileFacts
    <3> QED BY <1>3, <3>2, <3>5 DEF Sound, Ready
  <2> QED BY <2>1, <2>2
<1>12. Sound(disk')
  BY <1>11 DEF Sound, Ready
<1>13. link \cup supervised \subseteq Ready(job.previous)
  BY <1>1, <1>2 DEF IInv, JobInv, ApplyInv
<1>14. link \cup supervised \subseteq Ready(disk')
  BY <1>2, <1>7, <1>13, MixtureRuns
<1> QED BY <1>1, <1>9, <1>10, <1>12, <1>14 DEF FilesInv, Disk, Sound, Housed, Ready

\* A file is put back: the job.
LEMMA UndoSafe ==
    ASSUME IInv, NEW f \in File, Undo(f)
    PROVE  IInv'
<1>1. /\ job.pc = "undo" /\ disk' = [disk EXCEPT ![f] = job.previous[f]]
      /\ UNCHANGED <<manifest, dirs, retired, link, supervised, live, outcome, unedited>>
  BY DEF Undo, services
<1>2. job.pc \in Applying /\ DOMAIN job = ApplyFields
  BY <1>1, ApplyFacts DEF Applying
<1>3. /\ job'.pc = "undo"
      /\ job'.plan = job.plan /\ job'.previous = job.previous /\ job'.made = job.made
      /\ job'.written = job.written \ {f} /\ job'.linked = job.linked
      /\ DOMAIN job' = ApplyFields
  BY <1>1, <1>2 DEF Undo, ApplyFields
<1>4. Shape' /\ PlanInv' /\ RetireInv'
  BY <1>1, <1>3 DEF IInv, JobInv, Shape, PlanInv, RetireInv, Applying
<1>5. disk'[f] = job.previous[f] /\ \A g \in File : g # f => disk'[g] = disk[g]
  BY <1>1 DEF IInv, FilesInv, Disk
<1>6. ApplyInv
  BY DEF IInv, JobInv
<1>7. \A g \in File : /\ g \notin job'.written => disk'[g] = job.previous[g]
                      /\ disk'[g] \in {job.previous[g], job.plan}
  BY <1>2, <1>3, <1>5, <1>6 DEF ApplyInv
<1>8. ApplyInv'
  BY <1>1, <1>2, <1>3, <1>6, <1>7 DEF ApplyInv
<1>9. Pending' /\ Others'
  BY <1>1, <1>2, ApplyFacts DEF IInv, Pending, Others
<1> QED BY <1>4, <1>8, <1>9, UndoFilesSafe DEF IInv, JobInv

\* With nothing left to restore, every file is what it was.
LEMMA AllRestored ==
    ASSUME IInv, job.pc = "undo", job.written = {}
    PROVE  disk = job.previous
<1>1. \A f \in File : disk[f] = job.previous[f]
  BY DEF IInv, JobInv, ApplyInv, Applying
<1>2. disk = [f \in File |-> disk[f]] /\ job.previous = [f \in File |-> job.previous[f]]
  BY ApplyFacts DEF IInv, FilesInv, Disk, Applying
<1> QED BY <1>1, <1>2

\* The directories the apply made are removed; they hold nothing.
LEMMA UndoDirectoriesSafe ==
    ASSUME IInv, UndoDirectories
    PROVE  IInv'
<1>1. /\ job.pc = "undo" /\ job.written = {} /\ dirs' = dirs \ job.made
      /\ job' = Idle /\ outcome' = "restored"
      /\ UNCHANGED <<manifest, disk, retired, link, supervised, live, unedited>>
  BY DEF UndoDirectories, services
<1>2. \A c \in job.made \cap Chain, k \in PerChain : disk[<<k, c>>] = None
  BY <1>1, AllRestored DEF IInv, JobInv, ApplyInv, Applying
<1>3. Housed(disk, dirs')
  BY <1>1, <1>2 DEF IInv, FilesInv, Housed
<1>4. FilesInv'
  BY <1>1, <1>3 DEF IInv, FilesInv, Housed
<1>5. Others' /\ Pending'
  BY <1>1 DEF IInv, Others, Pending, Idle
<1> QED BY <1>1, <1>4, <1>5, IdleJob DEF IInv

-----------------------------------------------------------------------------
(***************************************************************************)
(* retire_service, and what goes on around the installer.                  *)
(***************************************************************************)

\* The files without those of a chain.
LEMMA MovedFacts ==
    ASSUME NEW d, NEW c \in Chain
    PROVE  /\ Moved(d, c) = [f \in File |-> Moved(d, c)[f]]
           /\ Moved(d, c)[Registry] = d[Registry]
           /\ \A b \in Chain, k \in PerChain :
                Moved(d, c)[<<k, b>>] = IF b = c THEN None ELSE d[<<k, b>>]
           /\ Ready(Moved(d, c)) = Ready(d) \ {c}
<1>1. Moved(d, c) = [f \in File |-> Moved(d, c)[f]]
  BY DEF Moved
<1>2. Moved(d, c)[Registry] = d[Registry]
  BY FileFacts DEF Moved, FilesOf, Registry
<1>3. \A b \in Chain, k \in PerChain :
        Moved(d, c)[<<k, b>>] = IF b = c THEN None ELSE d[<<k, b>>]
  BY FileFacts DEF Moved, FilesOf
<1>4. Ready(Moved(d, c)) = Ready(d) \ {c}
  BY <1>3 DEF Ready, PerChain
<1> QED BY <1>1, <1>2, <1>3, <1>4

\* The directory of a chain at rest is moved away.
LEMMA RetireSafe ==
    ASSUME IInv, NEW c \in Chain, Retire(c)
    PROVE  IInv'
<1>1. /\ c \notin link /\ c \notin supervised
      /\ job' = [pc |-> "retire", target |-> c, previous |-> disk]
      /\ disk' = Moved(disk, c) /\ dirs' = dirs \ {c} /\ retired' = retired \cup {c}
      /\ outcome' = "none" /\ UNCHANGED <<manifest, link, supervised, live, unedited>>
  BY DEF Retire, Quiescent, services
<1>2. Disk(disk) /\ Sound(disk) /\ Housed(disk, dirs) /\ link \cup supervised \subseteq Ready(disk)
  BY DEF IInv, FilesInv
<1>3. /\ disk' = [f \in File |-> disk'[f]] /\ disk'[Registry] = disk[Registry]
      /\ \A b \in Chain, k \in PerChain : disk'[<<k, b>>] = IF b = c THEN None ELSE disk[<<k, b>>]
      /\ Ready(disk') = Ready(disk) \ {c}
  BY <1>1, MovedFacts
<1>4. Disk(disk')
  BY <1>2, <1>3 DEF Disk
<1>5. Sound(disk')
  <2> SUFFICES ASSUME NEW b \in Ready(disk')
               PROVE  (\A k \in PerChain : disk'[<<k, b>>] # None) /\ b \in DOMAIN disk'[Registry]
    BY DEF Sound
  <2>1. b \in Ready(disk) /\ b # c /\ b \in Chain
    BY <1>3 DEF Ready
  <2> QED BY <1>2, <1>3, <2>1 DEF Sound
<1>6. Housed(disk', dirs')
  BY <1>1, <1>2, <1>3 DEF Housed
<1>7. FilesInv'
  BY <1>1, <1>2, <1>3, <1>4, <1>5, <1>6 DEF FilesInv, Disk, Sound, Housed, Ready
<1>8. job'.pc = "retire" /\ job'.target = c /\ job'.previous = disk
  BY <1>1
<1>9. Housed(disk, dirs' \cup {c})
  BY <1>1, <1>2 DEF Housed
<1>10. Shape' /\ PlanInv' /\ ApplyInv' /\ RetireInv'
  BY <1>1, <1>2, <1>8, <1>9 DEF Shape, PlanInv, ApplyInv, RetireInv, Applying
<1>11. Pending' /\ Others'
  BY <1>1 DEF IInv, Pending, Others
<1> QED BY <1>7, <1>10, <1>11 DEF IInv, JobInv

\* What the invariant says of a retirement under way.
LEMMA RetireFacts ==
    ASSUME IInv, job.pc = "retire"
    PROVE  /\ job.target \in Chain \ (link \cup supervised)
           /\ Disk(job.previous) /\ Sound(job.previous)
           /\ Housed(job.previous, dirs \cup {job.target})
           /\ disk = Moved(job.previous, job.target)
           /\ Ready(disk) = Ready(job.previous) \ {job.target}
           /\ outcome = "none"
<1>1. RetireInv
  BY DEF IInv, JobInv
<1>2. job.target \in Chain /\ disk = Moved(job.previous, job.target)
  BY <1>1 DEF RetireInv
<1>3. Ready(disk) = Ready(job.previous) \ {job.target}
  BY <1>2, MovedFacts
<1> QED BY <1>1, <1>2, <1>3, BusyOutcome DEF RetireInv

\* The chain is taken out of the registry; it has no marker any more.
LEMMA DisownSafe ==
    ASSUME IInv, Disown
    PROVE  IInv'
<1>1. /\ job.pc = "retire" /\ job' = Idle
      /\ disk' = [disk EXCEPT ![Registry] = [c \in Owned \ {job.target} |-> disk[Registry][c]]]
      /\ UNCHANGED <<manifest, dirs, retired, link, supervised, live, outcome, unedited>>
  BY DEF Disown, services
<1>2. Disk(disk) /\ Sound(disk) /\ Housed(disk, dirs) /\ link \cup supervised \subseteq Ready(disk)
  BY DEF IInv, FilesInv
<1>3. /\ disk' = [f \in File |-> disk'[f]]
      /\ DOMAIN disk'[Registry] = DOMAIN disk[Registry] \ {job.target}
      /\ \A f \in File : f # Registry => disk'[f] = disk[f]
  BY <1>1, <1>2, FileFacts DEF Disk, Owned
<1>4. \A c \in Chain, k \in PerChain : disk'[<<k, c>>] = disk[<<k, c>>]
  BY <1>3, FileFacts
<1>5. Ready(disk') = Ready(disk) /\ job.target \notin Ready(disk)
  BY <1>1, <1>4, RetireFacts DEF Ready, PerChain
<1>6. Disk(disk')
  BY <1>2, <1>3, <1>4 DEF Disk
<1>7. Sound(disk')
  <2> SUFFICES ASSUME NEW b \in Ready(disk')
               PROVE  (\A k \in PerChain : disk'[<<k, b>>] # None) /\ b \in DOMAIN disk'[Registry]
    BY DEF Sound
  <2>1. b \in Ready(disk) /\ b # job.target /\ b \in Chain
    BY <1>5 DEF Ready
  <2> QED BY <1>2, <1>3, <1>4, <2>1 DEF Sound
<1>8. Housed(disk', dirs)
  BY <1>2, <1>4 DEF Housed
<1>9. FilesInv'
  BY <1>1, <1>2, <1>5, <1>6, <1>7, <1>8 DEF FilesInv, Disk, Sound, Housed, Ready
<1>10. Pending' /\ Others'
  BY <1>1, RetireFacts DEF IInv, Pending, Others
<1> QED BY <1>1, <1>9, <1>10, IdleJob DEF IInv

\* The directory is moved back.
LEMMA DisownFailsSafe ==
    ASSUME IInv, DisownFails
    PROVE  IInv'
<1>1. /\ job.pc = "retire" /\ job' = Idle /\ disk' = job.previous
      /\ dirs' = dirs \cup {job.target} /\ retired' = retired \ {job.target}
      /\ UNCHANGED <<manifest, link, supervised, live, outcome, unedited>>
  BY DEF DisownFails, services
<1>2. link \cup supervised \subseteq Ready(job.previous)
  BY <1>1, RetireFacts DEF IInv, FilesInv
<1>3. FilesInv'
  BY <1>1, <1>2, RetireFacts DEF FilesInv, Disk, Sound, Housed, Ready
<1>4. Pending' /\ Others'
  BY <1>1, RetireFacts DEF IInv, Pending, Others
<1> QED BY <1>1, <1>3, <1>4, IdleJob DEF IInv

\* A boot links what has a launcher and a marker, and ends everything else.
LEMMA RebootSafe ==
    ASSUME IInv, Reboot
    PROVE  IInv'
<1>1. /\ link' = {c \in Chain : Bootable(c)} /\ supervised' = {} /\ job' = Idle
      /\ live' = [c \in Chain |-> None]
      /\ outcome' = "none" /\ UNCHANGED <<manifest, disk, dirs, retired, unedited>>
  BY DEF Reboot
<1>2. link' \subseteq Ready(disk)
  BY <1>1 DEF Bootable, Has, Ready
<1>3. FilesInv' /\ Others' /\ Pending'
  BY <1>1, <1>2 DEF IInv, FilesInv, Others, Pending
<1> QED BY <1>1, <1>3, IdleJob DEF IInv

\* Supervisors, processes and the operator: nothing new is linked.
LEMMA WorldSafe ==
    ASSUME IInv, manifest' \in Manifest, unedited' \in BOOLEAN, DOMAIN live' = Chain,
           link' \cup supervised' \subseteq link \cup supervised,
           link' \subseteq Chain, supervised' \subseteq Chain,
           UNCHANGED <<disk, dirs, retired, job, outcome>>
    PROVE  IInv'
<1>1. FilesInv' /\ Others' /\ Pending'
  BY DEF IInv, FilesInv, Others, Pending, Owned
<1>2. Shape' /\ PlanInv'
  BY DEF IInv, JobInv, Shape, PlanInv, Owned
<1>3. ApplyInv'
  BY DEF IInv, JobInv, ApplyInv
<1>4. RetireInv'
  BY DEF IInv, JobInv, RetireInv
<1> QED BY <1>1, <1>2, <1>3, <1>4 DEF IInv, JobInv

\* Every step keeps the invariant.
LEMMA NextIInv == IInv /\ [Next]_vars => IInv'
<1> SUFFICES ASSUME IInv, [Next]_vars PROVE IInv'
  OBVIOUS
<1>1. CASE Apply
  <2>1. CASE Finish
    BY <2>1, EndSafe DEF Finish, services
  <2>2. CASE UndoFails
    BY <2>2, EndSafe DEF UndoFails, services
  <2>3. CASE \E f \in File : Write(f) \/ WriteFails(f) \/ Undo(f)
    BY <2>3, WriteSafe, WriteFailsSafe, UndoSafe
  <2>4. CASE \E c \in Chain : Link(c)
    BY <2>4, LinkSafe
  <2> QED BY <1>1, <2>1, <2>2, <2>3, <2>4, LookAtBusSafe, PreflightSafe, BeginSafe, LinkFailsSafe,
             UndoDirectoriesSafe DEF Apply
<1>2. CASE Retirement
  BY <1>2, RetireSafe, DisownSafe, DisownFailsSafe DEF Retirement
<1>3. CASE World
  <2>1. /\ manifest \in Manifest /\ link \subseteq Chain /\ supervised \subseteq Chain
        /\ unedited \in BOOLEAN /\ DOMAIN live = Chain
    BY DEF IInv, Others
  <2>2. CASE Kill
    BY <2>2, EndSafe DEF Kill, services
  <2>3. CASE EditManifest
    BY <2>1, <2>3, WorldSafe DEF EditManifest, services
  <2>4. ASSUME NEW c \in Chain, Supervise(c) \/ RunProcess(c) \/ StopService(c) \/ Unlink(c)
        PROVE  IInv'
    <3>1. /\ UNCHANGED <<manifest, disk, dirs, retired, job, outcome, unedited>>
          /\ link' \subseteq link /\ supervised' \subseteq link \cup supervised
          /\ DOMAIN live' = DOMAIN live
      BY <2>4 DEF Supervise, RunProcess, StopService, Unlink
    <3> QED BY <2>1, <3>1, WorldSafe
  <2> QED BY <1>3, <2>2, <2>3, <2>4, RebootSafe DEF World
<1>4. CASE UNCHANGED vars
  <2>1. UNCHANGED <<manifest, disk, dirs, retired, link, supervised, live, job, outcome, unedited>>
    BY <1>4 DEF vars, services
  <2> QED BY <2>1, WorldSafe DEF IInv, Others
<1> QED BY <1>1, <1>2, <1>3, <1>4 DEF Next

\* The invariant holds throughout.
LEMMA SpecIInv == Spec => []IInv
BY InitIInv, NextIInv, PTL DEF Spec

-----------------------------------------------------------------------------
(***************************************************************************)
(* Theorems.                                                               *)
(***************************************************************************)

\* The installer's files hold manifests, the registry a part of one, and every
\* file lies in a directory that exists.
THEOREM TypeCorrect == Spec => []TypeOK
<1>1. IInv => TypeOK
  BY DEF IInv, Others, FilesInv, Disk, Housed, TypeOK, Has, Owned
<1> QED BY <1>1, SpecIInv, PTL

\* topology_install.py, setup: wherever an apply, its undo or a retirement was
\* cut off, a linked service has its launchers and its marker.
THEOREM LinkedHasFiles == Spec => []LinkedIsComplete
<1>1. IInv => LinkedIsComplete
  BY DEF IInv, FilesInv, Sound, LinkedIsComplete, Has
<1> QED BY <1>1, SpecIInv, PTL

\* The same for what a supervisor is running already.
THEOREM SupervisedHasFiles == Spec => []SupervisedKeepsFiles
<1>1. IInv => SupervisedKeepsFiles
  BY DEF IInv, FilesInv, Sound, SupervisedKeepsFiles, Has
<1> QED BY <1>1, SpecIInv, PTL

\* The registry names everything that runs or that a boot would start.
THEOREM NothingAbandoned == Spec => []StartableIsOwned
<1>1. ASSUME IInv PROVE StartableIsOwned
  <2>1. \A c \in Ready(disk) : c \in Owned
    BY <1>1 DEF IInv, FilesInv, Sound, Owned
  <2>2. \A c \in Chain : Bootable(c) => c \in Ready(disk)
    BY DEF Bootable, Has, Ready
  <2> QED BY <1>1, <2>1, <2>2 DEF IInv, FilesInv, StartableIsOwned
<1> QED BY <1>1, SpecIInv, PTL

\* While the manifest is not edited: whatever answers on D-Bus and overlaps with
\* it is one of its own identities or was seen before the preflight; from the
\* preflight on, there is nothing of the second kind.
Undisputed(S) ==
    \A c \in DOMAIN manifest, i \in S : Overlaps(i, manifest[c]) => i = manifest[c]

SteadyInv ==
    unedited =>
        /\ job.pc = "looked" => Undisputed(Answering \ job.seen)
        /\ job.pc \in Applying \cup {"planned"} => job.plan = manifest
        /\ job.pc \in Applying \cup {"planned"} \/ outcome = "activation" =>
              /\ Undisputed(Answering)
              /\ \A c \in DOMAIN manifest, i \in Foreign : ~Overlaps(i, manifest[c])
        /\ outcome = "activation" => disk[Registry] = manifest

\* A process that starts takes an identity that disputes no other of its manifest.
LEMMA OwnIdentity ==
    ASSUME manifest \in Manifest, NEW c \in DOMAIN manifest
    PROVE  Undisputed({manifest[c]})
<1>1. \A d \in DOMAIN manifest : Overlaps(manifest[c], manifest[d]) => c = d
  BY ManifestAssumption
<1> QED BY <1>1 DEF Undisputed

\* What answers after a step of a service answered before it, or is its own.
LEMMA AnsweringSteps ==
    ASSUME IInv, NEW c \in Chain, Supervise(c) \/ RunProcess(c) \/ StopService(c) \/ Unlink(c)
    PROVE  \A i \in Answering' : i \in Answering \/ Undisputed({i})
<1> SUFFICES ASSUME NEW i \in Answering', i \notin Answering PROVE Undisputed({i})
  OBVIOUS
<1>1. PICK d \in Chain : i = live'[d] /\ i # None
  BY DEF Answering
<1>2. i # live[d]
  BY <1>1 DEF Answering
<1>3. CASE RunProcess(c)
  <2>1. live' = [live EXCEPT ![c] = IF c \in DOMAIN manifest THEN manifest[c] ELSE None]
    BY <1>3 DEF RunProcess
  <2>2. live'[d] = live[d] \/ live'[d] = None \/ (c \in DOMAIN manifest /\ live'[d] = manifest[c])
    BY <2>1 DEF IInv, Others
  <2>3. c \in DOMAIN manifest /\ i = manifest[c]
    BY <1>1, <1>2, <2>2
  <2> QED BY <2>3, OwnIdentity DEF IInv, Others
<1>4. CASE Supervise(c) \/ StopService(c) \/ Unlink(c)
  <2>1. live' = live \/ live' = [live EXCEPT ![c] = None]
    BY <1>4 DEF Supervise, StopService, Unlink
  <2>2. live'[d] = live[d] \/ live'[d] = None
    BY <2>1 DEF IInv, Others
  <2> QED BY <1>1, <1>2, <2>2
<1> QED BY <1>3, <1>4

\* The plan that preflight accepts is disputed by nothing that answers by then.
LEMMA AcceptedUndisputed ==
    ASSUME PlanAccepted(manifest, job.seen), Undisputed(Answering \ job.seen)
    PROVE  /\ Undisputed(Answering)
           /\ \A c \in DOMAIN manifest, i \in Foreign : ~Overlaps(i, manifest[c])
<1>1. \A c \in DOMAIN manifest, i \in job.seen : Overlaps(i, manifest[c]) => i = manifest[c]
  BY DEF PlanAccepted, LiveConflict
<1> QED BY <1>1 DEF Undisputed, PlanAccepted

\* A step that changes neither the manifest nor what answers, and starts nothing.
LEMMA QuietSteady ==
    ASSUME SteadyInv, UNCHANGED <<manifest, live, unedited>>,
           outcome' = "activation" =>
              /\ outcome = "activation" \/ job.pc \in Applying
              /\ disk'[Registry] = IF outcome = "activation" THEN disk[Registry] ELSE job.plan,
           job'.pc = "looked" => job.pc = "looked" /\ job'.seen = job.seen,
           job'.pc \in Applying \cup {"planned"} =>
              job.pc \in Applying \cup {"planned"} /\ job'.plan = job.plan
    PROVE  SteadyInv'
<1>1. Answering' = Answering /\ \A S : Undisputed(S)' <=> Undisputed(S)
  BY DEF Answering, Undisputed
<1> QED BY <1>1 DEF SteadyInv

\* Every step keeps a manifest that nobody edits undisputed.
LEMMA NextSteady == IInv /\ SteadyInv /\ [Next]_vars => SteadyInv'
<1> SUFFICES ASSUME IInv, SteadyInv, [Next]_vars PROVE SteadyInv'
  OBVIOUS
<1>1. CASE LookAtBus
  <2>1. /\ job'.pc = "looked" /\ job'.seen = Answering /\ outcome' = "none"
        /\ UNCHANGED <<manifest, live>>
    BY <1>1 DEF LookAtBus, services
  <2>2. Answering' \ job'.seen = {}
    BY <2>1 DEF Answering
  <2> QED BY <2>1, <2>2 DEF SteadyInv, Undisputed, Applying
<1>2. CASE Preflight
  <2>1. /\ job.pc = "looked" /\ UNCHANGED <<manifest, live, outcome, disk, unedited>>
        /\ outcome = "none"
    BY <1>2, BusyOutcome DEF Preflight, services
  <2>2. CASE PlanAccepted(manifest, job.seen)
    <3>1. job'.pc = "planned" /\ job'.plan = manifest
      BY <1>2, <2>2 DEF Preflight
    <3>2. unedited => Undisputed(Answering)
                      /\ \A c \in DOMAIN manifest, i \in Foreign : ~Overlaps(i, manifest[c])
      BY <2>1, <2>2, AcceptedUndisputed DEF SteadyInv
    <3>3. unedited => Undisputed(Answering)'
      BY <2>1, <3>2 DEF Undisputed, Answering
    <3> QED BY <2>1, <3>1, <3>2, <3>3 DEF SteadyInv, Applying
  <2>3. CASE ~PlanAccepted(manifest, job.seen)
    BY <1>2, <2>1, <2>3 DEF Preflight, SteadyInv, Idle, Applying
  <2> QED BY <2>2, <2>3
<1>3. CASE Begin
  <2>1. /\ job.pc = "planned" /\ UNCHANGED <<manifest, live, outcome, disk, unedited>>
        /\ outcome = "none"
    BY <1>3, BusyOutcome DEF Begin, services
  <2>2. job'.pc = "idle" \/ (job'.pc = "write" /\ job'.plan = job.plan)
    BY <1>3 DEF Begin, Idle
  <2> QED BY <2>1, <2>2, QuietSteady DEF Applying
<1>4. ASSUME NEW f \in File, Write(f) \/ WriteFails(f) \/ Undo(f)
      PROVE  SteadyInv'
  <2>1. job.pc \in Applying /\ UNCHANGED <<manifest, live, outcome, unedited>>
    BY <1>4 DEF Write, WriteFails, Undo, services, Applying
  <2>2. outcome = "none" /\ DOMAIN job = ApplyFields
    BY <2>1, ApplyFacts
  <2>3. job'.pc \in Applying /\ job'.plan = job.plan
    BY <1>4, <2>1, <2>2 DEF Write, WriteFails, Undo, ApplyFields, Applying
  <2> QED BY <2>1, <2>2, <2>3, QuietSteady DEF Applying
<1>5. ASSUME NEW c \in Chain, Link(c)
      PROVE  SteadyInv'
  <2>1. /\ job.pc = "link" /\ job.pc \in Applying
        /\ UNCHANGED <<manifest, live, outcome, unedited>>
        /\ job' = [job EXCEPT !.linked = @ \cup {c}]
    BY <1>5 DEF Link, Applying
  <2>2. outcome = "none" /\ DOMAIN job = ApplyFields
    BY <2>1, ApplyFacts
  <2>3. job'.pc = "link" /\ job'.plan = job.plan
    BY <2>1, <2>2 DEF ApplyFields
  <2> QED BY <2>1, <2>2, <2>3, QuietSteady DEF Applying
<1>6. CASE LinkFails
  <2>1. /\ job.pc = "link" /\ job.pc \in Applying
        /\ UNCHANGED <<manifest, live, disk, unedited>>
    BY <1>6 DEF LinkFails, services, Applying
  <2>2. outcome = "none" /\ DOMAIN job = ApplyFields
    BY <2>1, ApplyFacts
  <2>3. disk[Registry] = job.plan
    BY <2>1, PlanInPlace
  <2>4. \/ job'.pc = "idle"
        \/ job'.pc = "undo" /\ job'.plan = job.plan
    BY <1>6, <2>2 DEF LinkFails, Idle, ApplyFields
  <2> QED BY <2>1, <2>2, <2>3, <2>4, QuietSteady DEF Applying
<1>7. CASE Finish \/ UndoFails \/ UndoDirectories \/ Kill
  <2>1. /\ job'.pc = "idle" /\ outcome' # "activation"
        /\ UNCHANGED <<manifest, live, unedited>>
    BY <1>7 DEF Finish, UndoFails, UndoDirectories, Kill, services, Idle
  <2> QED BY <2>1, QuietSteady DEF Applying
<1>8. CASE Retirement
  <2>1. ASSUME NEW c \in Chain, Retire(c)
        PROVE  job'.pc = "retire" /\ outcome' = "none" /\ UNCHANGED <<manifest, live, unedited>>
    BY <2>1 DEF Retire, services
  <2>2. CASE Disown \/ DisownFails
    <3>1. /\ job.pc = "retire" /\ job'.pc = "idle"
          /\ UNCHANGED <<manifest, live, unedited, outcome>>
      BY <2>2 DEF Disown, DisownFails, services, Idle
    <3> QED BY <3>1, BusyOutcome, QuietSteady DEF Applying
  <2>3. ASSUME NEW c \in Chain, Retire(c) PROVE SteadyInv'
    BY <2>1, <2>3, QuietSteady DEF Applying
  <2> QED BY <1>8, <2>2, <2>3 DEF Retirement
<1>9. CASE Reboot
  BY <1>9 DEF Reboot, SteadyInv, Idle, Applying
<1>10. CASE EditManifest
  BY <1>10 DEF EditManifest, SteadyInv
<1>11. ASSUME NEW c \in Chain, Supervise(c) \/ RunProcess(c) \/ StopService(c) \/ Unlink(c)
       PROVE  SteadyInv'
  <2>1. UNCHANGED <<manifest, disk, job, outcome, unedited>>
    BY <1>11 DEF Supervise, RunProcess, StopService, Unlink
  <2>2. \A i \in Answering' : i \in Answering \/ Undisputed({i})
    BY <1>11, AnsweringSteps
  <2>3. /\ Undisputed(Answering) => Undisputed(Answering')
        /\ Undisputed(Answering \ job.seen) => Undisputed(Answering' \ job.seen)
    BY <2>2 DEF Undisputed
  <2>4. /\ Undisputed(Answering') => Undisputed(Answering)'
        /\ Undisputed(Answering' \ job.seen) => Undisputed(Answering \ job.seen)'
    BY <2>1 DEF Undisputed
  <2> QED BY <2>1, <2>3, <2>4 DEF SteadyInv
<1>12. CASE UNCHANGED vars
  BY <1>12, QuietSteady DEF vars, services
<1> QED BY <1>1, <1>2, <1>3, <1>4, <1>5, <1>6, <1>7, <1>8, <1>9, <1>10, <1>11, <1>12
           DEF Next, Apply, World

\* apply_plan: an activation that stopped half-way can be applied again.  What
\* answers on D-Bus and overlaps with the manifest are its own identities: the
\* preflight refused to start beside others, and a process that starts since
\* reads the same manifest; the registry names them, so they are no conflict.
THEOREM ActivationCanBeRepeated == Spec => []ActivationResumable
<1>1. Init => SteadyInv
  BY DEF Init, SteadyInv
<1>2. ASSUME SteadyInv PROVE ActivationResumable
  <2> SUFFICES ASSUME outcome = "activation", unedited PROVE PlanAccepted(manifest, Answering)
    BY DEF ActivationResumable
  <2>1. /\ Owned = DOMAIN manifest /\ disk[Registry] = manifest
        /\ Undisputed(Answering)
        /\ \A c \in DOMAIN manifest, i \in Foreign : ~Overlaps(i, manifest[c])
    BY <1>2 DEF SteadyInv, Owned
  <2>2. ~LiveConflict(manifest, Answering)
    BY <2>1 DEF LiveConflict, Undisputed
  <2> QED BY <2>1, <2>2 DEF PlanAccepted
<1> QED BY <1>1, <1>2, SpecIInv, NextSteady, PTL DEF Spec

\* apply_plan: a failed apply that reports a complete rollback has put back
\* every file and removed every directory it made.
THEOREM RollbackIsComplete == Spec => FailedApplyRestores
<1>1. ASSUME IInv, [Next]_vars, job.pc = "undo", outcome' = "restored", vars' # vars
      PROVE  disk' = job.previous /\ dirs' \cap job.made = {}
  <2>1. outcome = "none"
    BY <1>1, BusyOutcome
  <2>2. UndoDirectories
    <3>1. Next /\ outcome' # outcome /\ outcome' # "none"
      BY <1>1, <2>1
    <3>2. ~Retirement /\ ~World
      BY <3>1, <1>1 DEF Retirement, Retire, Disown, DisownFails, World, Kill, Reboot,
         EditManifest, Supervise, RunProcess, StopService, Unlink
    <3>3. Apply
      BY <3>1, <3>2 DEF Next
    <3> QED BY <1>1, <2>1, <3>3 DEF Apply, LookAtBus, Preflight, Begin, LinkFails, Finish, UndoFails,
               Write, WriteFails, Undo, Link
  <2>3. /\ job.written = {} /\ disk' = disk /\ dirs' = dirs \ job.made
    BY <2>2 DEF UndoDirectories
  <2> QED BY <1>1, <2>3, AllRestored
<1>2. IInv /\ [Next]_vars =>
        [job.pc = "undo" /\ outcome' = "restored" =>
            disk' = job.previous /\ dirs' \cap job.made = {}]_vars
  BY <1>1
<1> QED BY <1>2, SpecIInv, PTL DEF Spec, FailedApplyRestores
=============================================================================
