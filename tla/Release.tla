-------------------------------- MODULE Release --------------------------------
(***************************************************************************)
(* The release pipeline (scripts/release_state.py, release_versioned.py    *)
(* and release_control.py): workflow runs that reserve a version plan in a *)
(* ledger kept on a branch, build, consume the number, and publish a       *)
(* candidate; or promote the bytes of an accepted release candidate.       *)
(*                                                                         *)
(* All state is GitHub's.  Each action is one request that changes it,     *)
(* with the reads the code bases it on; a request that is refused, a check *)
(* that does not pass, a cancelled job and a killed runner are all Fail,   *)
(* which is possible between any two requests.  A ledger write succeeds    *)
(* only if the ledger is still the one that was read.  The workflow's      *)
(* concurrency group runs one run at a time; to see what the ledger        *)
(* protects without it, two runs may also be active at a time.             *)
(***************************************************************************)
EXTENDS Integers, Sequences, FiniteSetsExt

CONSTANTS
    Settings,       \* [parallel, runs, trouble]: runs active at a time - 1 is the
                    \* workflow's concurrency group - and bounds on runs created
                    \* and on failures, repeated attempts and interference
    MaxRuns,        \* bound: runs created under any setting
    MaxHead,        \* bound: commits of the default branch
    BaseOf,         \* the base version each commit declares
    TreeOf,         \* the workflow tree of each commit
    NumberFloor,    \* build_number_floor of the policy
    Requests,       \* channels asked for by workflow_dispatch
    None

\* Workflow runs, numbered in the order of their creation.
Runs == 1..MaxRuns

Channel == {"nightly", "beta", "rc", "stable"}
Ended == {"failed", "ended", "succeeded"}
Phase == {"queued", "preparing", "reserving", "building", "verifying", "beginning",
          "consuming", "tagging", "drafting", "reconciling", "uploading", "checking",
          "publishing", "storing"} \cup Ended

\* A tag is a base version, a channel and the numbers that follow the channel.
Tag == [base : Nat, channel : Channel, seq : Seq(Nat)]
Plan == [number : Nat, sha : 1..MaxHead, tag : Tag]
Ledger == [counter : Nat, floor : Nat, plans : [Runs -> Plan \cup {None}]]

\* What was built, and the request that made a release: a run and an attempt.
Attempt == Runs \X Nat

RunRecord ==
    [phase : Phase, event : {"push", "schedule", "dispatch"}, channel : Channel,
     sha : 1..MaxHead, attempt : Nat \ {0}, rc : Tag \cup {None}, plan : Plan \cup {None},
     seen : Seq(Ledger \cup {None}) \cup {None}, ref : 0..MaxHead,
     rel : Attempt \cup {None}, bytes : Attempt \cup {None}]

ASSUME ReleaseAssumption ==
    /\ Settings \subseteq [parallel : Nat \ {0}, runs : 1..MaxRuns, trouble : Nat]
    /\ MaxRuns \in Nat /\ MaxHead \in Nat \ {0} /\ NumberFloor \in Nat
    /\ BaseOf \in [1..MaxHead -> Nat] /\ TreeOf \in [1..MaxHead -> Nat]
    /\ Requests \subseteq Channel
    /\ None \notin Plan \cup Ledger \cup RunRecord \cup Attempt

VARIABLES
    setting,     \* the member of Settings in force
    head,        \* the default branch
    branch,      \* the ledger's branch exists
    ledger,      \* the ledger file, or None
    tags,        \* version tags: [tag, sha]
    releases,    \* GitHub releases, drafts included
    run,         \* the workflow runs
    issued,      \* history: reservations that were written
    shipped,     \* history: releases in the order they became public
    exposed,     \* history: the ledger was removed while a run that had found
                 \* none was about to write its own
    trouble      \* history: how often something went wrong

github == <<branch, ledger, tags, releases>>
vars == <<setting, exposed, head, github, run, issued, shipped, trouble>>

Started == {r \in Runs : run[r] # None}
Active == {r \in Started : run[r].phase \notin Ended \cup {"queued"}}

Automatic(r) == run[r].event \in {"push", "schedule"}
Stable(r) == run[r].channel = "stable"

At(r, p) == r \in Started /\ run[r].phase = p
Goto(r, p) == run' = [run EXCEPT ![r].phase = p]

\* The bound on what goes wrong.
Counted == trouble < setting.trouble /\ trouble' = trouble + 1

\* A run's own memory is gone with its runner.
Conclude(r, p) ==
    run' = [run EXCEPT ![r].phase = p, ![r].rc = None, ![r].plan = None,
                       ![r].seen = None, ![r].ref = 0, ![r].rel = None, ![r].bytes = None]

-----------------------------------------------------------------------------
(***************************************************************************)
(* Tags, releases and the ledger as the scripts read them.                 *)
(***************************************************************************)
StableTag(base) == [base |-> base, channel |-> "stable", seq |-> <<>>]
Taken == {x.tag : x \in tags} \cup {x.tag : x \in releases}
Public == {x \in releases : ~x.draft}

\* ensure_absent: neither tags nor releases nor drafts use it.
Absent(tag) == tag \notin Taken

NoLedger == [counter |-> 0, floor |-> 0, plans |-> [r \in Runs |-> None]]

\* read_state: a branch without its file is not a fresh repository.
Readable == ledger # None \/ ~branch
State == IF ledger = None THEN NoLedger ELSE ledger

Reserved == {State.plans[q] : q \in Runs} \ {None}

\* reserve_plan with next_sequence: above every sequence in use or reserved.
NextSequence(base, channel) ==
    LET used == Taken \cup {p.tag : p \in Reserved} IN
    1 + Max({0} \cup {t.seq[1] : t \in {u \in used : u.base = base /\ u.channel = channel}})

\* Mutant: numbers go on from the last one that was consumed.
NewPlanAboveFloor(r) ==
    LET base == BaseOf[run[r].sha] IN
    [number |-> Max({State.floor, NumberFloor}) + 1, sha |-> run[r].sha,
     tag |-> [base |-> base, channel |-> run[r].channel,
              seq |-> IF run[r].channel = "nightly" THEN <<r, run[r].attempt>>
                      ELSE <<NextSequence(base, run[r].channel)>>]]

\* The plan reserve_plan allocates; nightly tags name run and attempt.
NewPlan(r) ==
    LET base == BaseOf[run[r].sha] IN
    [number |-> Max({State.counter, NumberFloor}) + 1, sha |-> run[r].sha,
     tag |-> [base |-> base, channel |-> run[r].channel,
              seq |-> IF run[r].channel = "nightly" THEN <<r, run[r].attempt>>
                      ELSE <<NextSequence(base, run[r].channel)>>]]

\* Mutant: only what is still public counts as published.
VerifyReservationPublic(r) ==
    /\ Readable /\ State.plans[r] = run[r].plan
    /\ \A x \in Public : \A p \in Reserved :
           p.tag = x.tag => p.number < run[r].plan.number

\* _verify_reservation: the plan is this run's, and nothing as new was tried.
VerifyReservation(r) ==
    /\ Readable /\ State.plans[r] = run[r].plan
    /\ run[r].plan.number > State.floor
    /\ \A x \in Public : \A p \in Reserved :
           p.tag = x.tag => p.number < run[r].plan.number

\* _verify_promotion_order: nothing newer than the accepted candidate.
VerifyPromotionOrder(plan) ==
    /\ Readable /\ plan \in Reserved
    /\ plan.number >= State.floor
    /\ plan.tag \in {x.tag : x \in Public}
    /\ \A x \in Public : \A p \in Reserved :
           p.tag = x.tag /\ p # plan => p.number <= plan.number

\* check_workflow_publication: the token may not publish other workflows.
WorkflowsMatch(sha) == TreeOf[sha] = TreeOf[head]

\* release_snapshot: public and complete, with its tag at its source.
Snapshot(x) == ~x.draft /\ x.assets = "whole" /\ [tag |-> x.tag, sha |-> x.sha] \in tags

\* validate_manifest and verify_evidence: the bytes are those that the run which
\* made the release recorded.
Recorded(x) == x.maker \in Started /\ x.bytes[1] = x.maker

\* validate_run: bytes come from the latest attempt of a run that succeeded.
Completed(bytes) == run[bytes[1]].phase = "succeeded" /\ run[bytes[1]].attempt = bytes[2]

\* Mutant: the candidate's run need not have ended well.
AcceptedUnfinished(r, x) ==
    /\ Snapshot(x) /\ Recorded(x) /\ x.tag.channel = "rc"
    /\ x.maker # r /\ run[x.maker].event = "dispatch"

\* verified_rc: a candidate that another run, requested by hand, published.
Accepted(r, x) ==
    /\ Snapshot(x) /\ Recorded(x) /\ x.tag.channel = "rc"
    /\ x.maker # r /\ run[x.maker].event = "dispatch"
    /\ Completed(x.bytes)

-----------------------------------------------------------------------------
Init ==
    /\ setting \in Settings
    /\ head = 1
    /\ branch = FALSE /\ ledger = None /\ tags = {} /\ releases = {}
    /\ run = [r \in Runs |-> None]
    /\ issued = {} /\ shipped = <<>> /\ exposed = FALSE /\ trouble = 0

Serialized == setting.parallel = 1

\* Run r waits to start.  The concurrency group keeps a single waiting run: one
\* that is cancelled for a later one has done nothing and is left out.
Enqueue(r, record) ==
    /\ Serialized => \A q \in Runs : ~At(q, "queued")
    /\ run' = [run EXCEPT ![r] = record]

\* GitHub creates a run; run ids only grow.
NewRun(event, channel, sha) ==
    \E r \in 1..setting.runs :
        /\ r \notin Started /\ \A q \in Runs : q < r => q \in Started
        /\ Enqueue(r, [phase |-> "queued", event |-> event, channel |-> channel, sha |-> sha,
                attempt |-> 1, rc |-> None, plan |-> None, seen |-> None, ref |-> 0,
                rel |-> None, bytes |-> None])

\* A push starts a run; commits that start none do not matter here.
Push ==
    /\ head < MaxHead /\ head' = head + 1
    /\ NewRun("push", "beta", head')
    /\ UNCHANGED <<setting, exposed, github, issued, shipped, trouble>>

Schedule ==
    /\ NewRun("schedule", "nightly", head)
    /\ UNCHANGED <<setting, exposed, head, github, issued, shipped, trouble>>

Dispatch ==
    /\ \E channel \in Requests : NewRun("dispatch", channel, head)
    /\ UNCHANGED <<setting, exposed, head, github, issued, shipped, trouble>>

\* The group lets a queued run start when no other run is active.
Begin(r) ==
    /\ At(r, "queued")
    /\ Cardinality(Active) < setting.parallel
    /\ Goto(r, "preparing")
    /\ UNCHANGED <<setting, exposed, head, github, issued, shipped, trouble>>

\* Any check, request or job fails, or the run is cancelled.
Fail(r) ==
    /\ r \in Active /\ Counted
    /\ Conclude(r, "failed")
    /\ UNCHANGED <<setting, exposed, head, github, issued, shipped>>

\* Re-run all jobs.
Rerun(r) ==
    /\ r \in Started /\ run[r].phase \in Ended
    /\ Counted
    /\ Enqueue(r, [run[r] EXCEPT !.phase = "queued", !.attempt = @ + 1])
    /\ UNCHANGED <<setting, exposed, head, github, issued, shipped>>

\* A run that ends with nothing to publish.
End(r) ==
    /\ Conclude(r, "ended")
    /\ UNCHANGED <<setting, exposed, head, github, issued, shipped, trouble>>

-----------------------------------------------------------------------------
(***************************************************************************)
(* prepare().                                                              *)
(***************************************************************************)
\* closed_push_cycle: the base of an automatic beta is already stable.
VersionRequired(r) ==
    /\ At(r, "preparing") /\ run[r].event = "push"
    /\ StableTag(BaseOf[run[r].sha]) \in {x.tag : x \in tags}
    /\ End(r)

MayPrepare(r) ==
    LET base == BaseOf[run[r].sha] IN
    /\ At(r, "preparing") /\ ~Stable(r) /\ Readable
    /\ run[r].event = "push" => StableTag(base) \notin {x.tag : x \in tags}
    /\ run[r].channel \in {"beta", "rc"} => Absent(StableTag(base))

\* reserve_plan of a run that has a plan: the same inputs, the same plan.
ReusePlan(r) ==
    /\ MayPrepare(r) /\ State.plans[r] # None
    /\ run' = [run EXCEPT ![r].plan = State.plans[r], ![r].phase = "building"]
    /\ UNCHANGED <<setting, exposed, head, github, issued, shipped, trouble>>

\* reserve_plan up to its first write.  The tags are read after the ledger, but
\* no tag made in between is news: its plan was in the ledger.
MakePlan(r) ==
    /\ MayPrepare(r) /\ State.plans[r] = None
    /\ Absent(NewPlan(r).tag)
    /\ run' = [run EXCEPT ![r].plan = NewPlan(r), ![r].seen = <<ledger>>,
                          ![r].phase = "reserving"]
    /\ UNCHANGED <<setting, exposed, head, github, issued, shipped, trouble>>

\* The branch is created when it is still missing, at the source of the run.
CreateBranch(r) ==
    /\ At(r, "reserving") /\ ~branch
    /\ branch' = TRUE
    /\ UNCHANGED <<setting, exposed, head, ledger, tags, releases, run, issued, shipped, trouble>>

\* The contents API rejects a write based on another blob.
UnchangedSinceRead(r) == run[r].seen = <<ledger>>

\* write_state: what was read, with this run's plan.
WriteReservation(r) ==
    LET read == IF run[r].seen = <<None>> THEN NoLedger ELSE run[r].seen[1] IN
    /\ At(r, "reserving") /\ branch /\ UnchangedSinceRead(r)
    /\ ledger' = [read EXCEPT !.counter = run[r].plan.number, !.plans[r] = run[r].plan]
    /\ issued' = issued \cup {[run |-> r, plan |-> run[r].plan]}
    /\ Goto(r, "building")
    /\ UNCHANGED <<setting, exposed, head, branch, tags, releases, shipped, trouble>>

\* verified_rc: a stable run names the candidate to promote.
PrepareStable(r) ==
    /\ At(r, "preparing") /\ Stable(r)
    /\ \E x \in releases :
         /\ Accepted(r, x)
         /\ run' = [run EXCEPT ![r].phase = "verifying", ![r].rc = x.tag]
    /\ UNCHANGED <<setting, exposed, head, github, issued, shipped, trouble>>

\* Checks, build and release gate pass in this attempt.
Build(r) ==
    /\ At(r, "building")
    /\ run' = [run EXCEPT ![r].phase = "verifying", ![r].bytes = <<r, run[r].attempt>>]
    /\ UNCHANGED <<setting, exposed, head, github, issued, shipped, trouble>>

-----------------------------------------------------------------------------
(***************************************************************************)
(* publish_versioned() and promote() up to the first public change.        *)
(***************************************************************************)
\* Neither the plan's tag nor the stable tag of its base is in use.
Unpublished(r) ==
    /\ VerifyReservation(r)
    /\ Absent(run[r].plan.tag)
    /\ run[r].channel \in {"beta", "rc"} => Absent(StableTag(run[r].plan.tag.base))

\* superseded_candidate: one newer automatic run at the current head.
Superseded(r) ==
    /\ At(r, "verifying") /\ Automatic(r) /\ Unpublished(r)
    /\ head # run[r].sha
    /\ \E q \in Started :
         {p \in Started : run[p].event = "push" /\ run[p].sha = head} = {q} /\ q > r
    /\ End(r)

\* scheduled_reuse: a qualified release of the same source.  Evidence that
\* cannot be read never authorizes the skip, so Verify remains possible.
Reuse(r) ==
    /\ At(r, "verifying") /\ run[r].event = "schedule" /\ Unpublished(r)
    /\ head = run[r].sha
    /\ \E x \in releases :
         /\ x.sha = head /\ x.tag.channel # "nightly"
         /\ Snapshot(x) /\ Completed(x.bytes)
    /\ End(r)

\* publish_versioned: everything is checked again, and an automatic candidate
\* remembers the head it is for.
Verify(r) ==
    /\ At(r, "verifying") /\ ~Stable(r) /\ Unpublished(r)
    /\ Automatic(r) => head = run[r].sha
    /\ WorkflowsMatch(run[r].sha)
    /\ run' = [run EXCEPT ![r].phase = "beginning", ![r].ref = head]
    /\ UNCHANGED <<setting, exposed, head, github, issued, shipped, trouble>>

\* promote: the bytes are the candidate's, and its manifest's plan is reserved.
VerifyPromotion(r) ==
    /\ At(r, "verifying") /\ Stable(r)
    /\ \E x \in releases : \E p \in Reserved :
         /\ x.tag = run[r].rc /\ Accepted(r, x)
         /\ p = [number |-> x.number, sha |-> x.sha, tag |-> x.tag] /\ VerifyPromotionOrder(p)
         /\ Absent(StableTag(x.tag.base)) /\ WorkflowsMatch(x.sha)
         /\ run' = [run EXCEPT ![r].phase = "beginning", ![r].plan = p, ![r].bytes = x.bytes]
    /\ UNCHANGED <<setting, exposed, head, github, issued, shipped, trouble>>

\* begin_publication reads the ledger and the releases once more;
ReadFloor(r) ==
    /\ At(r, "beginning")
    /\ IF Stable(r) THEN VerifyPromotionOrder(run[r].plan) ELSE VerifyReservation(r)
    /\ run' = [run EXCEPT ![r].phase = "consuming", ![r].seen = <<ledger>>]
    /\ UNCHANGED <<setting, exposed, head, github, issued, shipped, trouble>>

\* and consumes the number before anything becomes public.
WriteFloor(r) ==
    /\ At(r, "consuming") /\ UnchangedSinceRead(r)
    /\ ledger' = [run[r].seen[1] EXCEPT !.floor = run[r].plan.number]
    /\ run' = [run EXCEPT ![r].phase = "tagging", ![r].seen = <<ledger'>>]
    /\ UNCHANGED <<setting, exposed, head, branch, tags, releases, issued, shipped, trouble>>

-----------------------------------------------------------------------------
(***************************************************************************)
(* _publish_prepared().                                                    *)
(***************************************************************************)
Target(r) == IF Stable(r) THEN StableTag(run[r].plan.tag.base) ELSE run[r].plan.tag
Draft(r) ==
    [id |-> <<r, run[r].attempt>>, maker |-> r, tag |-> Target(r), sha |-> run[r].plan.sha,
     number |-> run[r].plan.number, draft |-> TRUE, assets |-> "none", bytes |-> run[r].bytes]

CreateTag(r) ==
    /\ At(r, "tagging")
    /\ Absent(Target(r)) /\ WorkflowsMatch(run[r].plan.sha)
    /\ tags' = tags \cup {[tag |-> Target(r), sha |-> run[r].plan.sha]}
    /\ Goto(r, "drafting")
    /\ UNCHANGED <<setting, exposed, head, branch, ledger, releases, issued, shipped, trouble>>

CreateDraft(r) ==
    /\ At(r, "drafting")
    /\ releases' = releases \cup {Draft(r)}
    /\ run' = [run EXCEPT ![r].phase = "uploading", ![r].rel = Draft(r).id]
    /\ UNCHANGED <<setting, exposed, head, branch, ledger, tags, issued, shipped, trouble>>

\* create_release_once: the answer is lost, whether or not the draft was made.
\* A promotion does not look for it.
LoseDraft(r) ==
    /\ At(r, "drafting") /\ Counted
    /\ releases' \in {releases, releases \cup {Draft(r)}}
    /\ IF Stable(r) THEN Conclude(r, "failed") ELSE Goto(r, "reconciling")
    /\ UNCHANGED <<setting, exposed, head, branch, ledger, tags, issued, shipped>>

\* Mutant: any draft of the tag is taken for the one that was asked for.
OwnDraftByTag(r, x) == x.draft /\ x.tag = Target(r)

\* _reconcile_created_release: the nonce of the body names the request.
OwnDraft(r, x) == x.draft /\ x.tag = Target(r) /\ x.assets = "none" /\ x.id = Draft(r).id

\* Nothing the run relies on may have moved, and there is just one match.
Reconcile(r) ==
    /\ At(r, "reconciling")
    /\ head = run[r].ref /\ run[r].seen = <<ledger>>
    /\ \E x \in releases :
         /\ OwnDraft(r, x)
         /\ \A y \in releases : y.tag = x.tag => y = x
         /\ run' = [run EXCEPT ![r].phase = "uploading", ![r].rel = x.id]
    /\ UNCHANGED <<setting, exposed, head, github, issued, shipped, trouble>>

\* The release with the id this run knows, after the given change.
Replace(r, x, y) == x.id = run[r].rel /\ releases' = (releases \ {x}) \cup {y}

\* upload: every file once; the bytes may arrive damaged or incomplete.
Upload(r) ==
    /\ At(r, "uploading")
    /\ \E x \in releases, got \in {"whole", "damaged"} :
         Replace(r, x, [x EXCEPT !.assets = IF @ = "none" THEN got ELSE "damaged"])
    /\ Goto(r, "checking")
    /\ UNCHANGED <<setting, exposed, head, branch, ledger, tags, issued, shipped, trouble>>

\* verify_uploaded_asset: every byte is read back, and an automatic candidate is still for the head.
CheckUploads(r) ==
    /\ At(r, "checking")
    /\ \E x \in releases : x.id = run[r].rel /\ x.assets = "whole"
    /\ Automatic(r) => head = run[r].ref
    /\ Goto(r, "publishing")
    /\ UNCHANGED <<setting, exposed, head, github, issued, shipped, trouble>>

\* The draft becomes public; the answer may be lost.
Publish(r) ==
    /\ At(r, "publishing")
    /\ \E x \in releases : Replace(r, x, [x EXCEPT !.draft = FALSE])
    /\ shipped' = Append(shipped, [tag |-> Target(r), number |-> run[r].plan.number,
                                   sha |-> run[r].plan.sha, bytes |-> run[r].bytes])
    /\ \/ Goto(r, "storing") /\ UNCHANGED trouble
       \/ Conclude(r, "failed") /\ Counted
    /\ UNCHANGED <<setting, exposed, head, branch, ledger, tags, issued>>

\* The evidence is stored and the run concludes.
Succeed(r) ==
    /\ At(r, "storing")
    /\ Conclude(r, "succeeded")
    /\ UNCHANGED <<setting, exposed, head, github, issued, shipped, trouble>>

-----------------------------------------------------------------------------
\* Somebody deletes a release or draft, but not its tag.
DeleteRelease ==
    /\ \E x \in releases : releases' = releases \ {x}
    /\ UNCHANGED <<exposed, branch, ledger, tags>>

\* Somebody drafts a release for a tag that a run is about to use.
ForeignDraft ==
    /\ \E r \in Active :
         /\ run[r].phase \in {"tagging", "drafting", "reconciling"}
         /\ releases' = releases \cup {[Draft(r) EXCEPT !.id = <<r, 0>>, !.maker = 0]}
    /\ UNCHANGED <<exposed, branch, ledger, tags>>

\* Somebody removes the ledger from its branch.
RemoveLedger ==
    /\ ledger # None /\ ledger' = None
    /\ exposed' = (exposed \/ \E r \in Runs : At(r, "reserving") /\ run[r].seen = <<None>>)
    /\ UNCHANGED <<branch, tags, releases>>

Accident ==
    /\ Counted
    /\ DeleteRelease \/ ForeignDraft \/ RemoveLedger
    /\ UNCHANGED <<setting, head, run, issued, shipped>>

Prepare(r) == VersionRequired(r) \/ ReusePlan(r) \/ MakePlan(r) \/ CreateBranch(r)
                \/ WriteReservation(r) \/ PrepareStable(r) \/ Build(r)
Authorize(r) == Superseded(r) \/ Reuse(r) \/ Verify(r) \/ VerifyPromotion(r)
                  \/ ReadFloor(r) \/ WriteFloor(r)
Release(r) == CreateTag(r) \/ CreateDraft(r) \/ LoseDraft(r) \/ Reconcile(r) \/ Upload(r)
                \/ CheckUploads(r) \/ Publish(r) \/ Succeed(r)

Next ==
    \/ Push \/ Schedule \/ Dispatch \/ Accident
    \/ \E r \in Runs : Begin(r) \/ Prepare(r) \/ Authorize(r) \/ Release(r) \/ Fail(r) \/ Rerun(r)

Spec == Init /\ [][Next]_vars

-----------------------------------------------------------------------------
(***************************************************************************)
(* Properties.                                                             *)
(***************************************************************************)
ReleaseRecord ==
    [id : Attempt, maker : Runs \cup {0}, tag : Tag, sha : 1..MaxHead,
     number : Nat, draft : BOOLEAN, assets : {"none", "whole", "damaged"}, bytes : Attempt]

\* Tags, releases, ledger and runs are records of the shapes the scripts expect.
TypeOK ==
    /\ setting \in Settings /\ exposed \in BOOLEAN
    /\ head \in 1..MaxHead /\ branch \in BOOLEAN
    /\ ledger \in Ledger \cup {None}
    /\ tags \subseteq [tag : Tag, sha : 1..MaxHead]
    /\ releases \subseteq ReleaseRecord
    /\ run \in [Runs -> RunRecord \cup {None}]
    /\ issued \subseteq [run : Runs, plan : Plan]
    /\ shipped \in Seq([tag : Tag, number : Nat, sha : 1..MaxHead, bytes : Attempt])
    /\ trouble \in Nat

\* No number and no tag is issued to two runs, and no run is issued two plans.
Unique ==
    \A x, y \in issued :
        x.run = y.run \/ x.plan.number = y.plan.number \/ x.plan.tag = y.plan.tag => x = y

\* docs/VERSIONING.md: "Rerunning that run reuses the plan; a new run consumes
\* a new number."  What is issued stays unique whatever runs do at the same
\* time, fail, are repeated or lose their releases, with or without the
\* concurrency group, and if the ledger is lost.  Without the group one case is
\* excepted: of two runs that both found no ledger, one has written it, somebody
\* removes it and the other writes from zero again.
NumbersNeverReused == Serialized \/ ~exposed => Unique

\* docs/VERSIONING.md: "Deleting GitHub release metadata cannot make an older
\* build publishable again."  Where runs are serialized, what becomes public
\* only ever goes forward: each release is newer than all before, except the
\* stable release, which has the number of its candidate, the newest so far.
PublicationOrder ==
    Serialized =>
        \A i, j \in DOMAIN shipped : i < j =>
            \/ shipped[i].number < shipped[j].number
            \/ /\ shipped[i].number = shipped[j].number
               /\ shipped[j].tag.channel = "stable"

\* Everything public is one run's own draft with every byte verified, at the
\* source of a plan that the ledger still holds, even if the answer to its
\* creation was lost, somebody drafted the same tag or other runs write the
\* ledger meanwhile; a ledger begun anew (see NumbersNeverReused) forgets it.
PublishedIsWhole ==
    \A x \in Public :
        /\ x.assets = "whole" /\ x.id[2] > 0
        /\ [tag |-> x.tag, sha |-> x.sha] \in tags
        /\ \A y \in Public : y.tag = x.tag => y = x
        /\ \E z \in issued : z.run = x.bytes[1] /\ z.plan.sha = x.sha
        /\ ledger # None /\ (Serialized \/ ~exposed) => State.plans[x.bytes[1]] # None

\* A stable release has the bytes, source and number of a release candidate of
\* its base that was public before it and whose run - requested by hand -
\* succeeded in the attempt that built them; no base becomes stable twice.
StableIsAcceptedRc ==
    \A j \in DOMAIN shipped : shipped[j].tag.channel = "stable" =>
        /\ \E i \in 1..(j - 1) :
             /\ shipped[i].tag.channel = "rc" /\ shipped[i].tag.base = shipped[j].tag.base
             /\ shipped[i].bytes = shipped[j].bytes /\ shipped[i].sha = shipped[j].sha
             /\ shipped[i].number = shipped[j].number
        /\ LET source == shipped[j].bytes IN
             /\ run[source[1]].event = "dispatch"
             /\ run[source[1]].attempt = source[2] => run[source[1]].phase = "succeeded"
        /\ \A i \in 1..(j - 1) : shipped[i].tag # shipped[j].tag
=============================================================================
